--------------------------- MODULE ReportSteps -----------------------------
(***************************************************************************)
(* What each step of Reports does to what is on the line: every frame on   *)
(* its way to the program says something (a value, a question, a table, an *)
(* announcement), every frame on its way to the node orders something, and *)
(* a step takes the first of them or appends one.  The proofs of the       *)
(* properties see the steps through these lemmas, without the bytes.       *)
(***************************************************************************)
EXTENDS FrameProofs

-----------------------------------------------------------------------------
(* What the node says, and what the program asks of it.                    *)

\* The sets of destinations a group can hold.
Small == {D \in SUBSET Destinations : Cardinality(D) <= MaxNodes}

\* The class a table is reported through.
TableClass(t) ==
  IF t[1] = "param" THEN CONFIGURATION
  ELSE IF t[1] = "assoc" THEN ASSOCIATION ELSE MULTI_CHANNEL_ASSOCIATION

TableId(t) == IF t[1] = "param" THEN 6 ELSE 3

\* What a report has before the content of the table.
Heading(t, content) ==
  IF t[1] = "param" THEN <<t[2], Len(content)>> ELSE <<t[2], MaxNodes, 0>>

TableParams(t, content) == Heading(t, content) \o content

TableReport(t, content) ==
  [ep |-> 0, cc |-> TableClass(t), id |-> TableId(t), params |-> TableParams(t, content)]

\* A content a table can have.
IsContent(t, content) ==
  /\ content \in Seq(Byte) /\ Len(content) <= 243
  /\ t[1] = "param" => Len(content) = Len(ParamBytes[t[2]])
  /\ t[1] = "assoc" => \E D \in Small : (\A d \in D : d[2] = 0) /\ content = ListOf(D)
  /\ t[1] = "mcAssoc" => \E D \in Small : content = ListOf(D)

IsValue(r) == /\ r.cc \in ValueClasses \cap Classes /\ r.id \in ValueIds(r.cc)
              /\ Len(r.params) = ValueSize(r.cc)
IsGet(r)   == r.cc = BASIC /\ r.id = 2
IsWake(r)  == r.cc = WAKE_UP
IsTable(r) == r.cc \in {CONFIGURATION, ASSOCIATION, MULTI_CHANNEL_ASSOCIATION} \cap Classes

Sayings ==
  {r \in [ep : Byte, cc : Byte, id : Byte, params : Seq(Byte)] :
     \/ IsValue(r) \/ IsGet(r) \/ IsWake(r)
     \/ IsTable(r) /\ \E t \in Tables, c \in Seq(Byte) : IsContent(t, c) /\ r = TableReport(t, c)}

\* A command that says r.
Speaks(cmd, r) ==
  /\ cmd \in Commands /\ r \in Sayings
  /\ Unwrap(cmd) = r
  /\ <<cmd[1], cmd[2]>> \in Dispatched <=> ~IsWake(r)

\* The numbers of the classes and commands are bytes.
LEMMA SmallNumbers ==
  /\ \A n \in Nat : n <= 255 => n \in Byte
  /\ 0 \in Byte /\ 1 \in Byte /\ 2 \in Byte /\ 3 \in Byte /\ 4 \in Byte /\ 5 \in Byte
  /\ 6 \in Byte /\ 7 \in Byte /\ 100 \in Byte
  /\ BASIC \in Byte /\ METER \in Byte /\ MULTI_CHANNEL \in Byte /\ CONFIGURATION \in Byte
  /\ BATTERY \in Byte /\ WAKE_UP \in Byte /\ ASSOCIATION \in Byte
  /\ MULTI_CHANNEL_ASSOCIATION \in Byte
  BY DEF Byte, BASIC, METER, MULTI_CHANNEL, CONFIGURATION, BATTERY, WAKE_UP, ASSOCIATION,
     MULTI_CHANNEL_ASSOCIATION

\* What the classes of values have in common (the lists of HandleCCFrame,
\* CCDispatcher.cpp:74-89).
LEMMA ValueClassFacts ==
  ASSUME NEW c \in ValueClasses
  PROVE  /\ c \in Byte /\ c # MULTI_CHANNEL /\ c # WAKE_UP /\ c # CONFIGURATION
         /\ c # ASSOCIATION /\ c # MULTI_CHANNEL_ASSOCIATION
         /\ ValueSize(c) = IF c = METER THEN 2 ELSE 1
         /\ ValueIds(c) = IF c = BASIC THEN {1, 3} ELSE IF c = METER THEN {2} ELSE {3}
         /\ ValueIds(c) \subseteq Byte
         /\ \A id \in ValueIds(c) : <<c, id>> \in Dispatched
  BY DEF ValueClasses, ValueSize, ValueIds, Dispatched, Byte, BASIC, METER, MULTI_CHANNEL,
     CONFIGURATION, BATTERY, WAKE_UP, ASSOCIATION, MULTI_CHANNEL_ASSOCIATION, SWITCH_BINARY,
     SWITCH_MULTILEVEL, SENSOR_BINARY, PROTECTION

\* A command said plainly or through an endpoint.
LEMMA SpeaksWrapped ==
  ASSUME NEW x \in Byte, NEW y \in Byte, NEW rest \in Seq(Byte), NEW ep \in Byte,
         x # MULTI_CHANNEL, x # WAKE_UP, Len(rest) <= 243, <<x, y>> \in Dispatched,
         [ep |-> ep, cc |-> x, id |-> y, params |-> rest] \in Sayings
  PROVE  Speaks(Wrapped(ep, CommandWith(x, y, rest)),
                [ep |-> ep, cc |-> x, id |-> y, params |-> rest])
  <1> DEFINE plain == CommandWith(x, y, rest)
             r == [ep |-> ep, cc |-> x, id |-> y, params |-> rest]
  <1>1. ~IsWake(r)
    BY DEF IsWake
  <1>2. Len(rest) \in Nat
    OBVIOUS
  <1>3. CASE ep = 0
    <2>1. plain \in Seq(Byte) /\ Len(plain) = 2 + Len(rest) /\ plain[1] = x /\ plain[2] = y
      BY SmallBytes, CommandFacts, SMTT(60)
    <2>2. Unwrap(plain) = r
      BY <1>3, PlainFacts
    <2>3. Wrapped(ep, plain) = plain
      BY <1>3 DEF Wrapped
    <2> HIDE DEF plain
    <2>4. plain \in Commands
      BY <1>2, <2>1 DEF Commands
    <2> HIDE DEF r
    <2> QED
      BY <1>1, <2>1, <2>2, <2>3, <2>4 DEF Speaks, r, plain
  <1>4. CASE ep # 0
    <2> DEFINE cmd == WrappedIn(ep, plain)
    <2>1. /\ cmd \in Seq(Byte) /\ Len(cmd) = 5 + Len(rest)
          /\ cmd[1] = MULTI_CHANNEL /\ cmd[2] = 6 /\ Unwrap(cmd) = r
      BY WrappedFacts
    <2>2. Wrapped(ep, plain) = cmd
      BY <1>4 DEF Wrapped, WrappedIn
    <2> HIDE DEF plain, cmd
    <2>3. cmd \in Commands
      BY <1>2, <2>1 DEF Commands
    <2>4. <<MULTI_CHANNEL, 6>> \in Dispatched
      BY DEF Dispatched
    <2> HIDE DEF r
    <2> QED
      BY <1>1, <2>1, <2>2, <2>3, <2>4 DEF Speaks, r, plain
  <1> QED
    BY <1>3, <1>4

\* The value a class reports.
ValueParams(c, v) == IF c = METER THEN <<1, v>> ELSE <<v>>

\* The report of a value, plain or encapsulated, is understood as it is meant.
LEMMA SpeaksValue ==
  ASSUME NEW c \in ValueClasses \cap Classes, NEW id \in ValueIds(c), NEW v \in Byte,
         NEW ep \in Byte
  PROVE  /\ Speaks(Wrapped(ep, ReportOf(c, id, v)),
                   [ep |-> ep, cc |-> c, id |-> id, params |-> ValueParams(c, v)])
         /\ IsValue([ep |-> ep, cc |-> c, id |-> id, params |-> ValueParams(c, v)])
         /\ ValueParams(c, v) \in Seq(Byte) /\ Len(ValueParams(c, v)) = ValueSize(c)
  <1> DEFINE rest == ValueParams(c, v)
             r == [ep |-> ep, cc |-> c, id |-> id, params |-> rest]
  <1>1. /\ c \in Byte /\ c # MULTI_CHANNEL /\ c # WAKE_UP /\ id \in Byte
        /\ <<c, id>> \in Dispatched /\ ValueSize(c) = IF c = METER THEN 2 ELSE 1
    BY ValueClassFacts
  <1>2. rest \in Seq(Byte) /\ Len(rest) = ValueSize(c)
    <2>1. CASE c = METER
      BY <1>1, <2>1, SmallBytes DEF ValueParams
    <2>2. CASE c # METER
      BY <1>1, <2>2 DEF ValueParams
    <2> QED
      BY <2>1, <2>2
  <1>3. ReportOf(c, id, v) = CommandWith(c, id, rest)
    BY DEF ReportOf, CommandWith, ValueParams
  <1> HIDE DEF rest
  <1>4. Len(rest) <= 243
    BY <1>1, <1>2
  <1>5. IsValue(r)
    BY <1>2 DEF IsValue
  <1>6. r \in Sayings
    BY <1>1, <1>2, <1>5 DEF Sayings
  <1>7. Speaks(Wrapped(ep, CommandWith(c, id, rest)), r)
    BY <1>1, <1>2, <1>4, <1>6, SpeaksWrapped
  <1> QED
    BY <1>2, <1>3, <1>5, <1>7 DEF rest

\* BASIC_GET.
LEMMA SpeaksGet ==
  ASSUME NEW ep \in Byte
  PROVE  Speaks(Wrapped(ep, <<BASIC, 2>>), [ep |-> ep, cc |-> BASIC, id |-> 2, params |-> <<>>])
  <1> DEFINE r == [ep |-> ep, cc |-> BASIC, id |-> 2, params |-> <<>>]
             e == <<>>
  <1>1. BASIC \in Byte /\ 2 \in Byte /\ BASIC # MULTI_CHANNEL /\ BASIC # WAKE_UP
    BY SmallNumbers DEF BASIC, MULTI_CHANNEL, WAKE_UP
  <1>2. e \in Seq(Byte) /\ Len(e) <= 243
    OBVIOUS
  <1>3. <<BASIC, 2>> = CommandWith(BASIC, 2, e)
    BY DEF CommandWith
  <1>4. r \in Sayings
    BY <1>1 DEF Sayings, IsGet
  <1>5. <<BASIC, 2>> \in Dispatched
    BY DEF Dispatched
  <1>6. r = [ep |-> ep, cc |-> BASIC, id |-> 2, params |-> e]
    OBVIOUS
  <1> HIDE DEF e, r
  <1>7. Speaks(Wrapped(ep, CommandWith(BASIC, 2, e)),
               [ep |-> ep, cc |-> BASIC, id |-> 2, params |-> e])
    BY <1>1, <1>2, <1>4, <1>5, <1>6, SpeaksWrapped
  <1> QED
    BY <1>3, <1>6, <1>7 DEF r

WakeReport == [ep |-> 0, cc |-> WAKE_UP, id |-> 7, params |-> <<>>]

\* WAKE_UP_NOTIFICATION.
LEMMA SpeaksWake == Speaks(<<WAKE_UP, 7>>, WakeReport)
  <1> DEFINE e == <<>>
             cmd == CommandWith(WAKE_UP, 7, e)
  <1>1. e \in Seq(Byte) /\ Len(e) = 0
    OBVIOUS
  <1>2. WAKE_UP \in Byte /\ 7 \in Byte /\ 0 \in Byte /\ WAKE_UP # MULTI_CHANNEL
    BY SmallNumbers DEF WAKE_UP, MULTI_CHANNEL
  <1>3. <<WAKE_UP, 7>> = cmd /\ WakeReport = [ep |-> 0, cc |-> WAKE_UP, id |-> 7, params |-> e]
    BY DEF CommandWith, WakeReport
  <1> HIDE DEF e, cmd
  <1>4. /\ cmd \in Seq(Byte) /\ 2 <= Len(cmd) /\ Len(cmd) <= 248
        /\ cmd[1] = WAKE_UP /\ cmd[2] = 7
    <2>1. /\ cmd \in Seq(Byte) /\ Len(cmd) = 2 + Len(e)
          /\ cmd[1] = WAKE_UP /\ cmd[2] = 7
      <3>1. /\ CommandWith(WAKE_UP, 7, e) \in Seq(Byte)
            /\ Len(CommandWith(WAKE_UP, 7, e)) = 2 + Len(e)
            /\ CommandWith(WAKE_UP, 7, e)[1] = WAKE_UP /\ CommandWith(WAKE_UP, 7, e)[2] = 7
            /\ Parsed(0, CommandWith(WAKE_UP, 7, e)) =
                 [ep |-> 0, cc |-> WAKE_UP, id |-> 7, params |-> e]
        <4>1. e \in Seq(Byte) /\ WAKE_UP \in Byte /\ 7 \in Byte
          BY <1>1, <1>2
        <4> QED
          BY <4>1, CommandFacts
      <3> QED
        BY <3>1 DEF cmd
    <2> QED
      BY <1>1, <2>1
  <1>5. Unwrap(cmd) = [ep |-> 0, cc |-> WAKE_UP, id |-> 7, params |-> e]
    BY <1>1, <1>2, PlainFacts DEF cmd
  <1>6. IsWake(WakeReport) /\ WakeReport \in Sayings
    BY <1>2 DEF IsWake, Sayings, WakeReport
  <1>7. <<WAKE_UP, 7>> \notin Dispatched
    BY DEF Dispatched, WAKE_UP, ValueClasses, BASIC, METER, MULTI_CHANNEL, CONFIGURATION,
       BATTERY, ASSOCIATION, MULTI_CHANNEL_ASSOCIATION, SWITCH_BINARY, SWITCH_MULTILEVEL,
       SENSOR_BINARY, PROTECTION
  <1>8. cmd \in Commands
    BY <1>4 DEF Commands
  <1> QED
    BY <1>3, <1>4, <1>5, <1>6, <1>7, <1>8 DEF Speaks

\* A table is one of three kinds.
LEMMA TableFacts ==
  ASSUME ReportsAssumption, NEW t \in Tables
  PROVE  /\ \/ t[1] = "param" /\ t[2] \in Params /\ t = <<"param", t[2]>>
            \/ t[1] = "assoc" /\ t[2] \in Groups /\ t = <<"assoc", t[2]>>
            \/ t[1] = "mcAssoc" /\ t[2] \in Groups /\ t = <<"mcAssoc", t[2]>>
         /\ t[2] \in Byte /\ t # None
         /\ TableClass(t) \in Byte /\ TableId(t) \in Byte
         /\ TableClass(t) \in {CONFIGURATION, ASSOCIATION, MULTI_CHANNEL_ASSOCIATION}
         /\ <<TableClass(t), TableId(t)>> \in Dispatched
  <1>1. \/ t[1] = "param" /\ t[2] \in Params /\ t = <<"param", t[2]>>
        \/ t[1] = "assoc" /\ t[2] \in Groups /\ t = <<"assoc", t[2]>>
        \/ t[1] = "mcAssoc" /\ t[2] \in Groups /\ t = <<"mcAssoc", t[2]>>
    BY DEF Tables
  <1>2. t[2] \in Byte
    <2>1. Params \subseteq 0 .. 254 /\ Groups \subseteq 1 .. 255
      BY DEF ReportsAssumption
    <2>2. \A p \in Params : p \in Byte
      <3> TAKE p \in Params
      <3>1. p \in 0 .. 254
        BY <2>1
      <3> QED
        BY <3>1 DEF Byte
    <2>3. \A g \in Groups : g \in Byte
      <3> TAKE g \in Groups
      <3>1. g \in 1 .. 255
        BY <2>1
      <3> QED
        BY <3>1 DEF Byte
    <2> QED
      BY <1>1, <2>2, <2>3, ZenonT(60)
  <1>3. t # None
    BY DEF ReportsAssumption
  <1>4. /\ TableClass(t) \in {CONFIGURATION, ASSOCIATION, MULTI_CHANNEL_ASSOCIATION}
        /\ TableId(t) \in {3, 6}
        /\ <<TableClass(t), TableId(t)>> \in Dispatched
    BY <1>1 DEF TableClass, TableId, Dispatched
  <1>5. TableClass(t) \in Byte /\ TableId(t) \in Byte
    BY <1>4, SmallNumbers
  <1> QED
    BY <1>1, <1>2, <1>3, <1>4, <1>5

\* Class and command, a heading and a content.
BehindTwo(x, y, a, b, rest) == <<x, y, a, b>> \o rest = CommandWith(x, y, <<a, b>> \o rest)
BehindThree(x, y, a, b, c, rest) ==
  <<x, y, a, b, c>> \o rest = CommandWith(x, y, <<a, b, c>> \o rest)

\* Three parts of a command, joined either way.
LEMMA BytesAssociative ==
  ASSUME NEW p \in Bytes, NEW q \in Bytes, NEW r \in Bytes
  PROVE  p \o (q \o r) = (p \o q) \o r
  <1>1. p \in Seq(Byte) /\ q \in Seq(Byte) /\ r \in Seq(Byte)
    BY DEF Bytes
  <1> QED
    BY <1>1, ConcatAssociative, SMTT(60)

\* Two bytes before the content are taken off it.
LEMMA HeadingOfTwo ==
  ASSUME NEW x \in Byte, NEW y \in Byte, NEW a \in Byte, NEW b \in Byte, NEW rest \in Bytes
  PROVE  BehindTwo(x, y, a, b, rest)
  <1> DEFINE front == <<x, y>>
             mid == <<a, b>>
             whole == <<x, y, a, b>>
             j == Joined(front, mid)
  <1>1. front \in Bytes /\ mid \in Bytes /\ whole \in Seq(Byte)
    BY DEF Bytes
  <1>2. Len(front) = 2 /\ Len(mid) = 2 /\ Len(whole) = 4
    OBVIOUS
  <1>3. /\ front[1] = x /\ front[2] = y /\ mid[1] = a /\ mid[2] = b
        /\ whole[1] = x /\ whole[2] = y /\ whole[3] = a /\ whole[4] = b
    OBVIOUS
  <1>4. front \o mid = j
    BY DEF Joined
  <1>5. CommandWith(x, y, <<a, b>> \o rest) = front \o (mid \o rest)
    BY DEF CommandWith
  <1>6. <<x, y, a, b>> \o rest = whole \o rest
    OBVIOUS
  <1> HIDE DEF front, mid, whole, j
  <1>7. /\ j \in Seq(Byte) /\ Len(j) = Len(front) + Len(mid)
        /\ \A i \in 1 .. Len(front) : j[i] = front[i]
        /\ \A i \in 1 .. Len(mid) : j[Len(front) + i] = mid[i]
    BY <1>1, ConcatFacts DEF j, Bytes
  <1>8. j[1] = x /\ j[2] = y /\ j[2 + 1] = a /\ j[2 + 2] = b
    BY <1>2, <1>3, <1>7
  <1>9. \A i \in 1 .. 4 : j[i] = whole[i]
    BY <1>3, <1>8
  <1>10. Len(j) = 4
    BY <1>2, <1>7
  <1>11. j = whole
    BY <1>1, <1>2, <1>7, <1>9, <1>10, SeqEqual
  <1>12. front \o (mid \o rest) = (front \o mid) \o rest
    BY <1>1, BytesAssociative, SMTT(60)
  <1> QED
    BY <1>4, <1>5, <1>6, <1>11, <1>12 DEF BehindTwo

\* And three.
LEMMA HeadingOfThree ==
  ASSUME NEW x \in Byte, NEW y \in Byte, NEW a \in Byte, NEW b \in Byte, NEW c \in Byte,
         NEW rest \in Bytes
  PROVE  BehindThree(x, y, a, b, c, rest)
  <1> DEFINE front == <<x, y>>
             mid == <<a, b, c>>
             whole == <<x, y, a, b, c>>
             j == Joined(front, mid)
  <1>1. front \in Bytes /\ mid \in Bytes /\ whole \in Seq(Byte)
    BY DEF Bytes
  <1>2. Len(front) = 2 /\ Len(mid) = 3 /\ Len(whole) = 5
    OBVIOUS
  <1>3. /\ front[1] = x /\ front[2] = y /\ mid[1] = a /\ mid[2] = b /\ mid[3] = c
        /\ whole[1] = x /\ whole[2] = y /\ whole[3] = a /\ whole[4] = b /\ whole[5] = c
    OBVIOUS
  <1>4. front \o mid = j
    BY DEF Joined
  <1>5. CommandWith(x, y, <<a, b, c>> \o rest) = front \o (mid \o rest)
    BY DEF CommandWith
  <1>6. <<x, y, a, b, c>> \o rest = whole \o rest
    OBVIOUS
  <1> HIDE DEF front, mid, whole, j
  <1>7. /\ j \in Seq(Byte) /\ Len(j) = Len(front) + Len(mid)
        /\ \A i \in 1 .. Len(front) : j[i] = front[i]
        /\ \A i \in 1 .. Len(mid) : j[Len(front) + i] = mid[i]
    BY <1>1, ConcatFacts DEF j, Bytes
  <1>8. j[1] = x /\ j[2] = y /\ j[2 + 1] = a /\ j[2 + 2] = b /\ j[2 + 3] = c
    BY <1>2, <1>3, <1>7
  <1>9. \A i \in 1 .. 5 : j[i] = whole[i]
    BY <1>3, <1>8
  <1>10. Len(j) = 5
    BY <1>2, <1>7
  <1>11. j = whole
    BY <1>1, <1>2, <1>7, <1>9, <1>10, SeqEqual
  <1>12. front \o (mid \o rest) = (front \o mid) \o rest
    BY <1>1, BytesAssociative, SMTT(60)
  <1> QED
    BY <1>4, <1>5, <1>6, <1>11, <1>12 DEF BehindThree

\* What a handler reads of the report of a table.
LEMMA TableParamsFacts ==
  ASSUME ReportsAssumption, NEW t \in Tables, NEW content, IsContent(t, content)
  PROVE  LET r == TableParams(t, content)
             n == IF t[1] = "param" THEN 2 ELSE 3
         IN /\ r \in Seq(Byte) /\ Len(r) = n + Len(content) /\ Len(r) >= 3
            /\ r[1] = t[2]
            /\ r[2] = IF t[1] = "param" THEN Len(content) ELSE MaxNodes
            /\ t[1] # "param" => r[3] = 0
            /\ SubSeq(r, n + 1, n + Len(content)) = content
  <1> DEFINE r == TableParams(t, content)
             n == IF t[1] = "param" THEN 2 ELSE 3
             front == Heading(t, content)
  <1>1. content \in Seq(Byte) /\ Len(content) \in Nat /\ Len(content) <= 243
    BY DEF IsContent
  <1>2. t[2] \in Byte /\ Len(content) \in Byte /\ MaxNodes \in Byte /\ 0 \in Byte
    <2>1. MaxNodes \in Nat /\ MaxNodes <= 121
      BY AssumptionFacts
    <2>2. t[2] \in Byte
      BY TableFacts
    <2>3. \A m \in Nat : m <= 255 => m \in Byte
      BY SmallBytes
    <2>4. MaxNodes <= 255 /\ Len(content) <= 255
      BY <1>1, <2>1
    <2> QED
      BY <1>1, <2>1, <2>2, <2>3, <2>4, SmallBytes
  <1>3. /\ front \in Seq(Byte) /\ Len(front) = n /\ front[1] = t[2]
        /\ front[2] = IF t[1] = "param" THEN Len(content) ELSE MaxNodes
        /\ t[1] # "param" => front[3] = 0
    <2>1. CASE t[1] = "param"
      <3>1. front = <<t[2], Len(content)>> /\ n = 2
        BY <2>1 DEF Heading
      <3> QED
        BY <1>2, <2>1, <3>1
    <2>2. CASE t[1] # "param"
      <3>1. front = <<t[2], MaxNodes, 0>> /\ n = 3
        BY <2>2 DEF Heading
      <3> QED
        BY <1>2, <2>2, <3>1
    <2> QED
      BY <2>1, <2>2
  <1>4. r = (front \o content) \o <<>>
    <2> HIDE DEF front
    <2>1. r = front \o content
      BY DEF TableParams, front
    <2> QED
      BY <1>1, <1>3, <2>1
  <1> HIDE DEF front, r
  <1>5. IsMiddle(r, front, content, <<>>)
    <2>1. front \in Bytes /\ content \in Bytes /\ <<>> \in Bytes
      BY <1>1, <1>3 DEF Bytes
    <2>2. r = Middle(front, content, <<>>)
      BY <1>4 DEF Middle
    <2> QED
      BY <2>1, <2>2, MiddleFacts
  <1>6. /\ r \in Seq(Byte) /\ Len(r) = Len(front) + Len(content)
        /\ \A i \in 1 .. Len(front) : r[i] = front[i]
        /\ SubSeq(r, Len(front) + 1, Len(front) + Len(content)) = content
    <2>1. /\ r \in Seq(Byte) /\ Len(r) = Len(front) + Len(content) + Len(<<>>)
          /\ \A i \in 1 .. Len(front) : r[i] = front[i]
          /\ SubSeq(r, Len(front) + 1, Len(front) + Len(content)) = content
      BY <1>5 DEF IsMiddle, Bytes
    <2> QED
      BY <1>1, <1>3, <2>1
  <1>7. n \in {2, 3} /\ (t[1] # "param" => n = 3)
    OBVIOUS
  <1> HIDE DEF n
  <1>8. r[1] = t[2] /\ r[2] = IF t[1] = "param" THEN Len(content) ELSE MaxNodes
    BY <1>3, <1>6, <1>7
  <1>9. t[1] # "param" => r[3] = 0
    BY <1>3, <1>6, <1>7
  <1>10. Len(r) = n + Len(content) /\ SubSeq(r, n + 1, n + Len(content)) = content
    BY <1>3, <1>6
  <1>11. Len(r) >= 3
    <2>1. CASE t[1] = "param"
      <3>1. Len(content) = Len(ParamBytes[t[2]]) /\ t[2] \in Params
        BY <2>1, TableFacts, ZenonT(60) DEF IsContent
      <3>2. Len(content) \in {1, 2, 4}
        BY <3>1, ZenonT(60) DEF ReportsAssumption
      <3>3. \A k \in {1, 2, 4} : k >= 1
        OBVIOUS
      <3>4. Len(content) >= 1
        BY <3>2, <3>3
      <3> QED
        BY <1>1, <1>7, <1>10, <3>4
    <2>2. CASE t[1] # "param"
      BY <1>1, <1>7, <1>10, <2>2
    <2> QED
      BY <2>1, <2>2
  <1> QED
    BY <1>6, <1>8, <1>9, <1>10, <1>11 DEF r, n

\* The command that reports a table.
TableCommand(t, content) == CommandWith(TableClass(t), TableId(t), TableParams(t, content))

\* The report of a table is understood as it is meant.
LEMMA SpeaksTable ==
  ASSUME ReportsAssumption, NEW t \in Tables, NEW content, IsContent(t, content),
         TableClass(t) \in Classes
  PROVE  /\ Speaks(TableCommand(t, content), TableReport(t, content))
         /\ IsTable(TableReport(t, content))
  <1> DEFINE x == TableClass(t)
             y == TableId(t)
             rest == TableParams(t, content)
             r == TableReport(t, content)
             cmd == CommandWith(x, y, rest)
  <1>1. /\ x \in Byte /\ y \in Byte /\ <<x, y>> \in Dispatched
        /\ x \in {CONFIGURATION, ASSOCIATION, MULTI_CHANNEL_ASSOCIATION} \cap Classes
    BY TableFacts
  <1>2. content \in Seq(Byte) /\ Len(content) \in Nat /\ Len(content) <= 243
    BY DEF IsContent
  <1>3. rest \in Seq(Byte) /\ Len(rest) <= 246
    <2>1. /\ rest \in Seq(Byte)
          /\ Len(rest) = (IF t[1] = "param" THEN 2 ELSE 3) + Len(content)
      BY TableParamsFacts
    <2> HIDE DEF rest
    <2> QED
      BY <1>2, <2>1
  <1>4. r = [ep |-> 0, cc |-> x, id |-> y, params |-> rest]
    BY DEF TableReport
  <1>5. x # MULTI_CHANNEL /\ x # WAKE_UP
    BY <1>1 DEF MULTI_CHANNEL, WAKE_UP, CONFIGURATION, ASSOCIATION, MULTI_CHANNEL_ASSOCIATION
  <1>6. IsTable(r)
    BY <1>1, <1>4 DEF IsTable
  <1>7. r \in Sayings
    <2>1. r \in [ep : Byte, cc : Byte, id : Byte, params : Seq(Byte)]
      BY <1>1, <1>3, <1>4, SmallBytes
    <2>2. \E u \in Tables, c \in Seq(Byte) : IsContent(u, c) /\ r = TableReport(u, c)
      BY <1>2
    <2> HIDE DEF r
    <2> QED
      BY <1>6, <2>1, <2>2 DEF Sayings
  <1>8. ~IsWake(r)
    BY <1>4, <1>5 DEF IsWake
  <1> HIDE DEF x, y, rest
  <1>9. /\ cmd \in Seq(Byte) /\ Len(cmd) = 2 + Len(rest) /\ cmd[1] = x /\ cmd[2] = y
        /\ Parsed(0, cmd) = [ep |-> 0, cc |-> x, id |-> y, params |-> rest]
    BY <1>1, <1>3, CommandFacts
  <1>10. Unwrap(cmd) = r
    BY <1>1, <1>3, <1>4, <1>5, PlainFacts
  <1>11. TableCommand(t, content) = cmd
    BY DEF TableCommand, x, y, rest
  <1> HIDE DEF cmd, r
  <1>12. cmd \in Commands
    BY <1>3, <1>9 DEF Commands
  <1>13. <<cmd[1], cmd[2]>> \in Dispatched
    BY <1>1, <1>9
  <1>14. Speaks(cmd, r)
    BY <1>7, <1>8, <1>10, <1>12, <1>13 DEF Speaks
  <1> QED
    BY <1>6, <1>11, <1>14 DEF r

-----------------------------------------------------------------------------
(* Frames on the line.                                                     *)

\* What a frame says, damaged or not.
Said(f) == Unwrap(CommandOf(f.payload))

Made(payload) == Encode_Frame(APPLICATION_COMMAND_HANDLER, payload)

\* A frame as it was made, or with one byte behind its length damaged.
AirFrames ==
  {f \in Frame :
     /\ \E cmd \in Commands, r \in Sayings : Speaks(cmd, r) /\ f.payload = PayloadOf(cmd)
     /\ \/ f.bytes = Made(f.payload)
        \/ \E k \in 3 .. Len(Made(f.payload)), mask \in Byte \ {0} :
             f.bytes = Damaged(Made(f.payload), k, mask)}

\* What holds of a frame on the line.
IsAirborne(f) ==
  /\ f \in Frame /\ Said(f) \in Sayings
  /\ f.payload \in Payloads
  /\ FrameWith(f.payload) \in AirFrames /\ Said(FrameWith(f.payload)) = Said(f)
  /\ Decode_Frame(f.bytes) =
       IF f = FrameWith(f.payload)
       THEN [func |-> APPLICATION_COMMAND_HANDLER, payload |-> f.payload]
       ELSE None
  /\ (Decode_Frame(f.bytes) = None) <=> (f # FrameWith(f.payload))
  /\ ReportIn(f.bytes) = IF /\ f = FrameWith(f.payload)
                            /\ ~IsWake(Said(f)) /\ Said(f).cc \in Classes
                         THEN Said(f)
                         ELSE None

\* The module's frame around a payload is decoded to it, and damaged in a byte
\* is not decoded.
LEMMA FrameWithFacts ==
  ASSUME NEW payload \in Payloads
  PROVE  /\ FrameWith(payload) \in Frame /\ FrameWith(payload).payload = payload
         /\ FrameWith(payload).bytes = Made(payload)
         /\ Made(payload) \in Seq(Byte)
         /\ Decode_Frame(Made(payload)) = [func |-> APPLICATION_COMMAND_HANDLER, payload |-> payload]
         /\ \A k \in 3 .. Len(Made(payload)), mask \in Byte \ {0} :
              /\ Damaged(Made(payload), k, mask) \in Seq(Byte)
              /\ Damaged(Made(payload), k, mask) # Made(payload)
              /\ Decode_Frame(Damaged(Made(payload), k, mask)) = None
  <1>1. APPLICATION_COMMAND_HANDLER \in Byte
    BY SmallNumbers DEF APPLICATION_COMMAND_HANDLER
  <1>2. Made(payload) \in Seq(Byte)
    BY <1>1, EncodeFacts DEF Made
  <1>3. Decode_Frame(Made(payload)) = [func |-> APPLICATION_COMMAND_HANDLER, payload |-> payload]
    BY <1>1, DecodeOfEncode DEF Made
  <1>4. payload \in Seq(Byte)
    BY DEF Payloads
  <1>5. /\ FrameWith(payload) \in Frame /\ FrameWith(payload).payload = payload
        /\ FrameWith(payload).bytes = Made(payload)
    BY <1>2, <1>4 DEF FrameWith, Frame, Made
  <1>6. ASSUME NEW k \in 3 .. Len(Made(payload)), NEW mask \in Byte \ {0}
        PROVE  /\ Damaged(Made(payload), k, mask) \in Seq(Byte)
               /\ Damaged(Made(payload), k, mask) # Made(payload)
               /\ Decode_Frame(Damaged(Made(payload), k, mask)) = None
    <2>1. Made(payload) = Encode_Frame(APPLICATION_COMMAND_HANDLER, payload)
      BY DEF Made
    <2> QED
      BY <1>1, <2>1, DecodeOfDamaged
  <1> QED
    BY <1>2, <1>3, <1>5, <1>6

\* A command the node can say travels in a frame that is understood as it is
\* meant.
LEMMA SpokenFrame ==
  ASSUME ReportsAssumption, NEW cmd, NEW r, Speaks(cmd, r)
  PROVE  FrameWith(PayloadOf(cmd)) \in AirFrames /\ Said(FrameWith(PayloadOf(cmd))) = r
  <1>1. cmd \in Commands /\ r \in Sayings /\ Unwrap(cmd) = r
    BY DEF Speaks
  <1>2. PayloadOf(cmd) \in Payloads /\ CommandOf(PayloadOf(cmd)) = cmd
    BY <1>1, PayloadFacts
  <1>3. /\ FrameWith(PayloadOf(cmd)) \in Frame
        /\ FrameWith(PayloadOf(cmd)).payload = PayloadOf(cmd)
        /\ FrameWith(PayloadOf(cmd)).bytes = Made(PayloadOf(cmd))
    BY <1>2, FrameWithFacts
  <1> QED
    BY <1>1, <1>2, <1>3 DEF AirFrames, Said

\* What can be known of a frame on its way to the program: what it says, and
\* whether it is whole.
LEMMA AirFrameFacts ==
  ASSUME ReportsAssumption, NEW f \in AirFrames
  PROVE  IsAirborne(f)
  <1>1. PICK cmd \in Commands, r \in Sayings : Speaks(cmd, r) /\ f.payload = PayloadOf(cmd)
    BY DEF AirFrames
  <1>2. /\ \/ f.bytes = Made(f.payload)
           \/ \E k \in 3 .. Len(Made(f.payload)), mask \in Byte \ {0} :
                f.bytes = Damaged(Made(f.payload), k, mask)
        /\ f \in Frame
    BY DEF AirFrames
  <1> DEFINE p == f.payload
             g == FrameWith(p)
             decoded == [func |-> APPLICATION_COMMAND_HANDLER, payload |-> p]
  <1>3. p \in Payloads /\ CommandOf(p) = cmd /\ p \in Seq(Byte)
    BY <1>1, PayloadFacts DEF Payloads
  <1>4. Unwrap(cmd) = r /\ (<<cmd[1], cmd[2]>> \in Dispatched <=> ~IsWake(r))
    BY <1>1 DEF Speaks
  <1>5. Said(f) = r
    BY <1>3, <1>4 DEF Said
  <1>6. g \in AirFrames /\ Said(g) = Said(f)
    BY <1>1, <1>5, SpokenFrame
  <1>7. g \in Frame /\ g.payload = p /\ g.bytes = Made(p)
    BY <1>3, FrameWithFacts
  <1>8. Decode_Frame(Made(p)) = decoded
    BY <1>3, FrameWithFacts
  <1>9. decoded # None /\ cmd # None
    <2>1. APPLICATION_COMMAND_HANDLER \in Byte
      BY SmallNumbers DEF APPLICATION_COMMAND_HANDLER
    <2>2. decoded \in [func : Byte, payload : Seq(Byte)]
      BY <1>3, <2>1
    <2>3. cmd \in Seq(Byte)
      BY DEF Commands
    <2> HIDE DEF decoded
    <2> QED
      BY <2>2, <2>3 DEF ReportsAssumption
  <1>10. f = g <=> f.bytes = Made(p)
    BY <1>2, <1>7 DEF Frame
  <1>11. CASE f = g
    <2>1. Decode_Frame(f.bytes) = decoded
      BY <1>8, <1>10, <1>11
    <2>2. CommandOf(Decode_Frame(f.bytes).payload) = cmd
      BY <1>3, <2>1
    <2>3. ReportIn(f.bytes) = IF <<cmd[1], cmd[2]>> \in Dispatched /\ Unwrap(cmd).cc \in Classes
                              THEN Unwrap(cmd) ELSE None
      <3> HIDE DEF decoded
      <3> QED
        BY <1>9, <2>1, <2>2 DEF ReportIn
    <2> HIDE DEF p, g
    <2> QED
      BY <1>2, <1>3, <1>4, <1>5, <1>6, <1>9, <1>11, <2>1, <2>3 DEF IsAirborne, p, g, decoded
  <1>12. CASE f # g
    <2>1. PICK k \in 3 .. Len(Made(p)), mask \in Byte \ {0} : f.bytes = Damaged(Made(p), k, mask)
      BY <1>2, <1>10, <1>12
    <2>2. Decode_Frame(f.bytes) = None
      BY <1>3, <2>1, FrameWithFacts
    <2>3. ReportIn(f.bytes) = None
      BY <2>2 DEF ReportIn
    <2> QED
      BY <1>2, <1>3, <1>5, <1>6, <1>12, <2>2, <2>3 DEF IsAirborne
  <1> QED
    BY <1>11, <1>12

\* A fault makes of a sound frame a damaged one.
LEMMA DamagedFrame ==
  ASSUME ReportsAssumption, NEW f \in AirFrames, Decode_Frame(f.bytes) # None,
         NEW k \in DOMAIN f.bytes, k >= 3, NEW mask \in Byte \ {0}
  PROVE  LET g == [bytes |-> Damaged(f.bytes, k, mask), payload |-> f.payload]
         IN g \in AirFrames /\ Said(g) = Said(f)
  <1> DEFINE g == [bytes |-> Damaged(f.bytes, k, mask), payload |-> f.payload]
  <1>1. IsAirborne(f)
    BY AirFrameFacts
  <1>2. f.payload \in Payloads /\ f = FrameWith(f.payload)
    BY <1>1 DEF IsAirborne
  <1>3. f.bytes = Made(f.payload) /\ f.bytes \in Seq(Byte)
    BY <1>2, FrameWithFacts
  <1>4. k \in 3 .. Len(Made(f.payload))
    BY <1>3
  <1>5. Damaged(Made(f.payload), k, mask) \in Seq(Byte)
    BY <1>2, <1>4, FrameWithFacts
  <1>6. \E cmd \in Commands, r \in Sayings : Speaks(cmd, r) /\ f.payload = PayloadOf(cmd)
    BY DEF AirFrames
  <1>7. g \in Frame /\ g.payload = f.payload /\ g.bytes = Damaged(Made(f.payload), k, mask)
    BY <1>2, <1>3, <1>5 DEF Frame, Payloads
  <1>8. g \in AirFrames
    <2> HIDE DEF g
    <2> QED
      BY <1>4, <1>6, <1>7 DEF AirFrames
  <1>9. Said(g) = Said(f)
    BY DEF Said
  <1> QED
    BY <1>8, <1>9

-----------------------------------------------------------------------------
(* Orders: the commands in the outbox.                                     *)

ConfigureCommand(p, b) == <<CONFIGURATION, 4, p, 1, b>>

SetCommand(id, g, d) ==
  IF d[2] = 0
  THEN <<ASSOCIATION, id, g, d[1]>>
  ELSE <<MULTI_CHANNEL_ASSOCIATION, id, g, 0, d[1], d[2]>>

BatteryCommand == <<BATTERY, 2>>

\* SET and REMOVE.
SetIds == {1, 4}

\* The GET of a table.
Question(t) == <<TableClass(t), IF t[1] = "param" THEN 5 ELSE 2, t[2]>>

\* The answer to a BASIC_GET.
AnswerCommand(ep, v) ==
  IF ep = 0 THEN <<BASIC, 3, v>> ELSE <<MULTI_CHANNEL, 6, ep, BASIC, 3, v>>

Configurations == {ConfigureCommand(p, b) : p \in Params, b \in Byte}
Changes        == {SetCommand(id, g, d) : id \in SetIds, g \in Groups, d \in Destinations}
Questions      == {Question(t) : t \in {u \in Tables : TableClass(u) \in Classes}}
Answers        == {AnswerCommand(ep, v) : ep \in Byte, v \in Byte}
BatteryGets    == {o \in {BatteryCommand} : BATTERY \in Classes}

Orders == Configurations \cup Changes \cup Questions \cup Answers \cup BatteryGets

SentFrames == {MakeSendData(o, cb) : o \in Orders, cb \in Byte}

\* Parameters and groups are named by a byte.
LEMMA ParamFacts ==
  ASSUME ReportsAssumption
  PROVE  Params \subseteq Byte /\ Groups \subseteq Byte
  <1>1. Params \subseteq 0 .. 254 /\ Groups \subseteq 1 .. 255
    BY DEF ReportsAssumption
  <1>2. ASSUME NEW p \in Params PROVE p \in Byte
    <2>1. p \in 0 .. 254
      BY <1>1
    <2> QED
      BY <2>1 DEF Byte
  <1>3. ASSUME NEW g \in Groups PROVE g \in Byte
    <2>1. g \in 1 .. 255
      BY <1>1
    <2> QED
      BY <2>1 DEF Byte
  <1> QED
    BY <1>2, <1>3

\* What the node reads of each kind of order.
LEMMA ConfigurationFacts ==
  ASSUME ReportsAssumption, NEW p \in Params, NEW b \in Byte
  PROVE  LET o == ConfigureCommand(p, b)
         IN /\ o \in Commands /\ o[1] = CONFIGURATION /\ o[2] = 4
            /\ SubSeq(o, 3, Len(o)) = <<p, 1, b>> /\ SubSeq(<<p, 1, b>>, 3, 3) = <<b>>
  <1>1. p \in Byte /\ CONFIGURATION \in Byte /\ 4 \in Byte /\ 1 \in Byte
    BY ParamFacts, SmallNumbers
  <1> DEFINE o == <<CONFIGURATION, 4, p, 1, b>>
  <1>2. o \in Seq(Byte)
    BY <1>1
  <1>3. Len(o) = 5 /\ o[1] = CONFIGURATION /\ o[2] = 4
    OBVIOUS
  <1>4. SubSeq(o, 3, 5) = <<p, 1, b>>
    BY <1>1, BehindTwoThree
  <1>5. SubSeq(<<p, 1, b>>, 3, 3) = <<b>>
    BY <1>1, LastOfThree
  <1> HIDE DEF o
  <1>6. 2 <= Len(o) /\ Len(o) <= 248
    BY <1>3
  <1> QED
    BY <1>2, <1>3, <1>4, <1>5, <1>6 DEF Commands, o, ConfigureCommand

\* The destination in an order to bind.
LEMMA ChangeParams ==
  ASSUME NEW id \in Byte, NEW g \in Byte, NEW a \in Byte, NEW b \in Byte
  PROVE  SubSeq(<<MULTI_CHANNEL_ASSOCIATION, id, g, 0, a, b>>, 3, 6) = <<g, 0, a, b>>
  <1> DEFINE x == MULTI_CHANNEL_ASSOCIATION
             z == 0
  <1>1. x \in Byte /\ z \in Byte
    BY SmallNumbers
  <1> HIDE DEF x, z
  <1>2. SubSeq(<<x, id, g, z, a, b>>, 3, 6) = <<g, z, a, b>>
    BY <1>1, BehindTwoFour
  <1> QED
    BY <1>2 DEF x, z

IsChange(o, id, g, d) ==
  /\ o \in Commands
  /\ o[1] = ClassOf(d) /\ o[2] = id
  /\ SubSeq(o, 3, Len(o))[1] = g /\ Tail(SubSeq(o, 3, Len(o))) = ListOf({d})

\* What an order to bind or unbind is made of.
LEMMA ChangeFacts ==
  ASSUME ReportsAssumption, NEW id \in SetIds, NEW g \in Groups, NEW d \in Destinations
  PROVE  IsChange(SetCommand(id, g, d), id, g, d)
  <1>0. /\ d[1] \in Byte /\ d[2] \in Byte /\ g \in Byte /\ id \in Byte /\ 0 \in Byte
        /\ ASSOCIATION \in Byte /\ MULTI_CHANNEL_ASSOCIATION \in Byte
    <2>1. d[1] \in Byte /\ d[2] \in Byte
      BY DestinationFacts
    <2>2. g \in Byte
      BY ParamFacts
    <2>3. id \in Byte
      BY SmallNumbers DEF SetIds
    <2> QED
      BY <2>1, <2>2, <2>3, SmallNumbers
  <1>1. ListOf({d}) = IF d[2] = 0 THEN <<d[1]>> ELSE <<0, d[1], d[2]>>
    BY ListOfOne
  <1>2. CASE d[2] = 0
    <2> DEFINE o == <<ASSOCIATION, id, g, d[1]>>
               q == <<g, d[1]>>
    <2>1. o \in Seq(Byte)
      BY <1>0
    <2>2. Len(o) = 4 /\ o[1] = ASSOCIATION /\ o[2] = id /\ q[1] = g
      OBVIOUS
    <2>3. SubSeq(o, 3, 4) = q
      BY <1>0, BehindTwoTwo
    <2>4. Tail(q) = <<d[1]>>
      BY <1>0, RestOfTwo
    <2>5. SetCommand(id, g, d) = o /\ ClassOf(d) = ASSOCIATION
      BY <1>2 DEF SetCommand, ClassOf
    <2> HIDE DEF o, q
    <2>6. 2 <= Len(o) /\ Len(o) <= 248
      BY <2>2
    <2> QED
      BY <1>1, <1>2, <2>1, <2>2, <2>3, <2>4, <2>5, <2>6, ZenonT(60) DEF Commands, IsChange
  <1>3. CASE d[2] # 0
    <2> DEFINE o == <<MULTI_CHANNEL_ASSOCIATION, id, g, 0, d[1], d[2]>>
               q == <<g, 0, d[1], d[2]>>
    <2>1. o \in Seq(Byte)
      BY <1>0
    <2>2. Len(o) = 6 /\ o[1] = MULTI_CHANNEL_ASSOCIATION /\ o[2] = id /\ q[1] = g
      OBVIOUS
    <2>3. SubSeq(o, 3, 6) = q
      <3> DEFINE a == d[1]
                 b == d[2]
      <3>1. a \in Byte /\ b \in Byte /\ g \in Byte /\ id \in Byte
        BY <1>0
      <3> HIDE DEF a, b
      <3>2. SubSeq(<<MULTI_CHANNEL_ASSOCIATION, id, g, 0, a, b>>, 3, 6) = <<g, 0, a, b>>
        BY <3>1, ChangeParams
      <3> QED
        BY <3>2 DEF a, b
    <2>4. Tail(q) = <<0, d[1], d[2]>>
      BY <1>0, RestOfFour
    <2>5. SetCommand(id, g, d) = o /\ ClassOf(d) = MULTI_CHANNEL_ASSOCIATION
      BY <1>3 DEF SetCommand, ClassOf
    <2> HIDE DEF o, q
    <2>6. 2 <= Len(o) /\ Len(o) <= 248
      BY <2>2
    <2> QED
      BY <1>1, <1>3, <2>1, <2>2, <2>3, <2>4, <2>5, <2>6, ZenonT(60) DEF Commands, IsChange
  <1> QED
    BY <1>2, <1>3

\* What a question for a table is made of.
LEMMA QuestionFacts ==
  ASSUME ReportsAssumption, NEW t \in Tables
  PROVE  LET o == Question(t)
         IN /\ o \in Commands
            /\ o[1] = TableClass(t) /\ o[2] = (IF t[1] = "param" THEN 5 ELSE 2)
            /\ SubSeq(o, 3, Len(o))[1] = t[2]
  <1> DEFINE x == TableClass(t)
             y == IF t[1] = "param" THEN 5 ELSE 2
             z == t[2]
             o == <<x, y, z>>
  <1>1. x \in Byte /\ z \in Byte
    BY TableFacts, ZenonT(60)
  <1>2. y \in Byte
    BY SmallNumbers
  <1>3. Question(t) = o
    BY DEF Question
  <1> HIDE DEF x, y, z
  <1>4. o \in Seq(Byte)
    BY <1>1, <1>2
  <1> DEFINE q == <<z>>
  <1>5. Len(o) = 3 /\ o[1] = x /\ o[2] = y /\ q[1] = z
    OBVIOUS
  <1>6. SubSeq(o, 3, 3) = q
    BY <1>1, <1>2, BehindTwoOne
  <1> HIDE DEF o, q
  <1>7. 2 <= Len(o) /\ Len(o) <= 248
    BY <1>5
  <1>8. o \in Commands
    BY <1>4, <1>7 DEF Commands
  <1>9. SubSeq(o, 3, Len(o))[1] = z
    BY <1>5, <1>6
  <1> QED
    BY <1>3, <1>5, <1>8, <1>9 DEF x, y, z

\* What an answer is made of, plain and encapsulated.
LEMMA AnswerFacts ==
  ASSUME NEW ep \in Byte, NEW v \in Byte
  PROVE  LET o == AnswerCommand(ep, v)
             q == SubSeq(o, 3, Len(o))
         IN /\ o \in Commands
            /\ ep = 0 => o[1] = BASIC /\ o[2] = 3 /\ q[1] = v
            /\ ep # 0 => /\ o[1] = MULTI_CHANNEL /\ o[2] = 6
                         /\ q[1] = ep /\ SubSeq(q, 2, 3) = <<BASIC, 3>> /\ q[4] = v
  <1>0. BASIC \in Byte /\ MULTI_CHANNEL \in Byte /\ 3 \in Byte /\ 6 \in Byte
    BY SmallNumbers
  <1>1. CASE ep = 0
    <2> DEFINE o == <<BASIC, 3, v>>
               q == <<v>>
    <2>1. o \in Seq(Byte)
      BY <1>0
    <2>2. Len(o) = 3 /\ o[1] = BASIC /\ o[2] = 3 /\ q[1] = v
      OBVIOUS
    <2>3. SubSeq(o, 3, 3) = q
      BY <1>0, BehindTwoOne
    <2>4. AnswerCommand(ep, v) = o
      BY <1>1 DEF AnswerCommand
    <2> HIDE DEF o, q
    <2>5. 2 <= Len(o) /\ Len(o) <= 248
      BY <2>2
    <2> QED
      <3>1. o \in Commands
        BY <2>1, <2>5 DEF Commands
      <3>2. SubSeq(o, 3, Len(o))[1] = v
        BY <2>2, <2>3
      <3> QED
        BY <1>1, <2>2, <2>4, <3>1, <3>2
  <1>2. CASE ep # 0
    <2> DEFINE o == <<MULTI_CHANNEL, 6, ep, BASIC, 3, v>>
               q == <<ep, BASIC, 3, v>>
    <2>1. o \in Seq(Byte)
      BY <1>0
    <2>2. Len(o) = 6 /\ o[1] = MULTI_CHANNEL /\ o[2] = 6 /\ q[1] = ep /\ q[4] = v
      OBVIOUS
    <2>3. SubSeq(o, 3, 6) = q
      BY <1>0, BehindTwoFour
    <2>4. SubSeq(q, 2, 3) = <<BASIC, 3>>
      BY <1>0, InnerOfFour
    <2>5. AnswerCommand(ep, v) = o
      BY <1>2 DEF AnswerCommand
    <2> HIDE DEF o, q
    <2>6. 2 <= Len(o) /\ Len(o) <= 248
      BY <2>2
    <2> QED
      <3>1. o \in Commands
        BY <2>1, <2>6 DEF Commands
      <3>2. SubSeq(o, 3, Len(o)) = q
        BY <2>2, <2>3
      <3> QED
        BY <1>2, <2>2, <2>4, <2>5, <3>1, <3>2
  <1> QED
    BY <1>1, <1>2

\* What the question for the battery is made of.
LEMMA BatteryFacts ==
  BatteryCommand \in Commands /\ BatteryCommand[1] = BATTERY /\ BatteryCommand[2] = 2
  <1> DEFINE o == <<BATTERY, 2>>
  <1>1. o \in Seq(Byte)
    BY SmallNumbers
  <1>2. Len(o) = 2 /\ o[1] = BATTERY /\ o[2] = 2
    OBVIOUS
  <1> HIDE DEF o
  <1>3. 2 <= Len(o) /\ Len(o) <= 248
    BY <1>2
  <1> QED
    BY <1>1, <1>2, <1>3 DEF Commands, BatteryCommand, o

\* Class and id tell the kind of an order.
LEMMA OrderKinds ==
  ASSUME ReportsAssumption, NEW o \in Orders
  PROVE  /\ o \in Commands
         /\ o[1] = CONFIGURATION /\ o[2] = 4 => o \in Configurations
         /\ o[1] \in {ASSOCIATION, MULTI_CHANNEL_ASSOCIATION} /\ o[2] \in SetIds => o \in Changes
         /\ o[1] = CONFIGURATION /\ o[2] = 5 => o \in Questions
         /\ o[1] \in {ASSOCIATION, MULTI_CHANNEL_ASSOCIATION} /\ o[2] = 2 => o \in Questions
         /\ o[1] = BATTERY => o \in BatteryGets
         /\ o[1] \in {BASIC, MULTI_CHANNEL} => o \in Answers
         /\ o \in Answers => o \notin Configurations \cup Changes \cup Questions \cup BatteryGets
         /\ o \in Questions => o \notin Configurations \cup Changes \cup BatteryGets
         /\ o \in BatteryGets => o \notin Configurations \cup Changes
         /\ o \in Configurations => o \notin Changes
  <1>1. ASSUME o \in Configurations PROVE o \in Commands /\ o[1] = CONFIGURATION /\ o[2] = 4
    <2>1. PICK p \in Params, b \in Byte : o = ConfigureCommand(p, b)
      BY <1>1 DEF Configurations
    <2>2. /\ ConfigureCommand(p, b) \in Commands /\ ConfigureCommand(p, b)[1] = CONFIGURATION
          /\ ConfigureCommand(p, b)[2] = 4
      BY ConfigurationFacts, ZenonT(60)
    <2> QED
      BY <2>1, <2>2
  <1>2. ASSUME o \in Changes
        PROVE  /\ o \in Commands /\ o[1] \in {ASSOCIATION, MULTI_CHANNEL_ASSOCIATION}
               /\ o[2] \in SetIds
    <2>1. PICK id \in SetIds, g \in Groups, d \in Destinations : o = SetCommand(id, g, d)
      BY <1>2 DEF Changes
    <2>2. /\ SetCommand(id, g, d) \in Commands
          /\ SetCommand(id, g, d)[1] = ClassOf(d) /\ SetCommand(id, g, d)[2] = id
      <3>1. IsChange(SetCommand(id, g, d), id, g, d)
        BY ChangeFacts, ZenonT(60)
      <3> QED
        BY <3>1 DEF IsChange
    <2> QED
      BY <2>1, <2>2 DEF ClassOf
  <1>3. ASSUME o \in Questions
        PROVE  /\ o \in Commands
               /\ \/ o[1] = CONFIGURATION /\ o[2] = 5
                  \/ o[1] \in {ASSOCIATION, MULTI_CHANNEL_ASSOCIATION} /\ o[2] = 2
    <2>1. PICK t \in Tables : o = Question(t)
      BY <1>3 DEF Questions
    <2>2. o \in Commands /\ o[1] = TableClass(t) /\ o[2] = (IF t[1] = "param" THEN 5 ELSE 2)
      BY <2>1, QuestionFacts
    <2> QED
      BY <2>2 DEF TableClass
  <1>4. ASSUME o \in Answers PROVE o \in Commands /\ o[1] \in {BASIC, MULTI_CHANNEL}
    <2>1. PICK ep \in Byte, v \in Byte : o = AnswerCommand(ep, v)
      BY <1>4 DEF Answers
    <2>2. o \in Commands /\ (ep = 0 => o[1] = BASIC) /\ (ep # 0 => o[1] = MULTI_CHANNEL)
      BY <2>1, AnswerFacts
    <2> QED
      BY <2>2
  <1>5. ASSUME o \in BatteryGets PROVE o \in Commands /\ o[1] = BATTERY
    BY <1>5, BatteryFacts DEF BatteryGets
  <1>6. /\ SetIds = {1, 4} /\ BASIC = 32 /\ MULTI_CHANNEL = 96 /\ CONFIGURATION = 112 /\ BATTERY = 128
        /\ ASSOCIATION = 133 /\ MULTI_CHANNEL_ASSOCIATION = 142
    BY DEF SetIds, BASIC, MULTI_CHANNEL, CONFIGURATION, BATTERY, ASSOCIATION,
       MULTI_CHANNEL_ASSOCIATION
  <1>7. \/ o \in Configurations \/ o \in Changes \/ o \in Questions \/ o \in Answers
        \/ o \in BatteryGets
    BY DEF Orders
  <1> QED
    BY <1>1, <1>2, <1>3, <1>4, <1>5, <1>6, <1>7

\* What holds of a frame of the outbox.
IsSent(frame) ==
  /\ frame \in Seq(Byte) /\ Command(frame) \in Orders
  /\ Decode_Frame(frame) # None
  /\ LET payload == Decode_Frame(frame).payload
     IN MakeSendData(Command(frame), payload[Len(payload) - 1]) = frame

\* A frame of the program holds one command, and is decoded to it.
LEMMA SentFrameFacts ==
  ASSUME ReportsAssumption, NEW frame \in SentFrames
  PROVE  IsSent(frame)
  <1>1. PICK o \in Orders, cb \in Byte : frame = MakeSendData(o, cb)
    BY DEF SentFrames
  <1>2. o \in Commands
    BY OrderKinds
  <1>3. /\ MakeSendData(o, cb) \in Seq(Byte)
        /\ Command(MakeSendData(o, cb)) = o
        /\ Decode_Frame(MakeSendData(o, cb)) # None
        /\ LET payload == Decode_Frame(MakeSendData(o, cb)).payload
           IN payload[Len(payload) - 1] = cb
    BY <1>2, SendDataFacts
  <1> QED
    BY <1>1, <1>3 DEF IsSent

\* MakeSendData builds one.
LEMMA SentFrame ==
  ASSUME ReportsAssumption, NEW o \in Orders, NEW cb \in Byte
  PROVE  MakeSendData(o, cb) \in SentFrames /\ Command(MakeSendData(o, cb)) = o
  <1>1. o \in Commands
    BY OrderKinds
  <1>2. Command(MakeSendData(o, cb)) = o
    BY <1>1, SendDataFacts
  <1> QED
    BY <1>2 DEF SentFrames

-----------------------------------------------------------------------------
(* The types, and the two sequences the rest is about.                     *)

SayingOf == [f \in AirFrames |-> Said(f)]
OrderOf  == [f \in SentFrames |-> Command(f)]

\* What the node said and is not received yet, and what was sent to it.
said   == Mapped(SayingOf, air)
orders == Mapped(OrderOf, outbox)

ValueStates ==
  {v \in [ValueClasses -> Seq(Byte)] : \A c \in ValueClasses : Len(v[c]) \in {0, ValueSize(c)}}
ParamStates ==
  {v \in [Params -> Seq(Byte)] : \A p \in Params : Len(v[p]) = Len(ParamBytes[p])}
BoundStates == [Groups -> Small]
Counts      == [Params -> Nat]
Basics      == [ep : Byte, value : Byte]
AssocGroups == [hasLastReport : BOOLEAN, members : SUBSET Targets]
McGroups    == [hasLastReport : BOOLEAN, members : SUBSET Destinations]

TypeInv ==
  /\ config \in [Params -> [valid : BOOLEAN, value : Int]]
  /\ assoc \in [Groups -> AssocGroups] /\ mcAssoc \in [Groups -> McGroups]
  /\ values \in ValueStates /\ reported \in ValueStates
  /\ awaiting \in Tables \cup {None}
  /\ outbox \in Seq(SentFrames) /\ air \in Seq(AirFrames)
  /\ param \in ParamStates /\ bound \in BoundStates /\ told \in Counts /\ gets \in Counts
  /\ asked \in Basics \cup {None} /\ heard \in Basics \cup {None}
  /\ ops \in 0 .. MaxOps /\ faults \in 0 .. MaxFaults
  /\ wanted \in [param : [Params -> Int], bound : BoundStates]
  /\ fresh \in SUBSET Tables

\* What frames say, as a function.
LEMMA SayingOfType ==
  ASSUME ReportsAssumption
  PROVE  /\ SayingOf \in [AirFrames -> Sayings]
         /\ \A f \in AirFrames : SayingOf[f] = Said(f)
  <1>1. ASSUME NEW f \in AirFrames PROVE Said(f) \in Sayings
    BY AirFrameFacts, ZenonT(60) DEF IsAirborne
  <1> QED
    BY <1>1 DEF SayingOf

\* What frames order, as a function.
LEMMA OrderOfType ==
  ASSUME ReportsAssumption
  PROVE  /\ OrderOf \in [SentFrames -> Orders]
         /\ \A f \in SentFrames : OrderOf[f] = Command(f)
  <1>1. ASSUME NEW f \in SentFrames PROVE Command(f) \in Orders
    BY SentFrameFacts DEF IsSent
  <1> QED
    BY <1>1 DEF OrderOf

\* What is said and ordered on the line, frame by frame.
LEMMA SequenceTypes ==
  ASSUME ReportsAssumption, TypeInv
  PROVE  /\ said \in Seq(Sayings) /\ Len(said) = Len(air)
         /\ \A i \in 1 .. Len(air) : said[i] = Said(air[i])
         /\ orders \in Seq(Orders) /\ Len(orders) = Len(outbox)
         /\ \A i \in 1 .. Len(outbox) : orders[i] = Command(outbox[i])
  <1>1. air \in Seq(AirFrames) /\ outbox \in Seq(SentFrames)
    BY DEF TypeInv
  <1>2. IsMapped(said, SayingOf, air, Sayings)
    BY <1>1, SayingOfType, MappedFacts, Zenon DEF said
  <1>3. IsMapped(orders, OrderOf, outbox, Orders)
    BY <1>1, OrderOfType, MappedFacts, Zenon DEF orders
  <1>4. \A i \in 1 .. Len(air) : said[i] = Said(air[i])
    <2>1. \A i \in 1 .. Len(air) : air[i] \in AirFrames /\ said[i] = SayingOf[air[i]]
      BY <1>1, <1>2 DEF IsMapped
    <2> QED
      BY <2>1, SayingOfType, Zenon
  <1>5. \A i \in 1 .. Len(outbox) : orders[i] = Command(outbox[i])
    <2>1. \A i \in 1 .. Len(outbox) : outbox[i] \in SentFrames /\ orders[i] = OrderOf[outbox[i]]
      BY <1>1, <1>3 DEF IsMapped
    <2> QED
      BY <2>1, OrderOfType, Zenon
  <1> QED
    BY <1>2, <1>3, <1>4, <1>5 DEF IsMapped

\* A job sends one frame.
LEMMA SendStep ==
  ASSUME ReportsAssumption, TypeInv, NEW o \in Orders, NEW cb \in Byte, Send(MakeSendData(o, cb))
  PROVE  outbox' \in Seq(SentFrames) /\ orders' = Append(orders, o)
  <1> DEFINE f == MakeSendData(o, cb)
  <1>1. f \in SentFrames /\ Command(f) = o
    BY SentFrame
  <1>2. outbox' = Append(outbox, f) /\ outbox \in Seq(SentFrames)
    BY DEF Send, TypeInv
  <1> HIDE DEF f
  <1>3. Mapped(OrderOf, Append(outbox, f)) = Append(Mapped(OrderOf, outbox), Command(f))
    <2>1. OrderOf[f] = Command(f)
      BY <1>1, OrderOfType
    <2>2. Mapped(OrderOf, Append(outbox, f)) = Append(Mapped(OrderOf, outbox), OrderOf[f])
      <3>1. OrderOf \in [SentFrames -> Orders]
        BY OrderOfType
      <3>2. GrowsWith(OrderOf, outbox, f)
        BY <1>1, <1>2, <3>1, MappedAppend, Zenon
      <3> QED
        BY <3>2 DEF GrowsWith
    <2> QED
      BY <2>1, <2>2
  <1>4. outbox' \in Seq(SentFrames)
    BY <1>1, <1>2
  <1> QED
    BY <1>1, <1>2, <1>3, <1>4 DEF orders

\* The node gets one.
LEMMA GetsStep ==
  ASSUME ReportsAssumption, TypeInv, NEW cc, NEW id, Gets(cc, id)
  PROVE  /\ outbox' \in Seq(SentFrames) /\ orders' = Tail(orders) /\ orders # <<>>
         /\ orders \in Seq(Orders)
         /\ orders[1] \in Orders /\ orders[1][1] = cc /\ orders[1][2] = id
         /\ params = SubSeq(orders[1], 3, Len(orders[1]))
  <1>1. outbox \in Seq(SentFrames) /\ outbox # <<>> /\ outbox' = Tail(outbox)
    BY DEF TypeInv, Gets
  <1>2. /\ Mapped(OrderOf, Tail(outbox)) = Tail(orders) /\ orders # <<>>
        /\ orders[1] = Command(Head(outbox))
    <2>1. Head(outbox) \in SentFrames
      BY <1>1
    <2>2. OrderOf[Head(outbox)] = Command(Head(outbox))
      BY <2>1, OrderOfType
    <2>3. /\ Mapped(OrderOf, Tail(outbox)) = Tail(Mapped(OrderOf, outbox))
          /\ Mapped(OrderOf, outbox) # <<>>
          /\ Mapped(OrderOf, outbox)[1] = OrderOf[Head(outbox)]
      <3>1. OrderOf \in [SentFrames -> Orders]
        BY OrderOfType
      <3>2. ShrinksWith(OrderOf, outbox)
        BY <1>1, <3>1, MappedTail, Zenon
      <3> QED
        BY <3>2 DEF ShrinksWith
    <2> QED
      BY <2>2, <2>3 DEF orders
  <1>3. orders \in Seq(Orders)
    BY SequenceTypes
  <1>4. orders[1] \in Orders
    BY <1>2, <1>3
  <1>5. outbox' \in Seq(SentFrames)
    BY <1>1
  <1>6. Command(Head(outbox))[1] = cc /\ Command(Head(outbox))[2] = id
    BY DEF Gets
  <1> QED
    BY <1>1, <1>2, <1>3, <1>4, <1>5, <1>6 DEF orders, params

\* The node says something.
LEMMA AirStep ==
  ASSUME ReportsAssumption, TypeInv, NEW cmd, NEW r, Speaks(cmd, r), Air(cmd)
  PROVE  air' \in Seq(AirFrames) /\ said' = Append(said, r) /\ r \in Sayings
  <1> DEFINE f == FrameWith(PayloadOf(cmd))
  <1>1. f \in AirFrames /\ Said(f) = r
    BY SpokenFrame
  <1>2. air' = Append(air, f) /\ air \in Seq(AirFrames)
    BY DEF Air, PayloadOf, TypeInv
  <1> HIDE DEF f
  <1>3. Mapped(SayingOf, Append(air, f)) = Append(Mapped(SayingOf, air), Said(f))
    <2>1. SayingOf[f] = Said(f)
      BY <1>1, SayingOfType
    <2>2. Mapped(SayingOf, Append(air, f)) = Append(Mapped(SayingOf, air), SayingOf[f])
      <3>1. SayingOf \in [AirFrames -> Sayings]
        BY SayingOfType
      <3>2. GrowsWith(SayingOf, air, f)
        BY <1>1, <1>2, <3>1, MappedAppend, Zenon
      <3> QED
        BY <3>2 DEF GrowsWith
    <2> QED
      BY <2>1, <2>2
  <1>4. air' \in Seq(AirFrames)
    BY <1>1, <1>2
  <1>5. r \in Sayings
    BY DEF Speaks
  <1> QED
    BY <1>1, <1>2, <1>3, <1>4, <1>5 DEF said

\* The interface thread takes the frame at the head.
LEMMA TakeStep ==
  ASSUME ReportsAssumption, TypeInv, air # <<>>, air' = Tail(air)
  PROVE  /\ air' \in Seq(AirFrames) /\ said' = Tail(said) /\ said # <<>>
         /\ said \in Seq(Sayings) /\ said[1] \in Sayings /\ said[1] = Said(Head(air))
  <1>1. air \in Seq(AirFrames)
    BY DEF TypeInv
  <1>2. /\ Mapped(SayingOf, Tail(air)) = Tail(said) /\ said # <<>>
        /\ said[1] = Said(Head(air))
    <2>1. Head(air) \in AirFrames
      BY <1>1
    <2>2. SayingOf[Head(air)] = Said(Head(air))
      BY <2>1, SayingOfType
    <2>3. /\ Mapped(SayingOf, Tail(air)) = Tail(Mapped(SayingOf, air))
          /\ Mapped(SayingOf, air) # <<>>
          /\ Mapped(SayingOf, air)[1] = SayingOf[Head(air)]
      <3>1. SayingOf \in [AirFrames -> Sayings]
        BY SayingOfType
      <3>2. ShrinksWith(SayingOf, air)
        BY <1>1, <3>1, MappedTail, Zenon
      <3> QED
        BY <3>2 DEF ShrinksWith
    <2> QED
      BY <2>2, <2>3 DEF said
  <1>3. said \in Seq(Sayings)
    BY SequenceTypes
  <1>4. said[1] \in Sayings
    BY <1>2, <1>3
  <1>5. air' \in Seq(AirFrames)
    BY <1>1
  <1> QED
    BY <1>1, <1>2, <1>3, <1>4, <1>5 DEF said

\* What it receives is what was said.
LEMMA ReceivedFacts ==
  ASSUME ReportsAssumption, TypeInv
  PROVE  /\ Received # None =>
              /\ air # <<>> /\ Received = Said(Head(air)) /\ Received.cc \in Classes
              /\ ~IsWake(Received)
         /\ air # <<>> /\ Decode_Frame(Head(air).bytes) # None =>
              Received = IF ~IsWake(Said(Head(air))) /\ Said(Head(air)).cc \in Classes
                         THEN Said(Head(air)) ELSE None
  <1>1. CASE air = <<>>
    BY <1>1 DEF Received
  <1>2. CASE air # <<>>
    <2> DEFINE f == Head(air)
    <2>1. f \in AirFrames
      BY <1>2 DEF TypeInv
    <2>2. IsAirborne(f)
      BY <2>1, AirFrameFacts
    <2>3. Received = ReportIn(f.bytes)
      BY <1>2 DEF Received
    <2>4. /\ Decode_Frame(f.bytes) = None <=> f # FrameWith(f.payload)
          /\ ReportIn(f.bytes) = IF /\ f = FrameWith(f.payload)
                                    /\ ~IsWake(Said(f)) /\ Said(f).cc \in Classes
                                 THEN Said(f)
                                 ELSE None
      BY <2>2 DEF IsAirborne
    <2> HIDE DEF f
    <2>5. /\ Received # None =>
               Received = Said(f) /\ Said(f).cc \in Classes /\ ~IsWake(Said(f))
          /\ Decode_Frame(f.bytes) # None =>
               Received = IF ~IsWake(Said(f)) /\ Said(f).cc \in Classes THEN Said(f) ELSE None
      BY <2>3, <2>4
    <2> QED
      BY <1>2, <2>5 DEF f
  <1> QED
    BY <1>1, <1>2

-----------------------------------------------------------------------------
(* What each action does: the types stay right, and what is said, ordered  *)
(* and written down changes as told.                                       *)

\* The range of a byte.
LEMMA ByteBounds == \A b \in Byte : b \in Nat /\ b <= 255
  BY DEF Byte

\* The bound on what is done is small.
LEMMA BoundFacts == ASSUME ReportsAssumption PROVE MaxOps \in Nat /\ MaxOps <= 255
  <1>1. MaxOps \in Byte
    BY DEF ReportsAssumption
  <1> QED
    BY <1>1, ByteBounds

\* A job of the user, and what the node does of its own accord.
LEMMA JobStep ==
  ASSUME ReportsAssumption, TypeInv, NEW cc, Job(cc)
  PROVE  ops' \in 0 .. MaxOps /\ awaiting = None /\ cc \in Classes
  <1>1. MaxOps \in Nat
    BY BoundFacts
  <1>2. ops \in 0 .. MaxOps
    BY DEF TypeInv
  <1> QED
    BY <1>1, <1>2 DEF Job

\* An event counts against the bound.
LEMMA EventStep ==
  ASSUME ReportsAssumption, TypeInv, Event
  PROVE  ops' \in 0 .. MaxOps /\ ops \in Byte
  <1>1. MaxOps \in Nat /\ MaxOps <= 255
    BY BoundFacts
  <1>2. ops \in 0 .. MaxOps /\ ops > 0 /\ ops' = ops - 1
    BY DEF TypeInv, Event
  <1>3. ops \in Nat /\ ops <= 255 /\ ops' \in 0 .. MaxOps
    BY <1>1, <1>2
  <1> QED
    BY <1>3, SmallNumbers

\* What becomes stale is a table.
LEMMA StaleStep == ASSUME TypeInv, NEW tables, Stale(tables) PROVE fresh' \in SUBSET Tables
  BY DEF Stale, TypeInv

\* What is written down as wanted of a configuration.
Configured(p, b) ==
  IF Len(ParamBytes[p]) = 1 THEN [wanted EXCEPT !.param[p] = Signed(<<b>>)] ELSE wanted

\* Configure sends one order, with the low byte of the value, and changes what
\* the user wants in the same way.
LEMMA ConfigureStep ==
  ASSUME ReportsAssumption, TypeInv, NEW p \in Params, NEW v \in UserValues, Configure(p, v)
  PROVE  /\ TypeInv' /\ said' = said
         /\ \E b \in Byte : /\ orders' = Append(orders, ConfigureCommand(p, b))
                            /\ wanted' = Configured(p, b)
         /\ gets' = [gets EXCEPT ![p] = 0]
  <1> DEFINE b == v % 256
  <1>1. b \in Byte
    BY DEF ReportsAssumption, Byte
  <1>2. ConfigureCommand(p, b) \in Orders /\ 5 \in Byte
    BY <1>1, SmallNumbers DEF Orders, Configurations
  <1>3. outbox' \in Seq(SentFrames) /\ orders' = Append(orders, ConfigureCommand(p, b))
    <2>1. Send(MakeSendData(ConfigureCommand(p, b), 5))
      BY DEF Configure, ConfigureCommand
    <2> HIDE DEF b
    <2> QED
      BY <1>2, <2>1, SendStep
  <1>4. Signed(<<b>>) \in Int
    <2>1. <<b>> \in Seq(Byte) /\ Len(<<b>>) = 1
      BY <1>1
    <2> QED
      BY <2>1, ReadValueIsSigned
  <1>5. wanted' = Configured(p, b)
    BY DEF Configure, Configured
  <1>6. wanted' \in [param : [Params -> Int], bound : BoundStates]
    BY <1>4, <1>5, ZenonT(60) DEF TypeInv, Configured
  <1>7. said' = said
    BY DEF said, Configure
  <1>8. Job(CONFIGURATION) /\ Stale({<<"param", p>>})
    BY DEF Configure
  <1>9. ops' \in 0 .. MaxOps /\ fresh' \in SUBSET Tables
    BY <1>8, JobStep, StaleStep, ZenonT(60)
  <1>10. UNCHANGED <<program, air, node, faults, reported>>
    BY DEF Configure
  <1>12. gets' = [gets EXCEPT ![p] = 0] /\ gets' \in Counts
    BY DEF Configure, TypeInv, Counts
  <1>11. TypeInv'
    BY <1>3, <1>6, <1>9, <1>10, <1>12 DEF TypeInv, program, node
  <1> QED
    BY <1>1, <1>3, <1>5, <1>7, <1>11, <1>12

\* A group with a destination more, and with one less.
LEMMA SmallFacts ==
  ASSUME ReportsAssumption, NEW D \in Small, NEW d \in Destinations
  PROVE  Bound(D, d) \in Small /\ D \ {d} \in Small
  <1>1. D \in SUBSET Destinations /\ Cardinality(D) <= MaxNodes /\ IsFiniteSet(D)
    <2>1. D \in SUBSET Destinations /\ Cardinality(D) <= MaxNodes
      BY DEF Small
    <2> QED
      BY <2>1, DestinationFacts, FS_Subset
  <1>2. Bound(D, d) \in Small
    BY <1>1 DEF Bound, Small
  <1> DEFINE E == D \ {d}
  <1>3. E \in SUBSET D
    OBVIOUS
  <1>4. IsFiniteSet(E) /\ Cardinality(E) <= Cardinality(D)
    BY <1>1, <1>3, FS_Subset
  <1>5. Cardinality(E) \in Nat /\ Cardinality(D) \in Nat /\ MaxNodes \in Nat
    BY <1>1, <1>4, FS_CardinalityType, AssumptionFacts
  <1>6. Cardinality(E) <= MaxNodes
    BY <1>1, <1>4, <1>5
  <1>7. E \in Small
    BY <1>1, <1>3, <1>6 DEF Small
  <1> QED
    BY <1>2, <1>7

GroupTables(g) == {<<"assoc", g>>, <<"mcAssoc", g>>}

\* The frames to bind and to unbind are built alike.
LEMMA SetFrameIs ==
  ASSUME NEW id, NEW g, NEW d
  PROVE  SetFrame(id, g, d) = MakeSendData(SetCommand(id, g, d), IF d[2] = 0 THEN 5 ELSE 6)
  BY DEF SetFrame, SetCommand

\* Bind sends one order, and the user wants the destination in the group.
LEMMA BindStep ==
  ASSUME ReportsAssumption, TypeInv, NEW g \in Groups, NEW d \in Destinations, Bind(g, d)
  PROVE  /\ TypeInv' /\ said' = said
         /\ gets' = gets
         /\ orders' = Append(orders, SetCommand(1, g, d))
         /\ wanted' = [wanted EXCEPT !.bound[g] = Bound(@, d)]
  <1> DEFINE o == SetCommand(1, g, d)
             cb == IF d[2] = 0 THEN 5 ELSE 6
  <1>1. o \in Orders /\ cb \in Byte
    BY SmallNumbers DEF Orders, Changes, SetIds
  <1>2. Send(MakeSendData(o, cb))
    BY SetFrameIs DEF Bind
  <1> HIDE DEF o, cb
  <1>3. outbox' \in Seq(SentFrames) /\ orders' = Append(orders, o)
    BY <1>1, <1>2, SendStep
  <1>4. wanted' = [wanted EXCEPT !.bound[g] = Bound(@, d)]
    BY DEF Bind
  <1>5. Bound(wanted.bound[g], d) \in Small
    BY SmallFacts, ZenonT(60) DEF TypeInv, BoundStates
  <1>6. wanted' \in [param : [Params -> Int], bound : BoundStates]
    BY <1>4, <1>5, ZenonT(60) DEF TypeInv, BoundStates
  <1>7. said' = said
    BY DEF said, Bind
  <1>8. Job(ClassOf(d)) /\ Stale(GroupTables(g))
    BY DEF Bind, GroupTables
  <1>9. ops' \in 0 .. MaxOps /\ fresh' \in SUBSET Tables
    <2>1. ops' \in 0 .. MaxOps
      BY <1>8, JobStep, ZenonT(60)
    <2>2. fresh' \in SUBSET Tables
      BY <1>8, StaleStep
    <2> QED
      BY <2>1, <2>2
  <1>10. UNCHANGED <<program, air, node, faults, reported, gets>>
    BY DEF Bind
  <1>11. TypeInv'
    BY <1>3, <1>6, <1>9, <1>10 DEF TypeInv, program, node
  <1> QED
    BY <1>3, <1>4, <1>7, <1>10, <1>11 DEF o

\* Unbind sends one order, and the user wants the destination no more.
LEMMA UnbindStep ==
  ASSUME ReportsAssumption, TypeInv, NEW g \in Groups, NEW d \in Destinations, Unbind(g, d)
  PROVE  /\ TypeInv' /\ said' = said
         /\ gets' = gets
         /\ orders' = Append(orders, SetCommand(4, g, d))
         /\ wanted' = [wanted EXCEPT !.bound[g] = @ \ {d}]
  <1> DEFINE o == SetCommand(4, g, d)
             cb == IF d[2] = 0 THEN 5 ELSE 6
  <1>1. o \in Orders /\ cb \in Byte
    BY SmallNumbers DEF Orders, Changes, SetIds
  <1>2. Send(MakeSendData(o, cb))
    BY SetFrameIs DEF Unbind
  <1> HIDE DEF o, cb
  <1>3. outbox' \in Seq(SentFrames) /\ orders' = Append(orders, o)
    BY <1>1, <1>2, SendStep
  <1>4. wanted' = [wanted EXCEPT !.bound[g] = @ \ {d}]
    BY DEF Unbind
  <1>5. wanted.bound[g] \ {d} \in Small
    BY SmallFacts, ZenonT(60) DEF TypeInv, BoundStates
  <1>6. wanted' \in [param : [Params -> Int], bound : BoundStates]
    BY <1>4, <1>5, ZenonT(60) DEF TypeInv, BoundStates
  <1>7. said' = said
    BY DEF said, Unbind
  <1>8. Job(ClassOf(d)) /\ Stale(GroupTables(g))
    BY DEF Unbind, GroupTables
  <1>9. ops' \in 0 .. MaxOps /\ fresh' \in SUBSET Tables
    <2>1. ops' \in 0 .. MaxOps
      BY <1>8, JobStep
    <2>2. fresh' \in SUBSET Tables
      BY <1>8, StaleStep
    <2> QED
      BY <2>1, <2>2
  <1>10. UNCHANGED <<program, air, node, faults, reported, gets>>
    BY DEF Unbind
  <1>11. TypeInv'
    BY <1>3, <1>6, <1>9, <1>10 DEF TypeInv, program, node
  <1> QED
    BY <1>3, <1>4, <1>7, <1>10, <1>11 DEF o

\* RequestBattery sends one question.
LEMMA RequestBatteryStep ==
  ASSUME ReportsAssumption, TypeInv, RequestBattery
  PROVE  TypeInv' /\ said' = said /\ orders' = Append(orders, BatteryCommand)
  <1>1. Job(BATTERY) /\ Send(MakeSendData(BatteryCommand, 3))
    BY DEF RequestBattery, BatteryCommand
  <1>2. ops' \in 0 .. MaxOps /\ BATTERY \in Classes
    BY <1>1, JobStep, ZenonT(60)
  <1>3. BatteryCommand \in Orders /\ 3 \in Byte
    BY <1>2, SmallNumbers DEF Orders, BatteryGets
  <1>4. outbox' \in Seq(SentFrames) /\ orders' = Append(orders, BatteryCommand)
    BY <1>1, <1>3, SendStep
  <1>5. UNCHANGED <<program, air, node, faults, history>>
    BY DEF RequestBattery
  <1>6. TypeInv'
    BY <1>2, <1>4, <1>5 DEF TypeInv, program, node, history
  <1>7. said' = said
    BY <1>5 DEF said
  <1> QED
    BY <1>4, <1>6, <1>7

\* A table is asked for.
Asks(t) ==
  \/ t[1] = "param"   /\ ConfigurationGet(t[2])
  \/ t[1] = "assoc"   /\ AssociationGet(t[2])
  \/ t[1] = "mcAssoc" /\ MultiChannelAssociationGet(t[2])

\* What it does to the table.
Forgotten(t) ==
  /\ config' = IF t[1] = "param"
               THEN [config EXCEPT ![t[2]] = [valid |-> FALSE, value |-> 0]] ELSE config
  /\ assoc' = IF t[1] = "assoc" THEN [assoc EXCEPT ![t[2]].hasLastReport = FALSE] ELSE assoc
  /\ mcAssoc' = IF t[1] = "mcAssoc" THEN [mcAssoc EXCEPT ![t[2]].hasLastReport = FALSE] ELSE mcAssoc

\* What it does to the number of times it was asked for.
CountedBy(t, n) == IF t[1] = "param" THEN [n EXCEPT ![t[2]] = @ + 1] ELSE n

\* Counts are counts when one of them grows.
LEMMA CountedOnce ==
  ASSUME NEW S, NEW n \in [S -> Nat], NEW x \in S
  PROVE  [n EXCEPT ![x] = @ + 1] \in [S -> Nat]
  OBVIOUS

\* Counting the reports of a table leaves counts.
LEMMA CountedByFacts ==
  ASSUME ReportsAssumption, NEW t \in Tables, NEW n \in Counts
  PROVE  CountedBy(t, n) \in Counts
  <1>1. CASE t[1] = "param"
    <2>1. t[2] \in Params
      BY <1>1, TableFacts, ZenonT(60)
    <2>2. CountedBy(t, n) = [n EXCEPT ![t[2]] = @ + 1]
      BY <1>1 DEF CountedBy
    <2>3. [n EXCEPT ![t[2]] = @ + 1] \in Counts
      BY <2>1, CountedOnce, ZenonT(60) DEF Counts
    <2> QED
      BY <2>2, <2>3
  <1>2. CASE t[1] # "param"
    BY <1>2 DEF CountedBy
  <1> QED
    BY <1>1, <1>2

\* A group whose last report is forgotten is a group still.
LEMMA ForgottenGroup ==
  ASSUME NEW S, NEW x \in [hasLastReport : BOOLEAN, members : S]
  PROVE  [x EXCEPT !.hasLastReport = FALSE] \in [hasLastReport : BOOLEAN, members : S]
  OBVIOUS

\* The worker asks for one table, when nothing else is awaited, and forgets
\* that it was read.
LEMMA AsksStep ==
  ASSUME ReportsAssumption, TypeInv, NEW t \in Tables, Asks(t)
  PROVE  /\ TypeInv' /\ said' = said
         /\ orders' = Append(orders, Question(t))
         /\ awaiting = None /\ awaiting' = t /\ fresh' = fresh \ {t} /\ Forgotten(t)
         /\ gets' = CountedBy(t, gets)
         /\ UNCHANGED <<values, air, node, faults, reported, wanted>>
  <1>0. /\ \/ t[1] = "param" /\ t[2] \in Params /\ t = <<"param", t[2]>>
           \/ t[1] = "assoc" /\ t[2] \in Groups /\ t = <<"assoc", t[2]>>
           \/ t[1] = "mcAssoc" /\ t[2] \in Groups /\ t = <<"mcAssoc", t[2]>>
    BY TableFacts
  <1>1. Job(TableClass(t)) /\ \E cb \in Byte : Send(MakeSendData(Question(t), cb))
    BY <1>0, SmallNumbers, ZenonT(60) DEF Asks, TableClass, Question, ConfigurationGet, AssociationGet,
       MultiChannelAssociationGet
  <1>2. ops' \in 0 .. MaxOps /\ TableClass(t) \in Classes /\ awaiting = None
    BY <1>1, JobStep, ZenonT(60)
  <1>3. Question(t) \in Orders
    BY <1>2 DEF Orders, Questions
  <1>4. outbox' \in Seq(SentFrames) /\ orders' = Append(orders, Question(t))
    BY <1>1, <1>3, SendStep
  <1>5. awaiting' = t /\ Stale({t}) /\ UNCHANGED <<values, air, node, faults, reported, wanted>>
    BY <1>0, ZenonT(60) DEF Asks, ConfigurationGet, AssociationGet, MultiChannelAssociationGet
  <1>6. Forgotten(t)
    BY <1>0 DEF Asks, Forgotten, ConfigurationGet, AssociationGet, MultiChannelAssociationGet
  <1>7. fresh' = fresh \ {t}
    BY <1>5 DEF Stale
  <1>8. /\ config' \in [Params -> [valid : BOOLEAN, value : Int]]
        /\ assoc' \in [Groups -> AssocGroups] /\ mcAssoc' \in [Groups -> McGroups]
    <2>1. config' \in [Params -> [valid : BOOLEAN, value : Int]]
      BY <1>0, <1>6 DEF Forgotten, TypeInv
    <2>2. assoc' \in [Groups -> AssocGroups]
      <3>1. CASE t[1] = "assoc"
        <4> DEFINE g == t[2]
                   s == [assoc[g] EXCEPT !.hasLastReport = FALSE]
        <4>1. g \in Groups /\ assoc \in [Groups -> AssocGroups]
          BY <1>0, <3>1 DEF TypeInv
        <4>2. s \in AssocGroups
          <5> DEFINE x == assoc[g]
          <5>1. x \in AssocGroups
            BY <4>1
          <5> HIDE DEF x
          <5>2. [x EXCEPT !.hasLastReport = FALSE] \in AssocGroups
            BY <5>1, ForgottenGroup, ZenonT(60) DEF AssocGroups
          <5> QED
            BY <5>2 DEF x
        <4>3. assoc' = [assoc EXCEPT ![g] = s]
          BY <1>6, <3>1 DEF Forgotten
        <4> HIDE DEF g, s
        <4> QED
          BY <4>1, <4>2, <4>3
      <3>2. CASE t[1] # "assoc"
        BY <1>6, <3>2 DEF Forgotten, TypeInv
      <3> QED
        BY <3>1, <3>2
    <2>3. mcAssoc' \in [Groups -> McGroups]
      <3>1. CASE t[1] = "mcAssoc"
        <4> DEFINE g == t[2]
                   s == [mcAssoc[g] EXCEPT !.hasLastReport = FALSE]
        <4>1. g \in Groups /\ mcAssoc \in [Groups -> McGroups]
          BY <1>0, <3>1 DEF TypeInv
        <4>2. s \in McGroups
          <5> DEFINE x == mcAssoc[g]
          <5>1. x \in McGroups
            BY <4>1
          <5> HIDE DEF x
          <5>2. [x EXCEPT !.hasLastReport = FALSE] \in McGroups
            BY <5>1, ForgottenGroup, ZenonT(60) DEF McGroups
          <5> QED
            BY <5>2 DEF x
        <4>3. mcAssoc' = [mcAssoc EXCEPT ![g] = s]
          BY <1>6, <3>1 DEF Forgotten
        <4> HIDE DEF g, s
        <4> QED
          BY <4>1, <4>2, <4>3
      <3>2. CASE t[1] # "mcAssoc"
        BY <1>6, <3>2 DEF Forgotten, TypeInv
      <3> QED
        BY <3>1, <3>2
    <2> QED
      BY <2>1, <2>2, <2>3
  <1>8a. gets' = CountedBy(t, gets) /\ gets' \in Counts
    <2>1. gets' = CountedBy(t, gets)
      BY <1>0, ZenonT(60) DEF Asks, CountedBy, ConfigurationGet, AssociationGet, MultiChannelAssociationGet
    <2>2. gets \in Counts
      BY DEF TypeInv
    <2> QED
      BY <2>1, <2>2, CountedByFacts
  <1>9. TypeInv'
    BY <1>2, <1>4, <1>5, <1>7, <1>8, <1>8a DEF TypeInv, node
  <1>10. said' = said
    BY <1>5 DEF said
  <1> QED
    BY <1>2, <1>4, <1>5, <1>6, <1>7, <1>8a, <1>9, <1>10

\* What a saying is, its class and id tell.
LEMMA SayingKinds ==
  ASSUME NEW r \in Sayings
  PROVE  /\ r.cc \in Byte /\ r.id \in Byte /\ r.ep \in Byte /\ r.params \in Seq(Byte)
         /\ IsValue(r) \/ IsGet(r) \/ IsWake(r) \/ IsTable(r)
         /\ r.cc \in ValueClasses /\ r.id \in ValueIds(r.cc) => IsValue(r)
         /\ r.cc \in {CONFIGURATION, ASSOCIATION, MULTI_CHANNEL_ASSOCIATION} => IsTable(r)
         /\ IsTable(r) => /\ ~IsValue(r) /\ ~IsGet(r) /\ ~IsWake(r)
                          /\ \E t \in Tables, c \in Seq(Byte) :
                               IsContent(t, c) /\ r = TableReport(t, c)
         /\ IsValue(r) => ~IsGet(r) /\ ~IsWake(r)
         /\ IsGet(r) => ~IsWake(r)
  <1>1. /\ r.cc \in Byte /\ r.id \in Byte /\ r.ep \in Byte /\ r.params \in Seq(Byte)
        /\ \/ IsValue(r) \/ IsGet(r) \/ IsWake(r)
           \/ IsTable(r) /\ \E t \in Tables, c \in Seq(Byte) :
                              IsContent(t, c) /\ r = TableReport(t, c)
    BY DEF Sayings
  <1>2. IsTable(r) => ~IsValue(r) /\ ~IsGet(r) /\ ~IsWake(r)
    BY ValueClassFacts DEF IsTable, IsValue, IsGet, IsWake, BASIC, WAKE_UP, CONFIGURATION,
       ASSOCIATION, MULTI_CHANNEL_ASSOCIATION
  <1>3. IsValue(r) => ~IsGet(r) /\ ~IsWake(r)
    <2>1. BASIC \in ValueClasses /\ ValueIds(BASIC) = {1, 3}
      BY ValueClassFacts DEF ValueClasses
    <2> QED
      BY <2>1, ValueClassFacts DEF IsValue, IsGet, IsWake
  <1>4. IsGet(r) => ~IsWake(r)
    BY DEF IsGet, IsWake, BASIC, WAKE_UP
  <1>5. r.cc \in ValueClasses /\ r.id \in ValueIds(r.cc) => IsValue(r)
    <2>1. BASIC \in ValueClasses /\ ValueIds(BASIC) = {1, 3}
      BY ValueClassFacts DEF ValueClasses
    <2>2. r.cc \in ValueClasses /\ r.id \in ValueIds(r.cc) => ~IsGet(r)
      BY <2>1 DEF IsGet
    <2>3. r.cc \in ValueClasses => ~IsWake(r) /\ ~IsTable(r)
      BY ValueClassFacts DEF IsWake, IsTable
    <2> QED
      BY <1>1, <2>2, <2>3
  <1>6. r.cc \in {CONFIGURATION, ASSOCIATION, MULTI_CHANNEL_ASSOCIATION} => IsTable(r)
    <2>1. r.cc \in {CONFIGURATION, ASSOCIATION, MULTI_CHANNEL_ASSOCIATION} =>
            ~IsValue(r) /\ ~IsGet(r) /\ ~IsWake(r)
      BY ValueClassFacts DEF IsValue, IsGet, IsWake, BASIC, WAKE_UP, CONFIGURATION,
         ASSOCIATION, MULTI_CHANNEL_ASSOCIATION
    <2> QED
      BY <1>1, <2>1
  <1> QED
    BY <1>1, <1>2, <1>3, <1>4, <1>5, <1>6

\* What is taken from the line is the first saying.
LEMMA TakenFacts ==
  ASSUME ReportsAssumption, TypeInv, Received # None, air' = Tail(air)
  PROVE  /\ air' \in Seq(AirFrames) /\ said' = Tail(said) /\ said # <<>> /\ said \in Seq(Sayings)
         /\ said[1] \in Sayings /\ Received = said[1]
         /\ said[1].cc \in Classes /\ ~IsWake(said[1])
  <1>1. air # <<>> /\ Received = Said(Head(air)) /\ Received.cc \in Classes /\ ~IsWake(Received)
    BY ReceivedFacts
  <1>2. /\ air' \in Seq(AirFrames) /\ said' = Tail(said) /\ said # <<>>
        /\ said \in Seq(Sayings) /\ said[1] \in Sayings /\ said[1] = Said(Head(air))
    BY <1>1, TakeStep
  <1> QED
    BY <1>1, <1>2

\* A sequence cut at its length is itself.
LEMMA WholeParams ==
  ASSUME NEW q \in Seq(Byte), NEW n \in Nat, Len(q) = n
  PROVE  SubSeq(q, 1, n) = q
  BY DEF Byte

\* The handler of a value stores it and sends nothing.
LEMMA ValueStep ==
  ASSUME ReportsAssumption, TypeInv, HandleValueReport
  PROVE  /\ TypeInv' /\ said' = Tail(said) /\ said # <<>> /\ said \in Seq(Sayings)
         /\ orders' = orders /\ IsValue(said[1])
         /\ values' = [values EXCEPT ![said[1].cc] = said[1].params]
         /\ UNCHANGED <<config, assoc, mcAssoc, awaiting, outbox, node, history>>
  <1> DEFINE r == said[1]
  <1>1. /\ TakenAsValue(Received)
        /\ values' = [values EXCEPT ![Received.cc] = SubSeq(Received.params, 1, ValueSize(Received.cc))]
        /\ air' = Tail(air)
        /\ UNCHANGED <<config, assoc, mcAssoc, awaiting, outbox, node, ops, faults, history>>
    BY DEF HandleValueReport
  <1>2. /\ Received # None /\ Received.cc \in ValueClasses
        /\ Received.id \in ValueIds(Received.cc)
    BY <1>1 DEF TakenAsValue, Takes
  <1>3. /\ air' \in Seq(AirFrames) /\ said' = Tail(said) /\ said # <<>> /\ said \in Seq(Sayings)
        /\ r \in Sayings /\ Received = r
    BY <1>1, <1>2, TakenFacts
  <1>4. r.cc \in ValueClasses /\ r.id \in ValueIds(r.cc)
    BY <1>2, <1>3
  <1> HIDE DEF r
  <1>5. IsValue(r) /\ r.params \in Seq(Byte)
    BY <1>3, <1>4, SayingKinds
  <1>6. Len(r.params) = ValueSize(r.cc)
    BY <1>5 DEF IsValue
  <1>7. SubSeq(r.params, 1, ValueSize(r.cc)) = r.params
    <2>1. Len(r.params) \in Nat
      BY <1>5
    <2> QED
      BY <1>5, <1>6, <2>1, WholeParams
  <1>8. values' = [values EXCEPT ![r.cc] = r.params]
    BY <1>1, <1>3, <1>7
  <1>9. values' \in ValueStates
    <2>1. values \in [ValueClasses -> Seq(Byte)] /\ \A c \in ValueClasses : Len(values[c]) \in {0, ValueSize(c)}
      BY DEF TypeInv, ValueStates
    <2>2. values' \in [ValueClasses -> Seq(Byte)]
      BY <1>4, <1>5, <1>8, <2>1
    <2>3. \A c \in ValueClasses : Len(values'[c]) \in {0, ValueSize(c)}
      BY <1>4, <1>6, <1>8, <2>1
    <2> QED
      BY <2>2, <2>3 DEF ValueStates
  <1>10. TypeInv'
    BY <1>1, <1>3, <1>9 DEF TypeInv, node, history
  <1>11. orders' = orders
    BY <1>1 DEF orders
  <1> QED
    BY <1>1, <1>3, <1>5, <1>8, <1>10, <1>11 DEF r

BasicOf(v) == IF v[BASIC] = <<>> THEN 0 ELSE v[BASIC][1]

\* The value of BASIC, or 0 for none, is a byte.
LEMMA BasicIsByte == ASSUME NEW v \in ValueStates PROVE BasicOf(v) \in Byte
  <1>1. v[BASIC] \in Seq(Byte)
    BY DEF ValueStates, ValueClasses
  <1> QED
    BY <1>1, SmallNumbers DEF BasicOf

\* The handler of a question sends one answer, with the value the program has,
\* to the endpoint that asked.
LEMMA GetStep ==
  ASSUME ReportsAssumption, TypeInv, HandleBasicGet
  PROVE  /\ TypeInv' /\ said' = Tail(said) /\ said # <<>> /\ said \in Seq(Sayings)
         /\ IsGet(said[1]) /\ said[1].ep \in Byte /\ BasicOf(values) \in Byte
         /\ orders' = Append(orders, AnswerCommand(said[1].ep, BasicOf(values)))
         /\ UNCHANGED <<program, node, history>>
  <1> DEFINE r == said[1]
             v == BasicOf(values)
  <1>1. /\ Takes(Received, BASIC, {2}, 0) /\ Send(BasicReport(Received.ep, v))
        /\ air' = Tail(air) /\ UNCHANGED <<program, node, ops, faults, history>>
    BY DEF HandleBasicGet, BasicOf
  <1>2. Received # None /\ Received.cc = BASIC /\ Received.id = 2
    BY <1>1 DEF Takes
  <1>3. /\ air' \in Seq(AirFrames) /\ said' = Tail(said) /\ said # <<>> /\ said \in Seq(Sayings)
        /\ r \in Sayings /\ Received = r
    BY <1>1, <1>2, TakenFacts
  <1>4. IsGet(r)
    BY <1>2, <1>3 DEF IsGet
  <1> HIDE DEF r
  <1>5. r.ep \in Byte
    BY <1>3, SayingKinds
  <1>6. v \in Byte
    BY BasicIsByte DEF TypeInv
  <1>7. AnswerCommand(r.ep, v) \in Orders
    BY <1>5, <1>6 DEF Orders, Answers
  <1>8. \E cb \in Byte : Send(MakeSendData(AnswerCommand(r.ep, v), cb))
    BY <1>1, <1>3, SmallNumbers DEF BasicReport, AnswerCommand
  <1> HIDE DEF v
  <1>9. outbox' \in Seq(SentFrames) /\ orders' = Append(orders, AnswerCommand(r.ep, v))
    BY <1>7, <1>8, SendStep
  <1>10. TypeInv'
    BY <1>1, <1>3, <1>9 DEF TypeInv, program, node, history
  <1> QED
    BY <1>1, <1>3, <1>4, <1>5, <1>6, <1>9, <1>10 DEF r, v

\* What the report of a table with content c leaves in it.
Stored(t, c) ==
  /\ config' = IF t[1] = "param"
               THEN [config EXCEPT ![t[2]] = [valid |-> TRUE, value |-> Signed(c)]] ELSE config
  /\ assoc' = IF t[1] = "assoc"
              THEN [assoc EXCEPT ![t[2]] = [hasLastReport |-> TRUE,
                                            members |-> Cleared(@) \cup ToSet(c)]]
              ELSE assoc
  /\ mcAssoc' = IF t[1] = "mcAssoc"
                THEN [mcAssoc EXCEPT ![t[2]] = [hasLastReport |-> TRUE,
                                                members |-> Put(Cleared(@), Entries(MaxNodes, c))]]
                ELSE mcAssoc

\* A saying about a table, and what its handler reads of it.
IsReportOf(r, t, c) ==
  /\ t \in Tables /\ c \in Seq(Byte) /\ IsContent(t, c) /\ r = TableReport(t, c)
  /\ r.cc = TableClass(t) /\ r.params[1] = t[2]
  /\ t[1] = "param" => /\ r.params[2] = Len(c)
                       /\ SubSeq(r.params, 3, MinOf(2 + Len(c), Len(r.params))) = c
                       /\ Len(c) \in {1, 2, 4}
  /\ t[1] # "param" => /\ r.params[2] = MaxNodes /\ r.params[3] = 0
                       /\ SubSeq(r.params, 4, Len(r.params)) = c

\* The report of a table is read as it is written.
LEMMA ReportOfTable ==
  ASSUME ReportsAssumption, NEW t \in Tables, NEW c \in Seq(Byte), IsContent(t, c)
  PROVE  IsReportOf(TableReport(t, c), t, c)
  <1> DEFINE q == TableParams(t, c)
             r == TableReport(t, c)
  <1>2. /\ q \in Seq(Byte) /\ Len(q) = (IF t[1] = "param" THEN 2 ELSE 3) + Len(c) /\ Len(q) >= 3
        /\ q[1] = t[2]
        /\ q[2] = IF t[1] = "param" THEN Len(c) ELSE MaxNodes
        /\ t[1] # "param" => q[3] = 0
        /\ SubSeq(q, (IF t[1] = "param" THEN 2 ELSE 3) + 1,
                  (IF t[1] = "param" THEN 2 ELSE 3) + Len(c)) = c
    BY TableParamsFacts
  <1>3. r.cc = TableClass(t) /\ r.params = q
    BY DEF TableReport
  <1>4. Len(c) \in Nat
    OBVIOUS
  <1> HIDE DEF q
  <1>5. ASSUME t[1] = "param"
        PROVE  /\ q[2] = Len(c) /\ SubSeq(q, 3, MinOf(2 + Len(c), Len(q))) = c
               /\ Len(c) \in {1, 2, 4}
    <2>1. q[2] = Len(c) /\ Len(q) = 2 + Len(c) /\ SubSeq(q, 2 + 1, 2 + Len(c)) = c
      BY <1>2, <1>5
    <2>2. MinOf(2 + Len(c), Len(q)) = 2 + Len(c)
      BY <2>1 DEF MinOf
    <2>3. Len(c) = Len(ParamBytes[t[2]]) /\ t[2] \in Params
      BY <1>5, TableFacts, ZenonT(60) DEF IsContent
    <2>4. Len(c) \in {1, 2, 4}
      BY <2>3 DEF ReportsAssumption
    <2> QED
      BY <2>1, <2>2, <2>4
  <1>6. ASSUME t[1] # "param"
        PROVE  q[2] = MaxNodes /\ q[3] = 0 /\ SubSeq(q, 4, Len(q)) = c
    <2>1. q[2] = MaxNodes /\ q[3] = 0 /\ Len(q) = 3 + Len(c) /\ SubSeq(q, 3 + 1, 3 + Len(c)) = c
      BY <1>2, <1>6
    <2> QED
      BY <2>1
  <1>7. r = TableReport(t, c)
    BY SMTT(60)
  <1> HIDE DEF r
  <1>8. IsReportOf(r, t, c)
    BY <1>2, <1>3, <1>5, <1>6, <1>7 DEF IsReportOf
  <1> QED
    BY <1>7, <1>8

\* Every report of a table on the line is the report of one table with one
\* content.
LEMMA ReportOfFacts ==
  ASSUME ReportsAssumption, NEW r \in Sayings, IsTable(r)
  PROVE  \E t, c : IsReportOf(r, t, c) /\ r.id = TableId(t) /\ Len(r.params) >= 3
  <1>1. PICK t \in Tables, c \in Seq(Byte) : IsContent(t, c) /\ r = TableReport(t, c)
    BY SayingKinds
  <1>2. IsReportOf(r, t, c)
    BY <1>1, ReportOfTable
  <1>3. Len(TableParams(t, c)) >= 3
    BY <1>1, TableParamsFacts
  <1>4. r.id = TableId(t) /\ r.params = TableParams(t, c)
    BY <1>1 DEF TableReport
  <1> QED
    BY <1>2, <1>3, <1>4

\* What is read of a list is a set of members.
LEMMA MembersRead ==
  ASSUME ReportsAssumption, NEW t \in Tables, NEW c, IsContent(t, c)
  PROVE  /\ t[1] = "assoc" => ToSet(c) \subseteq Targets
         /\ t[1] = "mcAssoc" => \A m \in SUBSET Destinations :
                                  Put(m, Entries(MaxNodes, c)) \subseteq Destinations
  <1>1. ASSUME t[1] = "assoc" PROVE ToSet(c) \subseteq Targets
    <2>1. PICK D \in Small : (\A d \in D : d[2] = 0) /\ c = ListOf(D)
      BY <1>1 DEF IsContent
    <2>2. D \in SUBSET Destinations
      BY DEF Small
    <2>3. ToSet(ListOf(D)) = {d[1] : d \in D}
      BY <2>1, <2>2, ListOfPlain
    <2>4. \A d \in D : d[1] \in Targets
      BY <2>2, DestinationFacts
    <2> QED
      BY <2>1, <2>3, <2>4, SMTT(60)
  <1>2. ASSUME t[1] = "mcAssoc", NEW m \in SUBSET Destinations
        PROVE  Put(m, Entries(MaxNodes, c)) \subseteq Destinations
    <2>1. PICK D \in Small : c = ListOf(D)
      BY <1>2 DEF IsContent
    <2>2. D \in SUBSET Destinations /\ Cardinality(D) <= MaxNodes
      BY DEF Small
    <2> DEFINE entries == Entries(MaxNodes, c)
    <2>3. \A i \in DOMAIN entries : entries[i] \in D
      <3>1. \A i \in DOMAIN Entries(MaxNodes, ListOf(D)) : Entries(MaxNodes, ListOf(D))[i] \in D
        BY <2>2, EntriesOfList
      <3> QED
        BY <2>1, <3>1
    <2> HIDE DEF entries
    <2>4. Put(m, entries) \subseteq Destinations
      BY <2>2, <2>3 DEF Put
    <2> QED
      BY <2>4 DEF entries
  <1> QED
    BY <1>1, <1>2

\* What a report leaves in the tables has their types.
LEMMA StoredType ==
  ASSUME ReportsAssumption, TypeInv, NEW t \in Tables, NEW c \in Seq(Byte), IsContent(t, c),
         t[1] = "param" => Len(c) \in {1, 2, 4}, Stored(t, c)
  PROVE  /\ config' \in [Params -> [valid : BOOLEAN, value : Int]]
         /\ assoc' \in [Groups -> AssocGroups] /\ mcAssoc' \in [Groups -> McGroups]
  <1>0. /\ config \in [Params -> [valid : BOOLEAN, value : Int]]
        /\ assoc \in [Groups -> AssocGroups] /\ mcAssoc \in [Groups -> McGroups]
    BY DEF TypeInv
  <1>1. config' \in [Params -> [valid : BOOLEAN, value : Int]]
    <2>1. CASE t[1] = "param"
      <3> DEFINE e == [valid |-> TRUE, value |-> Signed(c)]
                 p == t[2]
      <3>1. Signed(c) \in Int
        BY <2>1, ReadValueIsSigned
      <3>2. e \in [valid : BOOLEAN, value : Int]
        BY <3>1
      <3>3. p \in Params
        BY <2>1, TableFacts, ZenonT(60)
      <3>4. config' = [config EXCEPT ![p] = e]
        BY <2>1 DEF Stored
      <3> HIDE DEF e, p
      <3> QED
        BY <1>0, <3>2, <3>3, <3>4
    <2>2. CASE t[1] # "param"
      BY <1>0, <2>2 DEF Stored
    <2> QED
      BY <2>1, <2>2
  <1>2. assoc' \in [Groups -> AssocGroups]
    <2>1. CASE t[1] = "assoc"
      <3> DEFINE g == t[2]
                 m == Cleared(assoc[g]) \cup ToSet(c)
                 e == [hasLastReport |-> TRUE, members |-> m]
      <3>1. g \in Groups
        BY <2>1, TableFacts
      <3>2. ToSet(c) \subseteq Targets
        BY <2>1, MembersRead
      <3>3. Cleared(assoc[g]) \subseteq Targets
        BY <1>0, <3>1, ZenonT(60) DEF AssocGroups, Cleared
      <3>4. e \in AssocGroups
        BY <3>2, <3>3 DEF AssocGroups
      <3>5. assoc' = [assoc EXCEPT ![g] = e]
        BY <2>1 DEF Stored
      <3> HIDE DEF g, e
      <3> QED
        BY <1>0, <3>1, <3>4, <3>5
    <2>2. CASE t[1] # "assoc"
      BY <1>0, <2>2 DEF Stored
    <2> QED
      BY <2>1, <2>2
  <1>3. mcAssoc' \in [Groups -> McGroups]
    <2>1. CASE t[1] = "mcAssoc"
      <3> DEFINE g == t[2]
                 m == Put(Cleared(mcAssoc[g]), Entries(MaxNodes, c))
                 e == [hasLastReport |-> TRUE, members |-> m]
      <3>1. g \in Groups
        BY <2>1, TableFacts
      <3>3. Cleared(mcAssoc[g]) \in SUBSET Destinations
        BY <1>0, <3>1, ZenonT(60) DEF McGroups, Cleared
      <3>2. m \subseteq Destinations
        BY <2>1, <3>3, MembersRead
      <3>5. mcAssoc' = [mcAssoc EXCEPT ![g] = e]
        BY <2>1 DEF Stored
      <3> HIDE DEF m
      <3>4. e \in McGroups
        BY <3>2 DEF McGroups
      <3> HIDE DEF g, e
      <3> QED
        BY <1>0, <3>1, <3>4, <3>5
    <2>2. CASE t[1] # "mcAssoc"
      BY <1>0, <2>2 DEF Stored
    <2> QED
      BY <2>1, <2>2
  <1> QED
    BY <1>1, <1>2, <1>3

HandleTableReport ==
  \/ HandleConfigurationReport \/ HandleAssociationReport \/ HandleMultiChannelAssociationReport

\* The handler of a table's report stores it in that table, and wakes the
\* worker if it waits for it.
LEMMA TableStep ==
  ASSUME ReportsAssumption, TypeInv, HandleTableReport
  PROVE  /\ TypeInv' /\ said' = Tail(said) /\ said # <<>> /\ said \in Seq(Sayings)
         /\ orders' = orders /\ IsTable(said[1])
         /\ \E t, c : IsReportOf(said[1], t, c) /\ Stored(t, c) /\ Reported(t)
         /\ UNCHANGED <<values, outbox, node, reported, wanted, gets>>
  <1> DEFINE r == said[1]
  <1>1. /\ Received # None /\ air' = Tail(air)
        /\ Received.cc \in {CONFIGURATION, ASSOCIATION, MULTI_CHANNEL_ASSOCIATION}
        /\ UNCHANGED <<values, outbox, node, ops, faults, reported, wanted, gets>>
    BY DEF HandleTableReport, HandleConfigurationReport, HandleAssociationReport,
       HandleMultiChannelAssociationReport, Takes
  <1>2. /\ air' \in Seq(AirFrames) /\ said' = Tail(said) /\ said # <<>> /\ said \in Seq(Sayings)
        /\ r \in Sayings /\ Received = r
    BY <1>1, TakenFacts
  <1> HIDE DEF r
  <1>3. IsTable(r)
    BY <1>1, <1>2, SayingKinds
  <1>4. PICK t, c : IsReportOf(r, t, c)
    BY <1>2, <1>3, ReportOfFacts
  <1>5. t \in Tables /\ c \in Seq(Byte) /\ IsContent(t, c) /\ r.cc = TableClass(t)
    BY <1>4 DEF IsReportOf
  <1>6. /\ \/ t[1] = "param" /\ t = <<"param", t[2]>>
           \/ t[1] = "assoc" /\ t = <<"assoc", t[2]>>
           \/ t[1] = "mcAssoc" /\ t = <<"mcAssoc", t[2]>>
    BY <1>5, TableFacts, ZenonT(60)
  <1>7. Stored(t, c) /\ Reported(t)
    <2>1. CASE HandleConfigurationReport
      <3>1. r.cc = CONFIGURATION
        BY <1>2, <2>1 DEF HandleConfigurationReport, Takes
      <3>2. t[1] = "param"
        BY <1>5, <1>6, <3>1 DEF TableClass, CONFIGURATION, ASSOCIATION, MULTI_CHANNEL_ASSOCIATION
      <3>3. /\ r.params[1] = t[2] /\ r.params[2] = Len(c)
            /\ SubSeq(r.params, 3, MinOf(2 + Len(c), Len(r.params))) = c
            /\ Len(c) \in {1, 2, 4}
        BY <1>4, <3>2 DEF IsReportOf
      <3>4. ReadValue(c, Len(c)) = Signed(c)
        BY <1>5, <3>3, ReadValueIsSigned
      <3>5. /\ config' = [config EXCEPT ![t[2]] = [valid |-> TRUE, value |-> ReadValue(c, Len(c))]]
            /\ Reported(<<"param", t[2]>>) /\ UNCHANGED <<assoc, mcAssoc>>
        BY <1>2, <2>1, <3>3 DEF HandleConfigurationReport
      <3> QED
        BY <1>6, <3>2, <3>4, <3>5 DEF Stored
    <2>2. CASE HandleAssociationReport
      <3>1. r.cc = ASSOCIATION
        BY <1>2, <2>2 DEF HandleAssociationReport, Takes
      <3>2. t[1] = "assoc"
        BY <1>5, <1>6, <3>1 DEF TableClass, CONFIGURATION, ASSOCIATION, MULTI_CHANNEL_ASSOCIATION
      <3>3. /\ r.params[1] = t[2] /\ r.params[3] = 0 /\ SubSeq(r.params, 4, Len(r.params)) = c
        BY <1>4, <3>2 DEF IsReportOf
      <3>5. /\ assoc' = [assoc EXCEPT ![t[2]] = [hasLastReport |-> TRUE,
                                                 members |-> Cleared(@) \cup ToSet(c)]]
            /\ Reported(<<"assoc", t[2]>>) /\ UNCHANGED <<config, mcAssoc>>
        BY <1>2, <2>2, <3>3 DEF HandleAssociationReport
      <3> QED
        BY <1>6, <3>2, <3>5 DEF Stored
    <2>3. CASE HandleMultiChannelAssociationReport
      <3>1. r.cc = MULTI_CHANNEL_ASSOCIATION
        BY <1>2, <2>3 DEF HandleMultiChannelAssociationReport, Takes
      <3>2. t[1] = "mcAssoc"
        BY <1>5, <1>6, <3>1 DEF TableClass, CONFIGURATION, ASSOCIATION, MULTI_CHANNEL_ASSOCIATION
      <3>3. /\ r.params[1] = t[2] /\ r.params[2] = MaxNodes /\ r.params[3] = 0
            /\ SubSeq(r.params, 4, Len(r.params)) = c
        BY <1>4, <3>2 DEF IsReportOf
      <3>5. /\ mcAssoc' = [mcAssoc EXCEPT ![t[2]] = [hasLastReport |-> TRUE,
                                                 members |-> Put(Cleared(@), Entries(MaxNodes, c))]]
            /\ Reported(<<"mcAssoc", t[2]>>) /\ UNCHANGED <<config, assoc>>
        BY <1>2, <2>3, <3>3 DEF HandleMultiChannelAssociationReport
      <3> QED
        BY <1>6, <3>2, <3>5 DEF Stored
    <2> QED
      BY <2>1, <2>2, <2>3 DEF HandleTableReport
  <1>8. /\ config' \in [Params -> [valid : BOOLEAN, value : Int]]
        /\ assoc' \in [Groups -> AssocGroups] /\ mcAssoc' \in [Groups -> McGroups]
    <2>1. t[1] = "param" => Len(c) \in {1, 2, 4}
      BY <1>4 DEF IsReportOf
    <2> QED
      BY <1>5, <1>7, <2>1, StoredType
  <1>9. awaiting' \in Tables \cup {None} /\ fresh' \in SUBSET Tables
    BY <1>5, <1>7 DEF Reported, TypeInv
  <1>10. TypeInv'
    BY <1>1, <1>2, <1>8, <1>9 DEF TypeInv, node
  <1>11. orders' = orders
    BY <1>1 DEF orders
  <1> QED
    BY <1>1, <1>2, <1>3, <1>4, <1>7, <1>10, <1>11 DEF r

\* A report that is dropped says nothing that is kept.
LEMMA DropStep ==
  ASSUME ReportsAssumption, TypeInv, DropReport
  PROVE  /\ TypeInv' /\ said' = Tail(said) /\ said # <<>> /\ said \in Seq(Sayings)
         /\ orders' = orders /\ ~IsValue(said[1]) /\ ~IsTable(said[1])
         /\ UNCHANGED <<program, outbox, node, history>>
  <1> DEFINE r == said[1]
  <1>1. /\ air # <<>> /\ Decode_Frame(Head(air).bytes) # None /\ ~Handled(Received)
        /\ air' = Tail(air) /\ UNCHANGED <<program, outbox, node, ops, faults, history>>
    BY DEF DropReport
  <1>2. /\ air' \in Seq(AirFrames) /\ said' = Tail(said) /\ said # <<>> /\ said \in Seq(Sayings)
        /\ r \in Sayings /\ r = Said(Head(air))
    BY <1>1, TakeStep
  <1>3. Received = IF ~IsWake(r) /\ r.cc \in Classes THEN r ELSE None
    BY <1>1, <1>2, ReceivedFacts
  <1> HIDE DEF r
  <1>4. r # None
    BY <1>2 DEF Sayings, ReportsAssumption
  <1>5. ASSUME IsValue(r) PROVE FALSE
    <2>1. ~IsWake(r) /\ r.cc \in Classes
      BY <1>2, <1>5, SayingKinds DEF IsValue
    <2>2. Len(r.params) >= ValueSize(r.cc)
      BY <1>5, ValueClassFacts DEF IsValue
    <2>3. TakenAsValue(r)
      BY <1>4, <1>5, <2>2 DEF TakenAsValue, Takes, IsValue
    <2> QED
      BY <1>1, <1>3, <2>1, <2>3 DEF Handled
  <1>6. ASSUME IsTable(r) PROVE FALSE
    <2>1. ~IsWake(r) /\ r.cc \in Classes
      BY <1>2, <1>6, SayingKinds DEF IsTable
    <2>2. PICK t, c : IsReportOf(r, t, c) /\ r.id = TableId(t) /\ Len(r.params) >= 3
      BY <1>2, <1>6, ReportOfFacts
    <2>3. t \in Tables /\ r.cc = TableClass(t)
      BY <2>2 DEF IsReportOf
    <2>4. \/ r.cc = CONFIGURATION /\ r.id = 6
          \/ r.cc \in {ASSOCIATION, MULTI_CHANNEL_ASSOCIATION} /\ r.id = 3
      BY <2>2, <2>3 DEF TableClass, TableId
    <2>5. Handled(r)
      BY <1>4, <2>2, <2>4 DEF Handled, Takes
    <2> QED
      BY <1>1, <1>3, <2>1, <2>5
  <1>7. TypeInv'
    BY <1>1, <1>2 DEF TypeInv, program, node, history
  <1>8. orders' = orders
    BY <1>1 DEF orders
  <1> QED
    BY <1>1, <1>2, <1>5, <1>6, <1>7, <1>8 DEF r

\* Another frame at the head, that says the same.
LEMMA HeadReplaced ==
  ASSUME ReportsAssumption, TypeInv, air # <<>>, NEW g \in AirFrames, Said(g) = Said(Head(air)),
         air' = [air EXCEPT ![1] = g]
  PROVE  air' \in Seq(AirFrames) /\ said' = said
  <1> DEFINE b == [air EXCEPT ![1] = g]
             m == Mapped(SayingOf, b)
  <1>1. air \in Seq(AirFrames) /\ Head(air) = air[1]
    BY DEF TypeInv
  <1>2. b \in Seq(AirFrames) /\ Len(b) = Len(air) /\ \A i \in 1 .. Len(air) : b[i] = IF i = 1 THEN g ELSE air[i]
    BY <1>1
  <1>3. said \in Seq(Sayings) /\ Len(said) = Len(air) /\ \A i \in 1 .. Len(air) : said[i] = Said(air[i])
    BY SequenceTypes
  <1> HIDE DEF b
  <1>4. IsMapped(m, SayingOf, b, Sayings)
    BY <1>2, SayingOfType, MappedFacts, Zenon
  <1>5. m \in Seq(Sayings) /\ Len(m) = Len(air) /\ \A i \in 1 .. Len(air) : m[i] = SayingOf[b[i]]
    BY <1>2, <1>4 DEF IsMapped
  <1> HIDE DEF m
  <1>6. ASSUME NEW i \in 1 .. Len(air) PROVE m[i] = said[i]
    <2>1. b[i] \in AirFrames
      BY <1>2
    <2>2. SayingOf[b[i]] = Said(b[i])
      BY <2>1, SayingOfType
    <2>3. Said(b[i]) = Said(air[i])
      BY <1>1, <1>2
    <2> QED
      BY <1>3, <1>5, <2>2, <2>3
  <1>7. m = said
    BY <1>3, <1>5, <1>6, SeqEqual
  <1>8. said' = Mapped(SayingOf, air')
    BY DEF said
  <1> QED
    BY <1>2, <1>7, <1>8 DEF m, b

\* A frame with a wrong checksum is dropped without a word.
LEMMA RejectStep ==
  ASSUME ReportsAssumption, TypeInv, RejectFrame
  PROVE  TypeInv' /\ said' = said /\ orders' = orders /\ UNCHANGED <<program, outbox, node, history>>
  <1> DEFINE g == FrameWith(Head(air).payload)
             a == <<g>> \o Tail(air)
             b == [air EXCEPT ![1] = g]
  <1>1. /\ air # <<>> /\ air' = a /\ UNCHANGED <<program, outbox, node, ops, faults, history>>
    BY DEF RejectFrame
  <1>2. air \in Seq(AirFrames) /\ Head(air) \in AirFrames
    BY <1>1 DEF TypeInv
  <1>3. g \in AirFrames /\ Said(g) = Said(Head(air))
    BY <1>2, AirFrameFacts DEF IsAirborne
  <1> HIDE DEF g
  <1>4. a = b
    <2>1. Len(air) \in Nat \ {0} /\ Len(Tail(air)) = Len(air) - 1 /\ Tail(air) \in Seq(AirFrames)
          /\ \A i \in 1 .. Len(air) - 1 : Tail(air)[i] = air[i + 1]
      BY <1>1, <1>2
    <2>2. a \in Seq(AirFrames) /\ Len(a) = Len(air)
      BY <1>3, <2>1
    <2>3. b \in Seq(AirFrames) /\ Len(b) = Len(air)
      BY <1>1, <1>2, <1>3
    <2>4. ASSUME NEW i \in 1 .. Len(air) PROVE a[i] = b[i]
      BY <1>2, <1>3, <2>1
    <2> HIDE DEF a, b
    <2> QED
      BY <2>2, <2>3, <2>4, SeqEqual
  <1>5. air' \in Seq(AirFrames) /\ said' = said
    BY <1>1, <1>3, <1>4, HeadReplaced
  <1>6. TypeInv'
    BY <1>1, <1>5 DEF TypeInv, program, node, history
  <1>7. orders' = orders
    BY <1>1 DEF orders
  <1> QED
    BY <1>1, <1>5, <1>6, <1>7

\* A fault leaves the length of a frame alone, and it changes something.
LEMMA DamageFacts ==
  ASSUME ReportsAssumption
  PROVE  (\A k \in DamagedBytes : k >= 3) /\ \A mask \in Masks : mask \in Byte \ {0}
  BY DEF ReportsAssumption

\* A damaged frame says nothing any more, and nothing but it is lost.
LEMMA DamageStep ==
  ASSUME ReportsAssumption, TypeInv, NEW mask \in Masks, Damage(mask)
  PROVE  TypeInv' /\ said' = said /\ orders' = orders /\ UNCHANGED <<program, outbox, node, history>>
  <1>1. /\ faults > 0 /\ air # <<>> /\ Decode_Frame(Head(air).bytes) # None
        /\ faults' = faults - 1
        /\ UNCHANGED <<program, outbox, node, ops, history>>
    BY DEF Damage
  <1>2. PICK k \in DamagedBytes \cap DOMAIN Head(air).bytes :
          air' = [air EXCEPT ![1].bytes[k] = XorByte(@, mask)]
    BY DEF Damage
  <1> DEFINE f == air[1]
             g == [bytes |-> Damaged(f.bytes, k, mask), payload |-> f.payload]
  <1>3. air \in Seq(AirFrames) /\ Head(air) = f /\ f \in AirFrames
    BY <1>1 DEF TypeInv
  <1>4. k >= 3 /\ mask \in Byte \ {0}
    BY DamageFacts
  <1>5. k \in DOMAIN f.bytes /\ Decode_Frame(f.bytes) # None
    BY <1>1, <1>3
  <1>6. g \in AirFrames /\ Said(g) = Said(f)
    <2> DEFINE j == k
    <2>1. f \in AirFrames /\ Decode_Frame(f.bytes) # None /\ j \in DOMAIN f.bytes /\ j >= 3
      BY <1>3, <1>4, <1>5
    <2> HIDE DEF f, g, j
    <2>1a. mask \in Byte \ {0}
      BY <1>4
    <2>2. LET h == [bytes |-> Damaged(f.bytes, j, mask), payload |-> f.payload]
          IN h \in AirFrames /\ Said(h) = Said(f)
      BY <2>1, <2>1a, DamagedFrame, ZenonT(60)
    <2> QED
      BY <2>2 DEF g, j
  <1>7. air' = [air EXCEPT ![1] = g]
    <2>1. [f EXCEPT !.bytes = Damaged(f.bytes, k, mask)] = g
      <3>1. f \in [bytes : Seq(Byte), payload : Seq(Byte)]
        BY <1>3 DEF AirFrames, Frame
      <3> HIDE DEF f
      <3> QED
        BY <3>1
    <2>2. air' = [air EXCEPT ![1] = [f EXCEPT !.bytes = Damaged(f.bytes, k, mask)]]
      BY <1>2 DEF Damaged
    <2> QED
      BY <2>1, <2>2
  <1> HIDE DEF g, f
  <1>8. air' \in Seq(AirFrames) /\ said' = said
    BY <1>1, <1>3, <1>6, <1>7, HeadReplaced
  <1>9. faults' \in 0 .. MaxFaults
    <2>1. MaxFaults \in Nat /\ faults \in 0 .. MaxFaults
      BY DEF ReportsAssumption, TypeInv
    <2> QED
      BY <1>1, <2>1
  <1>10. TypeInv'
    BY <1>1, <1>8, <1>9 DEF TypeInv, program, node, history
  <1>11. orders' = orders
    BY <1>1 DEF orders
  <1> QED
    BY <1>1, <1>8, <1>10, <1>11

-----------------------------------------------------------------------------
(* What the node does with an order.                                       *)

DestOf(o) == IF o[1] = ASSOCIATION THEN <<o[4], 0>> ELSE <<o[5], o[6]>>

\* Its parameters and its groups behind the order o.
ConfiguredBy(o, p) ==
  IF o \in Configurations /\ Len(p[o[3]]) = 1 THEN [p EXCEPT ![o[3]] = <<o[5]>>] ELSE p

BoundBy(o, b) ==
  IF o \notin Changes THEN b
  ELSE [b EXCEPT ![o[3]] = IF o[2] = 1 THEN Bound(@, DestOf(o)) ELSE @ \ {DestOf(o)}]

\* And how often it has reported each parameter.
ToldBy(o, n) ==
  IF o \in Configurations THEN [n EXCEPT ![o[3]] = 0]
  ELSE IF o \in Questions /\ o[1] = CONFIGURATION THEN [n EXCEPT ![o[3]] = @ + 1]
  ELSE n

\* What an order to configure does to the parameters.
LEMMA ConfiguredByFacts ==
  ASSUME ReportsAssumption, NEW q \in ParamStates
  PROVE  /\ \A p \in Params, b \in Byte :
              ConfiguredBy(ConfigureCommand(p, b), q)
                = IF Len(q[p]) = 1 THEN [q EXCEPT ![p] = <<b>>] ELSE q
         /\ \A o \in Orders : ConfiguredBy(o, q) \in ParamStates
         /\ \A o : o \notin Configurations => ConfiguredBy(o, q) = q
  <1>1. ASSUME NEW p \in Params, NEW b \in Byte
        PROVE  /\ ConfiguredBy(ConfigureCommand(p, b), q)
                    = IF Len(q[p]) = 1 THEN [q EXCEPT ![p] = <<b>>] ELSE q
               /\ ConfiguredBy(ConfigureCommand(p, b), q) \in ParamStates
    <2> DEFINE o == ConfigureCommand(p, b)
               c == <<b>>
    <2>1. o \in Configurations /\ o[3] = p /\ o[5] = b
      BY DEF Configurations, ConfigureCommand
    <2>2. c \in Seq(Byte) /\ Len(c) = 1
      OBVIOUS
    <2>3. q \in [Params -> Seq(Byte)] /\ \A r \in Params : Len(q[r]) = Len(ParamBytes[r])
      BY DEF ParamStates
    <2> HIDE DEF o
    <2>4. ConfiguredBy(o, q) = IF Len(q[p]) = 1 THEN [q EXCEPT ![p] = c] ELSE q
      BY <2>1 DEF ConfiguredBy
    <2> HIDE DEF c
    <2>5. ConfiguredBy(o, q) \in ParamStates
      <3>1. ConfiguredBy(o, q) \in [Params -> Seq(Byte)]
        BY <2>2, <2>3, <2>4
      <3>2. \A r \in Params : Len(ConfiguredBy(o, q)[r]) = Len(ParamBytes[r])
        BY <2>2, <2>3, <2>4
      <3> QED
        BY <3>1, <3>2 DEF ParamStates
    <2> QED
      BY <2>4, <2>5 DEF o, c
  <1>2. ASSUME NEW o, o \notin Configurations PROVE ConfiguredBy(o, q) = q
    BY <1>2 DEF ConfiguredBy
  <1>3. ASSUME NEW o \in Orders PROVE ConfiguredBy(o, q) \in ParamStates
    <2>1. CASE o \in Configurations
      <3>1. PICK p \in Params, b \in Byte : o = ConfigureCommand(p, b)
        BY <2>1 DEF Configurations
      <3> QED
        BY <1>1, <3>1
    <2>2. CASE o \notin Configurations
      BY <1>2, <2>2
    <2> QED
      BY <2>1, <2>2
  <1> QED
    BY <1>1, <1>2, <1>3

\* An order to bind is read as it is written.
LEMMA ChangeOf ==
  ASSUME ReportsAssumption, NEW id \in SetIds, NEW g \in Groups, NEW d \in Destinations
  PROVE  LET o == SetCommand(id, g, d)
         IN o \in Changes /\ o[2] = id /\ o[3] = g /\ DestOf(o) = d
  <1> DEFINE o == SetCommand(id, g, d)
  <1>1. o \in Changes
    BY DEF Changes
  <1>2. d = <<d[1], d[2]>>
    BY DestinationFacts
  <1>3. o[2] = id /\ o[3] = g
    BY DEF SetCommand
  <1>4. DestOf(o) = d
    <2>1. CASE d[2] = 0
      <3>1. o = <<ASSOCIATION, id, g, d[1]>>
        BY <2>1 DEF SetCommand
      <3>2. o[1] = ASSOCIATION /\ o[4] = d[1]
        BY <3>1
      <3> HIDE DEF o
      <3> QED
        BY <1>2, <2>1, <3>2 DEF DestOf
    <2>2. CASE d[2] # 0
      <3>1. o = <<MULTI_CHANNEL_ASSOCIATION, id, g, 0, d[1], d[2]>>
        BY <2>2 DEF SetCommand
      <3>2. o[1] = MULTI_CHANNEL_ASSOCIATION /\ o[5] = d[1] /\ o[6] = d[2]
        BY <3>1
      <3>3. MULTI_CHANNEL_ASSOCIATION # ASSOCIATION
        BY DEF ASSOCIATION, MULTI_CHANNEL_ASSOCIATION
      <3> HIDE DEF o
      <3> QED
        BY <1>2, <3>2, <3>3 DEF DestOf
    <2> QED
      BY <2>1, <2>2
  <1> QED
    BY <1>1, <1>3, <1>4

\* What an order to bind or unbind does to the groups.
LEMMA BoundByFacts ==
  ASSUME ReportsAssumption, NEW b \in BoundStates
  PROVE  /\ \A g \in Groups, d \in Destinations :
              /\ BoundBy(SetCommand(1, g, d), b) = [b EXCEPT ![g] = Bound(@, d)]
              /\ BoundBy(SetCommand(4, g, d), b) = [b EXCEPT ![g] = @ \ {d}]
         /\ \A o \in Orders : BoundBy(o, b) \in BoundStates
         /\ \A o : o \notin Changes => BoundBy(o, b) = b
  <1>1. ASSUME NEW id \in SetIds, NEW g \in Groups, NEW d \in Destinations
        PROVE  /\ BoundBy(SetCommand(id, g, d), b)
                    = [b EXCEPT ![g] = IF id = 1 THEN Bound(@, d) ELSE @ \ {d}]
               /\ BoundBy(SetCommand(id, g, d), b) \in BoundStates
    <2> DEFINE o == SetCommand(id, g, d)
               x == IF id = 1 THEN Bound(b[g], d) ELSE b[g] \ {d}
    <2>1. o \in Changes /\ o[2] = id /\ o[3] = g /\ DestOf(o) = d
      BY ChangeOf
    <2> HIDE DEF o
    <2>2. BoundBy(o, b) = [b EXCEPT ![g] = x]
      BY <2>1 DEF BoundBy
    <2>3. x \in Small
      BY SmallFacts DEF BoundStates
    <2>4. BoundBy(o, b) = [b EXCEPT ![g] = IF id = 1 THEN Bound(@, d) ELSE @ \ {d}]
      BY <2>2
    <2> HIDE DEF x
    <2>5. BoundBy(o, b) \in BoundStates
      BY <2>2, <2>3 DEF BoundStates
    <2> QED
      BY <2>4, <2>5 DEF o
  <1>2. ASSUME NEW o, o \notin Changes PROVE BoundBy(o, b) = b
    BY <1>2 DEF BoundBy
  <1>3. ASSUME NEW o \in Orders PROVE BoundBy(o, b) \in BoundStates
    <2>1. CASE o \in Changes
      <3>1. PICK id \in SetIds, g \in Groups, d \in Destinations : o = SetCommand(id, g, d)
        BY <2>1 DEF Changes
      <3> QED
        BY <1>1, <3>1
    <2>2. CASE o \notin Changes
      BY <1>2, <2>2
    <2> QED
      BY <2>1, <2>2
  <1>4. ASSUME NEW g \in Groups, NEW d \in Destinations
        PROVE  /\ BoundBy(SetCommand(1, g, d), b) = [b EXCEPT ![g] = Bound(@, d)]
               /\ BoundBy(SetCommand(4, g, d), b) = [b EXCEPT ![g] = @ \ {d}]
    <2>1. 1 \in SetIds /\ 4 \in SetIds
      BY DEF SetIds
    <2>2. BoundBy(SetCommand(1, g, d), b) = [b EXCEPT ![g] = IF 1 = 1 THEN Bound(@, d) ELSE @ \ {d}]
      BY <1>1, <2>1
    <2>3. BoundBy(SetCommand(4, g, d), b) = [b EXCEPT ![g] = IF 4 = 1 THEN Bound(@, d) ELSE @ \ {d}]
      BY <1>1, <2>1
    <2> QED
      BY <2>2, <2>3
  <1> QED
    BY <1>2, <1>3, <1>4

\* An order of the other kinds changes neither.
LEMMA OtherOrders ==
  ASSUME ReportsAssumption, NEW o \in Questions \cup Answers \cup BatteryGets,
         NEW q \in ParamStates, NEW b \in BoundStates
  PROVE  ConfiguredBy(o, q) = q /\ BoundBy(o, b) = b
  <1>1. o \notin Configurations \cup Changes
    BY OrderKinds DEF Orders
  <1> QED
    BY <1>1, ConfiguredByFacts, BoundByFacts

\* Only orders about a parameter change how often it was reported.
LEMMA ToldByFacts ==
  ASSUME ReportsAssumption, NEW n \in Counts
  PROVE  /\ \A p \in Params, b \in Byte : ToldBy(ConfigureCommand(p, b), n) = [n EXCEPT ![p] = 0]
         /\ \A t \in Tables : Question(t) \in Questions => ToldBy(Question(t), n) = CountedBy(t, n)
         /\ \A o \in Orders : ToldBy(o, n) \in Counts
         /\ \A o \in Changes \cup Answers \cup BatteryGets : ToldBy(o, n) = n
  <1>1. ASSUME NEW p \in Params, NEW b \in Byte
        PROVE  /\ ToldBy(ConfigureCommand(p, b), n) = [n EXCEPT ![p] = 0]
               /\ ToldBy(ConfigureCommand(p, b), n) \in Counts
    <2>1. ConfigureCommand(p, b) \in Configurations
      BY DEF Configurations
    <2>2. ConfigureCommand(p, b)[3] = p
      BY DEF ConfigureCommand
    <2>3. ToldBy(ConfigureCommand(p, b), n) = [n EXCEPT ![p] = 0]
      BY <2>1, <2>2 DEF ToldBy
    <2> QED
      BY <2>3 DEF Counts
  <1>2. ASSUME NEW t \in Tables, Question(t) \in Questions
        PROVE  /\ ToldBy(Question(t), n) = CountedBy(t, n)
               /\ ToldBy(Question(t), n) \in Counts
    <2> DEFINE o == Question(t)
    <2>1. o \notin Configurations
      BY <1>2, OrderKinds DEF Orders
    <2>2. o[1] = TableClass(t) /\ o[3] = t[2]
      BY DEF Question
    <2>3. TableClass(t) = CONFIGURATION <=> t[1] = "param"
      BY DEF TableClass, CONFIGURATION, ASSOCIATION, MULTI_CHANNEL_ASSOCIATION
    <2> HIDE DEF o
    <2>5. ToldBy(o, n) = CountedBy(t, n)
      <3>1. o \in Questions
        BY <1>2 DEF o
      <3>2. CASE t[1] = "param"
        BY <2>1, <2>2, <2>3, <3>1, <3>2 DEF ToldBy, CountedBy
      <3>3. CASE t[1] # "param"
        BY <2>1, <2>2, <2>3, <3>1, <3>3 DEF ToldBy, CountedBy
      <3> QED
        BY <3>2, <3>3
    <2>6. CountedBy(t, n) \in Counts
      BY CountedByFacts
    <2> QED
      BY <2>5, <2>6 DEF o
  <1>3. ASSUME NEW o \in Changes \cup Answers \cup BatteryGets PROVE ToldBy(o, n) = n
    <2>1. o \in Orders /\ o \notin Configurations
      BY OrderKinds DEF Orders
    <2>2. o \in Changes => ~(o \in Questions)
      BY <2>1, OrderKinds
    <2>3. o \notin Questions
      BY <2>1, <2>2, OrderKinds
    <2> QED
      BY <2>1, <2>3 DEF ToldBy
  <1>4. ASSUME NEW o \in Orders PROVE ToldBy(o, n) \in Counts
    <2>1. CASE o \in Configurations
      <3>1. PICK p \in Params, b \in Byte : o = ConfigureCommand(p, b)
        BY <2>1 DEF Configurations
      <3> QED
        BY <1>1, <3>1
    <2>2. CASE o \in Questions
      <3>1. PICK t \in Tables : o = Question(t)
        BY <2>2 DEF Questions
      <3> QED
        BY <1>2, <2>2, <3>1
    <2>3. CASE o \in Changes \cup Answers \cup BatteryGets
      BY <1>3, <2>3
    <2> QED
      BY <2>1, <2>2, <2>3 DEF Orders
  <1> QED
    BY <1>1, <1>2, <1>3, <1>4

\* A destination is known by its list.
LEMMA OneDestination ==
  ASSUME ReportsAssumption, NEW d \in Destinations, NEW e \in Destinations, ListOf({d}) = ListOf({e})
  PROVE  d = e
  <1>1. d = <<d[1], d[2]>> /\ e = <<e[1], e[2]>>
    BY DestinationFacts, ZenonT(60)
  <1>2. /\ ListOf({d}) = IF d[2] = 0 THEN <<d[1]>> ELSE <<0, d[1], d[2]>>
        /\ ListOf({e}) = IF e[2] = 0 THEN <<e[1]>> ELSE <<0, e[1], e[2]>>
    BY ListOfOne
  <1>3. /\ Len(<<d[1]>>) = 1 /\ Len(<<0, d[1], d[2]>>) = 3
        /\ Len(<<e[1]>>) = 1 /\ Len(<<0, e[1], e[2]>>) = 3
    OBVIOUS
  <1>4. CASE d[2] = 0
    <2>1. e[2] = 0
      BY <1>2, <1>3, <1>4
    <2>2. <<d[1]>> = <<e[1]>>
      BY <1>2, <1>4, <2>1
    <2> QED
      BY <1>1, <1>4, <2>1, <2>2
  <1>5. CASE d[2] # 0
    <2>1. e[2] # 0
      BY <1>2, <1>3, <1>5
    <2>2. <<0, d[1], d[2]>> = <<0, e[1], e[2]>>
      BY <1>2, <1>5, <2>1
    <2> QED
      BY <1>1, <2>2
  <1> QED
    BY <1>4, <1>5

\* An order is taken.
Obeyed ==
  /\ param' = ConfiguredBy(orders[1], param) /\ bound' = BoundBy(orders[1], bound)
  /\ told' = ToldBy(orders[1], told)

\* The node obeys an order to configure.
LEMMA ConfiguredStep ==
  ASSUME ReportsAssumption, TypeInv, NodeIsConfigured
  PROVE  /\ TypeInv' /\ orders' = Tail(orders) /\ orders # <<>> /\ orders \in Seq(Orders)
         /\ orders[1] \in Configurations /\ said' = said /\ Obeyed
         /\ UNCHANGED <<program, air, asked, heard, history>>
  <1> DEFINE o == orders[1]
  <1>1. /\ Gets(CONFIGURATION, 4)
        /\ param' = [param EXCEPT ![params[1]] =
                       IF params[2] = Len(@) THEN SubSeq(params, 3, 2 + params[2]) ELSE @]
        /\ told' = [told EXCEPT ![params[1]] = 0]
        /\ UNCHANGED <<program, air, bound, asked, heard, ops, faults, history>>
    BY DEF NodeIsConfigured
  <1>2. /\ outbox' \in Seq(SentFrames) /\ orders' = Tail(orders) /\ orders # <<>>
        /\ orders \in Seq(Orders) /\ o \in Orders /\ o[1] = CONFIGURATION /\ o[2] = 4
        /\ params = SubSeq(o, 3, Len(o))
    BY <1>1, GetsStep
  <1> HIDE DEF o
  <1>3. o \in Configurations
    BY <1>2, OrderKinds
  <1>4. PICK p \in Params, b \in Byte : o = ConfigureCommand(p, b)
    BY <1>3 DEF Configurations
  <1>5. params = <<p, 1, b>> /\ SubSeq(<<p, 1, b>>, 3, 3) = <<b>>
    BY <1>2, <1>4, ConfigurationFacts, ZenonT(60)
  <1>6. param \in ParamStates /\ bound \in BoundStates
    BY DEF TypeInv
  <1>7. param' = ConfiguredBy(o, param)
    <2>1. params[1] = p /\ params[2] = 1 /\ SubSeq(params, 3, 2 + params[2]) = <<b>>
      BY <1>5
    <2>2. param' = [param EXCEPT ![p] = IF 1 = Len(@) THEN <<b>> ELSE @]
      BY <1>1, <2>1
    <2>3. param' = IF Len(param[p]) = 1 THEN [param EXCEPT ![p] = <<b>>] ELSE param
      <3>1. param \in [Params -> Seq(Byte)]
        BY <1>6 DEF ParamStates
      <3>2. CASE Len(param[p]) = 1
        BY <2>2, <3>2
      <3>3. CASE Len(param[p]) # 1
        BY <2>2, <3>1, <3>3
      <3> QED
        BY <3>2, <3>3
    <2> QED
      BY <1>4, <1>6, <2>3, ConfiguredByFacts, ZenonT(60)
  <1>8. param' \in ParamStates
    BY <1>2, <1>6, <1>7, ConfiguredByFacts
  <1>9. BoundBy(o, bound) = bound
    <2>1. o \notin Changes
      BY <1>2, <1>3, OrderKinds
    <2> QED
      BY <1>6, <2>1, BoundByFacts
  <1>9a. told' = ToldBy(o, told) /\ told' \in Counts
    <2>1. told' = [told EXCEPT ![p] = 0]
      BY <1>1, <1>5
    <2>2. told \in Counts
      BY DEF TypeInv
    <2>3. ToldBy(o, told) = [told EXCEPT ![p] = 0]
      BY <1>4, <2>2, ToldByFacts, ZenonT(60)
    <2>4. ToldBy(o, told) \in Counts
      BY <1>2, <1>3, <2>2, ToldByFacts, ZenonT(60)
    <2> QED
      BY <2>1, <2>3, <2>4
  <1>10. TypeInv'
    BY <1>1, <1>2, <1>8, <1>9a DEF TypeInv, program, history
  <1>11. said' = said
    BY <1>1 DEF said
  <1> QED
    BY <1>1, <1>2, <1>3, <1>7, <1>9, <1>9a, <1>10, <1>11 DEF o, Obeyed

ChangesNode == \E cc \in {ASSOCIATION, MULTI_CHANNEL_ASSOCIATION} : NodeBinds(cc) \/ NodeUnbinds(cc)

\* The node obeys an order to bind or to unbind.
LEMMA ChangedStep ==
  ASSUME ReportsAssumption, TypeInv, ChangesNode
  PROVE  /\ TypeInv' /\ orders' = Tail(orders) /\ orders # <<>> /\ orders \in Seq(Orders)
         /\ orders[1] \in Changes /\ said' = said /\ Obeyed
         /\ UNCHANGED <<program, air, asked, heard, history>>
  <1> DEFINE o == orders[1]
  <1>1. PICK cc \in {ASSOCIATION, MULTI_CHANNEL_ASSOCIATION} : NodeBinds(cc) \/ NodeUnbinds(cc)
    BY DEF ChangesNode
  <1>2. PICK id \in SetIds :
          /\ Gets(cc, id)
          /\ \E d \in Destinations :
               /\ ListOf({d}) = Tail(params)
               /\ bound' = [bound EXCEPT ![params[1]] = IF id = 1 THEN Bound(@, d) ELSE @ \ {d}]
          /\ UNCHANGED <<program, air, param, told, asked, heard, ops, faults, history>>
    <2>1. 1 \in SetIds /\ 4 \in SetIds
      BY DEF SetIds
    <2>2. CASE NodeBinds(cc)
      <3>1. PICK d \in Destinations :
              ListOf({d}) = Tail(params) /\ bound' = [bound EXCEPT ![params[1]] = Bound(@, d)]
        BY <2>2 DEF NodeBinds
      <3>2. bound' = [bound EXCEPT ![params[1]] = IF 1 = 1 THEN Bound(@, d) ELSE @ \ {d}]
        BY <3>1
      <3>3. /\ Gets(cc, 1) /\ UNCHANGED <<program, air, param, told, asked, heard, ops, faults, history>>
        BY <2>2 DEF NodeBinds
      <3> QED
        BY <2>1, <3>1, <3>2, <3>3
    <2>3. CASE NodeUnbinds(cc)
      <3>1. PICK d \in Destinations :
              ListOf({d}) = Tail(params) /\ bound' = [bound EXCEPT ![params[1]] = @ \ {d}]
        BY <2>3 DEF NodeUnbinds
      <3>2. bound' = [bound EXCEPT ![params[1]] = IF 4 = 1 THEN Bound(@, d) ELSE @ \ {d}]
        BY <3>1
      <3>3. /\ Gets(cc, 4) /\ UNCHANGED <<program, air, param, told, asked, heard, ops, faults, history>>
        BY <2>3 DEF NodeUnbinds
      <3> QED
        BY <2>1, <3>1, <3>2, <3>3
    <2> QED
      BY <1>1, <2>2, <2>3
  <1>3. /\ outbox' \in Seq(SentFrames) /\ orders' = Tail(orders) /\ orders # <<>>
        /\ orders \in Seq(Orders) /\ o \in Orders /\ o[1] = cc /\ o[2] = id
        /\ params = SubSeq(o, 3, Len(o))
    BY <1>2, GetsStep, SMTT(60)
  <1> HIDE DEF o
  <1>4. o \in Changes
    BY <1>3, OrderKinds, SMTT(60)
  <1>5. PICK j \in SetIds, g \in Groups, d \in Destinations : o = SetCommand(j, g, d)
    BY <1>4 DEF Changes
  <1>6. IsChange(o, j, g, d)
    BY <1>5, ChangeFacts
  <1>7. j = id /\ params[1] = g /\ Tail(params) = ListOf({d})
    BY <1>3, <1>6 DEF IsChange
  <1>8. bound' = [bound EXCEPT ![g] = IF id = 1 THEN Bound(@, d) ELSE @ \ {d}]
    <2>1. PICK e \in Destinations :
            /\ ListOf({e}) = Tail(params)
            /\ bound' = [bound EXCEPT ![params[1]] = IF id = 1 THEN Bound(@, e) ELSE @ \ {e}]
      BY <1>2
    <2>2. e = d
      BY <1>7, <2>1, OneDestination
    <2> QED
      BY <1>7, <2>1, <2>2
  <1>9. param \in ParamStates /\ bound \in BoundStates
    BY DEF TypeInv
  <1>10. bound' = BoundBy(o, bound)
    <2>1. CASE id = 1
      <3>1. BoundBy(SetCommand(1, g, d), bound) = [bound EXCEPT ![g] = Bound(@, d)]
        BY <1>9, BoundByFacts
      <3> QED
        BY <1>5, <1>7, <1>8, <2>1, <3>1
    <2>2. CASE id = 4
      <3>1. BoundBy(SetCommand(4, g, d), bound) = [bound EXCEPT ![g] = @ \ {d}]
        BY <1>9, BoundByFacts
      <3> QED
        BY <1>5, <1>7, <1>8, <2>2, <3>1
    <2> QED
      BY <2>1, <2>2 DEF SetIds
  <1>11. bound' \in BoundStates
    BY <1>3, <1>9, <1>10, BoundByFacts
  <1>12. ConfiguredBy(o, param) = param
    <2>1. o \notin Configurations
      BY <1>3, <1>4, OrderKinds, SMTT(60)
    <2> QED
      BY <1>9, <2>1, ConfiguredByFacts
  <1>12a. ToldBy(o, told) = told
    <2>1. told \in Counts
      BY DEF TypeInv
    <2> QED
      BY <1>4, <2>1, ToldByFacts
  <1>13. TypeInv'
    BY <1>2, <1>3, <1>11 DEF TypeInv, program, history
  <1>14. said' = said
    BY <1>2 DEF said
  <1> QED
    BY <1>2, <1>3, <1>4, <1>10, <1>12, <1>12a, <1>13, <1>14 DEF o, Obeyed

\* What the node says of a table; of a parameter, when it has said it n times.
Content(t, n) ==
  IF t[1] = "param" THEN Shown(t[2], n)
  ELSE IF t[1] = "assoc" THEN ListOf({d \in bound[t[2]] : d[2] = 0}) ELSE ListOf(bound[t[2]])

\* What the node reports of a table fits into a report.
LEMMA ContentFacts ==
  ASSUME ReportsAssumption, TypeInv, NEW t \in Tables, NEW n
  PROVE  IsContent(t, Content(t, n))
  <1>1. /\ \/ t[1] = "param" /\ t[2] \in Params
           \/ t[1] = "assoc" /\ t[2] \in Groups
           \/ t[1] = "mcAssoc" /\ t[2] \in Groups
    BY TableFacts, ZenonT(60)
  <1>2. param \in ParamStates /\ bound \in BoundStates
    BY DEF TypeInv
  <1>3. CASE t[1] = "param"
    <2> DEFINE p == t[2]
               v == Shown(p, n)
    <2>1. v \in Seq(Byte) /\ Len(v) = Len(ParamBytes[t[2]]) /\ Content(t, n) = v
      <3>1. p \in Params /\ param[p] \in Seq(Byte) /\ Len(param[p]) = Len(ParamBytes[p])
        BY <1>1, <1>2, <1>3, ZenonT(60) DEF ParamStates
      <3>2. p \in Forgetful => Len(ParamBytes[p]) = 1
        BY DEF ReportsAssumption
      <3>3. Default \in Seq(Byte) /\ Len(Default) = 1
        BY DEF Default, Byte
      <3>4. CASE p \in Forgetful /\ n > 0
        BY <1>3, <3>2, <3>3, <3>4 DEF Shown, Content
      <3>5. CASE ~(p \in Forgetful /\ n > 0)
        BY <1>3, <3>1, <3>5 DEF Shown, Content
      <3> QED
        BY <3>4, <3>5
    <2>2. Len(ParamBytes[t[2]]) \in {1, 2, 4}
      BY <1>1, <1>3 DEF ReportsAssumption
    <2>3. \A k \in {1, 2, 4} : k <= 243
      OBVIOUS
    <2> HIDE DEF v
    <2>4. Len(v) <= 243
      BY <2>1, <2>2, <2>3
    <2> QED
      BY <1>3, <2>1, <2>4 DEF IsContent
  <1>4. CASE t[1] # "param"
    <2> DEFINE B == bound[t[2]]
               D == IF t[1] = "assoc" THEN {d \in B : d[2] = 0} ELSE B
    <2>1. B \in Small
      BY <1>1, <1>2, <1>4, ZenonT(60) DEF BoundStates
    <2>2. B \in SUBSET Destinations /\ Cardinality(B) <= MaxNodes
      BY <2>1 DEF Small
    <2>3. D \in SUBSET B
      OBVIOUS
    <2> HIDE DEF B
    <2>4. D \in Small
      <3> HIDE DEF D
      <3>1. IsFiniteSet(B)
        BY <2>2, DestinationFacts, FS_Subset
      <3>2. Cardinality(D) <= Cardinality(B) /\ IsFiniteSet(D)
        BY <2>3, <3>1, FS_Subset
      <3>3. Cardinality(B) \in Nat /\ Cardinality(D) \in Nat /\ MaxNodes \in Nat
        BY <3>1, <3>2, FS_CardinalityType, AssumptionFacts
      <3>4. Cardinality(D) <= MaxNodes
        BY <2>2, <3>2, <3>3
      <3> QED
        BY <2>2, <2>3, <3>4 DEF Small
    <2>5. Content(t, n) = ListOf(D)
      BY <1>4 DEF Content, B
    <2>6. t[1] = "assoc" => \A d \in D : d[2] = 0
      OBVIOUS
    <2> HIDE DEF D
    <2>7. ListOf(D) \in Seq(Byte) /\ Len(ListOf(D)) <= 243
      BY <2>4, ListOfFacts DEF Small
    <2> QED
      BY <1>4, <2>4, <2>5, <2>6, <2>7 DEF IsContent
  <1> QED
    BY <1>3, <1>4

ReportsTable ==
  \/ NodeReportsParam
  \/ \E cc \in {ASSOCIATION, MULTI_CHANNEL_ASSOCIATION} : NodeReportsGroup(cc)

\* The node says what it has of a table when it is asked.
LEMMA TableSaid ==
  ASSUME ReportsAssumption, TypeInv, ReportsTable
  PROVE  /\ orders # <<>> /\ orders[1] \in Questions
         /\ \E t \in Tables : /\ TableClass(t) \in Classes
                              /\ orders[1] = Question(t)
                              /\ Air(TableCommand(t, Content(t, told[t[2]])))
  <1>1. PICK cc \in {CONFIGURATION, ASSOCIATION, MULTI_CHANNEL_ASSOCIATION} :
          Gets(cc, IF cc = CONFIGURATION THEN 5 ELSE 2)
          /\ (cc = CONFIGURATION => NodeReportsParam)
          /\ (cc # CONFIGURATION => NodeReportsGroup(cc))
    BY DEF ReportsTable, NodeReportsParam, NodeReportsGroup, CONFIGURATION, ASSOCIATION,
       MULTI_CHANNEL_ASSOCIATION
  <1> DEFINE o == orders[1]
  <1>2. /\ orders # <<>> /\ o \in Orders /\ o[1] = cc
        /\ o[2] = (IF cc = CONFIGURATION THEN 5 ELSE 2)
        /\ params = SubSeq(o, 3, Len(o))
    BY <1>1, GetsStep
  <1> HIDE DEF o
  <1>3. o \in Questions
    BY <1>2, OrderKinds
  <1>4. PICK t \in Tables : TableClass(t) \in Classes /\ o = Question(t)
    BY <1>3 DEF Questions
  <1>5. TableClass(t) = cc /\ params[1] = t[2]
    BY <1>2, <1>4, QuestionFacts, ZenonT(60)
  <1>6. /\ t[2] \in Byte /\ CONFIGURATION \in Byte /\ ASSOCIATION \in Byte
        /\ MULTI_CHANNEL_ASSOCIATION \in Byte /\ 6 \in Byte /\ 3 \in Byte /\ 0 \in Byte
    BY TableFacts, SmallNumbers, ZenonT(60)
  <1>7. IsContent(t, Content(t, told[t[2]]))
    BY ContentFacts
  <1>8. Content(t, told[t[2]]) \in Bytes
    BY <1>7 DEF IsContent, Bytes
  <1>9. CONFIGURATION # ASSOCIATION /\ CONFIGURATION # MULTI_CHANNEL_ASSOCIATION
        /\ ASSOCIATION # MULTI_CHANNEL_ASSOCIATION
    BY DEF CONFIGURATION, ASSOCIATION, MULTI_CHANNEL_ASSOCIATION
  <1>10. Air(TableCommand(t, Content(t, told[t[2]])))
    <2> DEFINE c == Content(t, told[t[2]])
               p == t[2]
               n == Len(c)
    <2>1. CASE t[1] = "param"
      <3>1. cc = CONFIGURATION
        BY <1>5, <2>1 DEF TableClass
      <3>2. Air(<<CONFIGURATION, 6, p, n>> \o c)
        BY <1>1, <1>5, <2>1, <3>1 DEF NodeReportsParam, Content
      <3>3. TableCommand(t, c) = CommandWith(CONFIGURATION, 6, <<p, n>> \o c)
        BY <2>1 DEF TableCommand, TableClass, TableId, TableParams, Heading
      <3>4. n \in Byte
        <4>1. Len(c) \in Nat /\ Len(c) <= 255
          BY <1>7 DEF IsContent
        <4> QED
          BY <4>1, SmallNumbers
      <3> HIDE DEF c, p, n
      <3>5. p \in Byte /\ c \in Bytes
        BY <1>6, <1>8 DEF p, c
      <3>6. <<CONFIGURATION, 6, p, n>> \o c = CommandWith(CONFIGURATION, 6, <<p, n>> \o c)
        <4>1. BehindTwo(CONFIGURATION, 6, p, n, c)
          BY <1>6, <3>4, <3>5, HeadingOfTwo
        <4> QED
          BY <4>1 DEF BehindTwo
      <3> QED
        BY <3>2, <3>3, <3>6 DEF c
    <2>2. CASE t[1] # "param"
      <3>1. cc # CONFIGURATION /\ cc = (IF t[1] = "assoc" THEN ASSOCIATION ELSE MULTI_CHANNEL_ASSOCIATION)
        BY <1>5, <1>9, <2>2 DEF TableClass
      <3>2. Air(<<cc, 3, p, MaxNodes, 0>> \o c)
        BY <1>1, <1>5, <1>9, <2>2, <3>1 DEF NodeReportsGroup, Content
      <3>3. TableCommand(t, c) = CommandWith(cc, 3, <<p, MaxNodes, 0>> \o c)
        BY <1>5, <2>2 DEF TableCommand, TableId, TableParams, Heading
      <3>4. MaxNodes \in Byte
        <4>1. MaxNodes \in Nat /\ MaxNodes <= 121
          BY AssumptionFacts
        <4>2. MaxNodes <= 255
          BY <4>1
        <4> QED
          BY <4>1, <4>2, SmallNumbers
      <3> DEFINE z == 0
                 y == 3
                 x == cc
      <3>5. x \in Byte /\ y \in Byte /\ z \in Byte
        BY <1>6
      <3> HIDE DEF c, p, x, y, z
      <3>6. p \in Byte /\ c \in Bytes
        BY <1>6, <1>8 DEF p, c
      <3>7. <<x, y, p, MaxNodes, z>> \o c = CommandWith(x, y, <<p, MaxNodes, z>> \o c)
        <4>1. BehindThree(x, y, p, MaxNodes, z, c)
          BY <3>4, <3>5, <3>6, HeadingOfThree, SMTT(60)
        <4> QED
          BY <4>1 DEF BehindThree
      <3> QED
        BY <3>2, <3>3, <3>7, ZenonT(60) DEF c, x, y, z
    <2> QED
      BY <2>1, <2>2
  <1> QED
    BY <1>2, <1>3, <1>4, <1>10 DEF o

\* It counts what it reports of a parameter.
LEMMA ReportsCount ==
  ASSUME ReportsAssumption, TypeInv, ReportsTable, NEW t \in Tables, orders[1] = Question(t)
  PROVE  told' = CountedBy(t, told)
  <1>1. /\ SubSeq(orders[1], 3, Len(orders[1]))[1] = t[2]
        /\ orders[1][1] = TableClass(t)
    BY QuestionFacts, ZenonT(60)
  <1>2. TableClass(t) = CONFIGURATION <=> t[1] = "param"
    BY DEF TableClass, CONFIGURATION, ASSOCIATION, MULTI_CHANNEL_ASSOCIATION
  <1>3. CASE NodeReportsParam
    <2>1. Gets(CONFIGURATION, 5) /\ told' = [told EXCEPT ![params[1]] = @ + 1]
      BY <1>3 DEF NodeReportsParam
    <2>2. orders[1][1] = CONFIGURATION /\ params = SubSeq(orders[1], 3, Len(orders[1]))
      BY <2>1, GetsStep
    <2>3. t[1] = "param" /\ params[1] = t[2]
      BY <1>1, <1>2, <2>2
    <2> QED
      BY <2>1, <2>3 DEF CountedBy
  <1>4. ASSUME NEW cc \in {ASSOCIATION, MULTI_CHANNEL_ASSOCIATION}, NodeReportsGroup(cc)
        PROVE  told' = CountedBy(t, told)
    <2>1. Gets(cc, 2) /\ told' = told
      BY <1>4 DEF NodeReportsGroup, node
    <2>2. orders[1][1] = cc
      BY <2>1, GetsStep
    <2>3. t[1] # "param"
      BY <1>1, <1>2, <2>2 DEF CONFIGURATION, ASSOCIATION, MULTI_CHANNEL_ASSOCIATION
    <2> QED
      BY <2>1, <2>3 DEF CountedBy
  <1> QED
    BY <1>3, <1>4 DEF ReportsTable

\* The node reports the table it is asked for.
LEMMA TableSaidStep ==
  ASSUME ReportsAssumption, TypeInv, ReportsTable
  PROVE  /\ TypeInv' /\ orders' = Tail(orders) /\ orders # <<>> /\ orders \in Seq(Orders)
         /\ orders[1] \in Questions /\ Obeyed
         /\ said \in Seq(Sayings)
         /\ \E t \in Tables :
              LET report == TableReport(t, Content(t, told[t[2]]))
              IN /\ orders[1] = Question(t) /\ report \in Sayings /\ IsTable(report)
                 /\ said' = Append(said, report)
         /\ UNCHANGED <<program, param, bound, asked, heard, history>>
  <1>1. /\ orders # <<>> /\ orders[1] \in Questions
        /\ \E t \in Tables : /\ TableClass(t) \in Classes
                             /\ orders[1] = Question(t)
                             /\ Air(TableCommand(t, Content(t, told[t[2]])))
    BY TableSaid
  <1>2. PICK t \in Tables : /\ TableClass(t) \in Classes
                            /\ orders[1] = Question(t)
                            /\ Air(TableCommand(t, Content(t, told[t[2]])))
    BY <1>1
  <1>3. /\ \E cc, id : Gets(cc, id)
        /\ UNCHANGED <<program, param, bound, asked, heard, ops, faults, history>>
    BY DEF ReportsTable, NodeReportsParam, NodeReportsGroup, node
  <1>4. outbox' \in Seq(SentFrames) /\ orders' = Tail(orders) /\ orders \in Seq(Orders)
    BY <1>3, GetsStep
  <1>4a. told' = CountedBy(t, told)
    BY <1>2, ReportsCount
  <1>4b. told' = ToldBy(orders[1], told) /\ told' \in Counts
    <2>1. told \in Counts
      BY DEF TypeInv
    <2>2. orders[1] \in Orders
      BY <1>1 DEF Orders
    <2>3. ToldBy(orders[1], told) \in Counts
      BY <2>1, <2>2, ToldByFacts, ZenonT(60)
    <2>4. Question(t) \in Questions
      BY <1>1, <1>2
    <2>5. ToldBy(Question(t), told) = CountedBy(t, told)
      BY <2>1, <2>4, ToldByFacts, ZenonT(60)
    <2> QED
      BY <1>2, <1>4a, <2>3, <2>5
  <1> DEFINE cmd == TableCommand(t, Content(t, told[t[2]]))
             r == TableReport(t, Content(t, told[t[2]]))
  <1>5. Speaks(cmd, r) /\ IsTable(r)
    <2>1. IsContent(t, Content(t, told[t[2]]))
      BY ContentFacts
    <2> QED
      BY <1>2, <2>1, SpeaksTable
  <1> HIDE DEF cmd, r
  <1>6. air' \in Seq(AirFrames) /\ said' = Append(said, r) /\ r \in Sayings
    <2>1. Air(cmd)
      BY <1>2 DEF cmd
    <2> QED
      BY <1>5, <2>1, AirStep
  <1>7. TypeInv'
    BY <1>3, <1>4, <1>4b, <1>6 DEF TypeInv, program, history
  <1>8. Obeyed
    <2>1. param' = param /\ bound' = bound /\ param \in ParamStates /\ bound \in BoundStates
      BY <1>3 DEF TypeInv
    <2>2. ConfiguredBy(orders[1], param) = param /\ BoundBy(orders[1], bound) = bound
      BY <1>1, <2>1, OtherOrders
    <2> QED
      BY <1>4b, <2>1, <2>2 DEF Obeyed
  <1>9. said \in Seq(Sayings)
    BY SequenceTypes
  <1> QED
    BY <1>1, <1>2, <1>3, <1>4, <1>5, <1>6, <1>7, <1>8, <1>9 DEF r

\* A value is said: what the node reports is what the program is told.
SaysValue ==
  \E r \in Sayings : /\ IsValue(r) /\ said' = Append(said, r)
                     /\ reported' = [reported EXCEPT ![r.cc] = r.params]

\* Of a value that is said.
LEMMA ValueSaid ==
  ASSUME ReportsAssumption, TypeInv, NEW c \in ValueClasses \cap Classes, NEW id \in ValueIds(c),
         NEW v \in Byte, NEW ep \in Byte, Air(Wrapped(ep, ReportOf(c, id, v))),
         reported' = [reported EXCEPT ![c] = ValueParams(c, v)]
  PROVE  air' \in Seq(AirFrames) /\ SaysValue /\ reported' \in ValueStates
  <1> DEFINE q == ValueParams(c, v)
             r == [ep |-> ep, cc |-> c, id |-> id, params |-> q]
             cmd == Wrapped(ep, ReportOf(c, id, v))
  <1>1. /\ Speaks(cmd, r) /\ IsValue(r) /\ q \in Seq(Byte) /\ Len(q) = ValueSize(c)
    BY SpeaksValue
  <1>2. r.cc = c /\ r.params = q
    OBVIOUS
  <1>3. reported' = [reported EXCEPT ![c] = q]
    OBVIOUS
  <1> HIDE DEF q, cmd, r
  <1>4. air' \in Seq(AirFrames) /\ said' = Append(said, r) /\ r \in Sayings
    <2>1. Air(cmd)
      BY DEF cmd
    <2> QED
      BY <1>1, <2>1, AirStep
  <1>5. reported' \in ValueStates
    <2>1. /\ reported \in [ValueClasses -> Seq(Byte)]
          /\ \A x \in ValueClasses : Len(reported[x]) \in {0, ValueSize(x)}
      BY DEF TypeInv, ValueStates
    <2>2. reported' \in [ValueClasses -> Seq(Byte)]
      BY <1>1, <1>3, <2>1
    <2>3. \A x \in ValueClasses : Len(reported'[x]) \in {0, ValueSize(x)}
      BY <1>1, <1>3, <2>1
    <2> QED
      BY <2>2, <2>3 DEF ValueStates
  <1>6. SaysValue
    BY <1>1, <1>2, <1>3, <1>4 DEF SaysValue
  <1> QED
    BY <1>4, <1>5, <1>6

\* The node reports its battery when it is asked.
LEMMA BatterySaidStep ==
  ASSUME ReportsAssumption, TypeInv, NodeReportsBattery
  PROVE  /\ TypeInv' /\ orders' = Tail(orders) /\ orders # <<>> /\ orders \in Seq(Orders)
         /\ orders[1] \in BatteryGets /\ Obeyed /\ SaysValue /\ said \in Seq(Sayings)
         /\ UNCHANGED <<program, node, wanted, gets, fresh>>
  <1>1. /\ Gets(BATTERY, 2) /\ Air(ReportOf(BATTERY, 3, 100))
        /\ reported' = [reported EXCEPT ![BATTERY] = <<100>>]
        /\ UNCHANGED <<program, node, ops, faults, wanted, gets, fresh>>
    BY DEF NodeReportsBattery
  <1>2. /\ outbox' \in Seq(SentFrames) /\ orders' = Tail(orders) /\ orders # <<>>
        /\ orders \in Seq(Orders) /\ orders[1] \in Orders /\ orders[1][1] = BATTERY
    BY <1>1, GetsStep
  <1>3. orders[1] \in BatteryGets
    BY <1>2, OrderKinds
  <1> DEFINE c == BATTERY
  <1>4. c \in ValueClasses \cap Classes /\ c # METER /\ c # BASIC
    BY <1>3 DEF BatteryGets, ValueClasses, BATTERY, METER, BASIC
  <1>5. 3 \in ValueIds(c) /\ 100 \in Byte /\ 0 \in Byte
    BY <1>4, ValueClassFacts, SmallNumbers
  <1>6. Wrapped(0, ReportOf(c, 3, 100)) = ReportOf(c, 3, 100) /\ ValueParams(c, 100) = <<100>>
    BY <1>4 DEF Wrapped, ValueParams
  <1>7. air' \in Seq(AirFrames) /\ SaysValue /\ reported' \in ValueStates
    <2>1. /\ Air(Wrapped(0, ReportOf(c, 3, 100)))
          /\ reported' = [reported EXCEPT ![c] = ValueParams(c, 100)]
      BY <1>1, <1>6, ZenonT(60)
    <2> HIDE DEF c
    <2> QED
      BY <1>4, <1>5, <2>1, ValueSaid, ZenonT(60)
  <1>8. TypeInv'
    BY <1>1, <1>2, <1>7 DEF TypeInv, program, node
  <1>9. Obeyed
    <2>1. /\ param' = param /\ bound' = bound /\ told' = told
          /\ param \in ParamStates /\ bound \in BoundStates /\ told \in Counts
      BY <1>1 DEF node, TypeInv
    <2>2. ConfiguredBy(orders[1], param) = param /\ BoundBy(orders[1], bound) = bound
      BY <1>3, <2>1, OtherOrders
    <2>3. ToldBy(orders[1], told) = told
      BY <1>3, <2>1, ToldByFacts
    <2> QED
      BY <2>1, <2>2, <2>3 DEF Obeyed
  <1>10. said \in Seq(Sayings)
    BY SequenceTypes
  <1> QED
    BY <1>1, <1>2, <1>3, <1>7, <1>8, <1>9, <1>10

\* An endpoint, or 0 for the node itself, is a byte.
LEMMA EndpointFacts ==
  ASSUME ReportsAssumption, NEW ep \in Endpoints \cup {0}
  PROVE  ep \in Byte
  <1>1. \A n \in Nat : n <= 127 => n \in Byte
    BY DEF Byte
  <1>2. Endpoints \subseteq 1 .. 127
    BY AssumptionFacts
  <1>3. ep \in Nat /\ ep <= 127
    BY <1>2
  <1> QED
    BY <1>1, <1>3

\* The node reports a value of its own.
LEMMA ReportStep ==
  ASSUME ReportsAssumption, TypeInv, NEW c \in ValueClasses \cap Classes,
         NEW ep \in Endpoints \cup {0}, NodeReports(c, ep)
  PROVE  /\ TypeInv' /\ orders' = orders /\ SaysValue /\ said \in Seq(Sayings)
         /\ UNCHANGED <<program, node, wanted, gets, fresh>>
  <1>1. /\ Event
        /\ \E id \in IF c = BASIC THEN {1, 3} ELSE IF c = METER THEN {2} ELSE {3} :
             Air(Wrapped(ep, ReportOf(c, id, ops)))
        /\ reported' = [reported EXCEPT ![c] = IF c = METER THEN <<1, ops>> ELSE <<ops>>]
        /\ UNCHANGED <<program, outbox, node, faults, wanted, gets, fresh>>
    BY DEF NodeReports
  <1>2. PICK id \in ValueIds(c) : Air(Wrapped(ep, ReportOf(c, id, ops)))
    BY <1>1, ValueClassFacts
  <1>3. ops' \in 0 .. MaxOps /\ ops \in Byte
    BY <1>1, EventStep
  <1>4. reported' = [reported EXCEPT ![c] = ValueParams(c, ops)]
    BY <1>1 DEF ValueParams
  <1>5. ep \in Byte
    BY EndpointFacts
  <1>6. air' \in Seq(AirFrames) /\ SaysValue /\ reported' \in ValueStates
    <2> DEFINE v == ops
    <2>1. v \in Byte /\ Air(Wrapped(ep, ReportOf(c, id, v)))
          /\ reported' = [reported EXCEPT ![c] = ValueParams(c, v)]
      BY <1>2, <1>3, <1>4
    <2> HIDE DEF v
    <2> QED
      BY <1>5, <2>1, ValueSaid
  <1>7. TypeInv'
    BY <1>1, <1>3, <1>6 DEF TypeInv, program, node
  <1>8. orders' = orders
    BY <1>1 DEF orders
  <1>9. said \in Seq(Sayings)
    BY SequenceTypes
  <1> QED
    BY <1>1, <1>6, <1>7, <1>8, <1>9

GetReport(ep) == [ep |-> ep, cc |-> BASIC, id |-> 2, params |-> <<>>]

\* The node asks for a value, when it waits for none.
LEMMA AskStep ==
  ASSUME ReportsAssumption, TypeInv, NEW ep \in Endpoints \cup {0}, NodeAsks(ep)
  PROVE  /\ TypeInv' /\ orders' = orders /\ said \in Seq(Sayings)
         /\ GetReport(ep) \in Sayings /\ IsGet(GetReport(ep)) /\ GetReport(ep).ep = ep
         /\ said' = Append(said, GetReport(ep))
         /\ (asked = None) = (heard = None)
         /\ asked' = [ep |-> ep, value |-> BasicOf(reported)] /\ heard' = None
         /\ asked' # None
         /\ UNCHANGED <<program, param, told, bound, history>>
  <1> DEFINE v == BasicOf(reported)
  <1>1. /\ Event /\ (asked = None) = (heard = None)
        /\ asked' = [ep |-> ep, value |-> v] /\ heard' = None
        /\ Air(Wrapped(ep, <<BASIC, 2>>))
        /\ UNCHANGED <<program, outbox, param, told, bound, faults, history>>
    BY DEF NodeAsks, BasicOf
  <1>2. ep \in Byte
    BY EndpointFacts
  <1>3. v \in Byte
    BY BasicIsByte DEF TypeInv
  <1>4. air' \in Seq(AirFrames) /\ said' = Append(said, GetReport(ep)) /\ GetReport(ep) \in Sayings
    <2>1. Speaks(Wrapped(ep, <<BASIC, 2>>), GetReport(ep))
      BY <1>2, SpeaksGet DEF GetReport
    <2> DEFINE cmd == Wrapped(ep, <<BASIC, 2>>)
    <2>2. Air(cmd) /\ Speaks(cmd, GetReport(ep))
      BY <1>1, <2>1
    <2> HIDE DEF cmd
    <2> QED
      BY <2>2, AirStep
  <1>5. IsGet(GetReport(ep)) /\ GetReport(ep).ep = ep
    BY DEF IsGet, GetReport
  <1>6. ops' \in 0 .. MaxOps
    BY <1>1, EventStep
  <1> HIDE DEF v
  <1>7. asked' \in Basics
    BY <1>1, <1>2, <1>3 DEF Basics
  <1>8. asked' # None
    BY <1>7 DEF Basics, ReportsAssumption
  <1>9. TypeInv'
    BY <1>1, <1>4, <1>6, <1>7 DEF TypeInv, program, history
  <1>10. orders' = orders
    BY <1>1 DEF orders
  <1>11. said \in Seq(Sayings)
    BY SequenceTypes
  <1> QED
    BY <1>1, <1>4, <1>5, <1>8, <1>9, <1>10, <1>11 DEF v

\* The node announces that it is awake, which changes nothing.
LEMMA WakeStep ==
  ASSUME ReportsAssumption, TypeInv, NodeWakes
  PROVE  /\ TypeInv' /\ orders' = orders /\ said \in Seq(Sayings)
         /\ WakeReport \in Sayings /\ IsWake(WakeReport)
         /\ said' = Append(said, WakeReport)
         /\ UNCHANGED <<program, node, history>>
  <1>1. /\ Event /\ Air(<<WAKE_UP, 7>>) /\ UNCHANGED <<program, outbox, node, faults, history>>
    BY DEF NodeWakes
  <1>2. air' \in Seq(AirFrames) /\ said' = Append(said, WakeReport) /\ WakeReport \in Sayings
    <2> DEFINE cmd == <<WAKE_UP, 7>>
    <2>1. Air(cmd) /\ Speaks(cmd, WakeReport)
      BY <1>1, SpeaksWake
    <2> HIDE DEF cmd
    <2> QED
      BY <2>1, AirStep
  <1>3. ops' \in 0 .. MaxOps
    BY <1>1, EventStep
  <1>4. TypeInv'
    BY <1>1, <1>2, <1>3 DEF TypeInv, program, node, history
  <1>5. orders' = orders
    BY <1>1 DEF orders
  <1>6. said \in Seq(Sayings)
    BY SequenceTypes
  <1> QED
    BY <1>1, <1>2, <1>4, <1>5, <1>6 DEF IsWake, WakeReport

IsAnswer(o, ep, v) ==
  /\ ep = 0 => o[1] = BASIC /\ SubSeq(o, 3, Len(o))[1] = v
  /\ ep # 0 => /\ o[1] = MULTI_CHANNEL
               /\ SubSeq(o, 3, Len(o))[1] = ep /\ SubSeq(o, 3, Len(o))[4] = v

\* The node reads an answer as it was written.
LEMMA AnswerRead ==
  ASSUME NEW ep \in Byte, NEW v \in Byte
  PROVE  IsAnswer(AnswerCommand(ep, v), ep, v)
  BY AnswerFacts, ZenonT(60) DEF IsAnswer

\* The node hears an answer.
LEMMA HearStep ==
  ASSUME ReportsAssumption, TypeInv, NodeHears
  PROVE  /\ TypeInv' /\ orders' = Tail(orders) /\ orders # <<>> /\ orders \in Seq(Orders)
         /\ Obeyed /\ said' = said
         /\ \E ep \in Byte, v \in Byte : /\ orders[1] = AnswerCommand(ep, v)
                                         /\ heard' = [ep |-> ep, value |-> v]
         /\ orders[1] \in Answers
         /\ UNCHANGED <<program, air, param, told, bound, asked, history>>
  <1> DEFINE o == orders[1]
  <1>1. /\ \/ /\ Gets(BASIC, 3)
              /\ heard' = [ep |-> 0, value |-> params[1]]
           \/ /\ Gets(MULTI_CHANNEL, 6)
              /\ heard' = [ep |-> params[1], value |-> params[4]]
        /\ UNCHANGED <<program, air, param, told, bound, asked, ops, faults, history>>
    BY DEF NodeHears
  <1>2. PICK cc \in {BASIC, MULTI_CHANNEL} :
          /\ \E id : Gets(cc, id)
          /\ cc = BASIC => heard' = [ep |-> 0, value |-> params[1]]
          /\ cc = MULTI_CHANNEL => heard' = [ep |-> params[1], value |-> params[4]]
    BY <1>1 DEF BASIC, MULTI_CHANNEL
  <1>3. /\ outbox' \in Seq(SentFrames) /\ orders' = Tail(orders) /\ orders # <<>>
        /\ orders \in Seq(Orders) /\ o \in Orders /\ o[1] = cc
        /\ params = SubSeq(o, 3, Len(o))
    BY <1>2, GetsStep, SMTT(60)
  <1> HIDE DEF o
  <1>4. o \in Answers
    BY <1>3, OrderKinds
  <1>5. PICK ep \in Byte, v \in Byte : o = AnswerCommand(ep, v)
    BY <1>4 DEF Answers
  <1>6. BASIC # MULTI_CHANNEL
    BY DEF BASIC, MULTI_CHANNEL
  <1>7. heard' = [ep |-> ep, value |-> v]
    <2>1. /\ ep = 0 => o[1] = BASIC /\ params[1] = v
          /\ ep # 0 => o[1] = MULTI_CHANNEL /\ params[1] = ep /\ params[4] = v
      <3>1. IsAnswer(o, ep, v)
        BY <1>5, AnswerRead
      <3> QED
        BY <1>3, <3>1 DEF IsAnswer
    <2>2. CASE ep = 0
      <3>1. cc = BASIC /\ params[1] = v
        BY <1>3, <2>1, <2>2
      <3> QED
        BY <1>2, <2>2, <3>1
    <2>3. CASE ep # 0
      <3>1. cc = MULTI_CHANNEL /\ params[1] = ep /\ params[4] = v
        BY <1>3, <2>1, <2>3
      <3> QED
        BY <1>2, <3>1
    <2> QED
      BY <2>2, <2>3
  <1>8. heard' \in Basics
    BY <1>7 DEF Basics
  <1>9. TypeInv'
    BY <1>1, <1>3, <1>8 DEF TypeInv, program, history
  <1>10. Obeyed
    <2>1. /\ param' = param /\ bound' = bound /\ told' = told
          /\ param \in ParamStates /\ bound \in BoundStates /\ told \in Counts
      BY <1>1 DEF TypeInv
    <2>2. ConfiguredBy(o, param) = param /\ BoundBy(o, bound) = bound
      BY <1>4, <2>1, OtherOrders
    <2>3. ToldBy(o, told) = told
      BY <1>4, <2>1, ToldByFacts
    <2> QED
      BY <2>1, <2>2, <2>3 DEF Obeyed, o
  <1>11. said' = said
    BY <1>1 DEF said
  <1> QED
    BY <1>1, <1>3, <1>4, <1>5, <1>7, <1>9, <1>10, <1>11 DEF o
=============================================================================
