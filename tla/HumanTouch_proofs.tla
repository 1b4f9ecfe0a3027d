-------------------------- MODULE HumanTouch_proofs --------------------------
(***************************************************************************)
(* The review queue and its audit log, for every set of ids, capacity of   *)
(* channel and queue, and number of submissions, decisions and restarts.   *)
(***************************************************************************)
EXTENDS HumanTouch, FiniteSetTheorems, SequenceTheorems, TLAPS

\* A version that was sent before everything that is still in the channel.
Below(version) ==
  /\ version <= sent
  /\ \A i \in 1 .. Len(channel) : version < channel[i].version

\* The channel holds submissions in the order in which they were sent.
ChannelAscends ==
  /\ \A i \in 1 .. Len(channel) : channel[i].version <= sent
  /\ \A i, j \in 1 .. Len(channel) :
        i < j => channel[i].version < channel[j].version

\* Whatever is in the log, in the queue or on the screen came out of the
\* channel before what is in it now.
HandledFirst ==
  /\ \A i \in 1 .. Len(origin) : Below(origin[i].version)
  /\ \A id \in DOMAIN changes : Below(changes[id].version)
  /\ \A id \in Ids : Below(shown[id])

\* A submission is the queue's record of one id only.
OneIdEach ==
  \A id1, id2 \in DOMAIN changes :
    changes[id1].version = changes[id2].version => id1 = id2

\* What is on the screen is not newer than what the queue holds, and what the
\* reviewer saw is not newer than what is on the screen.
ShownBefore ==
  /\ \A id \in DOMAIN changes : shown[id] <= changes[id].version
  /\ reviewer.stage = "waiting" => reviewer.saw <= shown[reviewer.id]

\* Each submission is in the channel, or its arrival is in the log, or was lost.
Accounted ==
  \A version \in 1 .. sent :
    \/ \E i \in 1 .. Len(channel) : channel[i].version = version
    \/ version \in unlogged
    \/ \E i \in 1 .. Len(origin) :
          origin[i].version = version /\ origin[i].arrival

\* AuditExplainsStatus, of one id.
Explained(id) ==
  changes[id].version \notin behind =>
    \E i \in About(id) :
      /\ StatusAfter(audit[i].event) = changes[id].status
      /\ \A j \in About(id) : j > i => audit[j].event = "reject" /\ origin[j].arrival

\* The inductive invariant.
QueueInv ==
  ChannelAscends /\ HandledFirst /\ OneIdEach /\ ShownBefore /\ Accounted
IInv ==
  /\ TypeOK /\ IsFiniteSet(DOMAIN changes)
  /\ QueueInv
  /\ AuditExplainsStatus /\ ArrivalsInOrder

-----------------------------------------------------------------------------
(* The audit log *)

Events == {"submitted", "approve", "reject", "commit"}

\* What TypeOK says of the log.
LogType ==
  /\ audit \in Seq(Entry)
  /\ origin \in Seq(Origin) /\ Len(origin) = Len(audit)
  /\ unlogged \subseteq Versions /\ behind \subseteq Versions
  /\ tail \in {"newline", "fragment"}

\* An append leaves a new last entry, or the log is behind what it was about.
Logged(event, change, arrival) ==
  \/ /\ audit' = Append(audit, [event |-> event, id |-> change.id])
     /\ origin' = Append(origin, [version |-> change.version, arrival |-> arrival])
     /\ unlogged' = unlogged /\ behind' = behind \ {change.version}
  \/ /\ audit' = audit /\ origin' = origin
     /\ unlogged' = IF arrival THEN unlogged \cup {change.version} ELSE unlogged
     /\ behind' = behind \cup {change.version}

LEMMA AppendEntryLogs ==
  ASSUME TypeOK, NEW event \in Events, NEW change \in Change,
         NEW arrival \in BOOLEAN, NEW outcome \in Outcomes,
         AppendEntry(event, change, arrival, outcome)
  PROVE  Logged(event, change, arrival) /\ LogType'
<1>. DEFINE entry == [event |-> event, id |-> change.id]
            from == [version |-> change.version, arrival |-> arrival]
<1>1. entry \in Entry /\ from \in Origin /\ change.version \in Versions
  BY DEF Entry, Origin, Change, Events
<1>2. LogType
  BY DEF TypeOK, LogType
<1>3. Logged(event, change, arrival)
  BY DEF AppendEntry, Logged
<1>4. tail' \in {"newline", "fragment"}
  BY <1>2 DEF AppendEntry, LogType
<1>5. /\ Append(audit, entry) \in Seq(Entry) /\ Append(origin, from) \in Seq(Origin)
      /\ Len(Append(audit, entry)) = Len(audit) + 1
      /\ Len(Append(origin, from)) = Len(origin) + 1
  BY <1>1, <1>2, AppendProperties DEF LogType
<1>6. /\ \/ audit' = audit /\ origin' = origin
         \/ audit' = Append(audit, entry) /\ origin' = Append(origin, from)
      /\ unlogged' \subseteq unlogged \cup {change.version}
      /\ behind' \subseteq behind \cup {change.version}
  BY <1>3 DEF Logged
<1>. HIDE DEF entry, from
<1>7. LogType'
  BY <1>1, <1>2, <1>4, <1>5, <1>6 DEF LogType
<1>. QED BY <1>3, <1>7

\* The log, entry by entry, after an append.
LoggedEach(event, change, arrival) ==
  LET n == Len(audit)
  IN  /\ n \in Nat /\ Len(origin) = n /\ Len(origin') = Len(audit')
      /\ Len(audit') \in {n, n + 1}
      /\ \A i \in 1 .. n : audit'[i] = audit[i] /\ origin'[i] = origin[i]
      /\ Len(audit') = n + 1 =>
           /\ audit'[n + 1].event = event /\ audit'[n + 1].id = change.id
           /\ origin'[n + 1].version = change.version
           /\ origin'[n + 1].arrival = arrival
      /\ Len(audit') = n =>
           /\ change.version \in behind'
           /\ arrival => change.version \in unlogged'
      /\ unlogged \subseteq unlogged'
      /\ behind \ {change.version} \subseteq behind'

LEMMA LoggedEntries ==
  ASSUME LogType, NEW event, NEW change, NEW arrival,
         Logged(event, change, arrival)
  PROVE  LoggedEach(event, change, arrival)
<1>. DEFINE entry == [event |-> event, id |-> change.id]
            from == [version |-> change.version, arrival |-> arrival]
<1>1. Len(audit) \in Nat /\ Len(origin) = Len(audit)
  BY LenProperties DEF LogType
<1>2. CASE audit' = audit /\ origin' = origin
  <2>1. Len(audit') = Len(audit) /\ Len(origin') = Len(audit)
    BY <1>1, <1>2
  <2>2. /\ change.version \in behind' \/ audit = Append(audit, entry)
        /\ arrival /\ audit # Append(audit, entry) => change.version \in unlogged'
        /\ unlogged \subseteq unlogged' /\ behind \ {change.version} \subseteq behind'
    BY <1>2 DEF Logged
  <2>3. audit # Append(audit, entry)
    BY <1>1, AppendProperties DEF LogType
  <2>. QED BY <1>1, <1>2, <2>1, <2>2, <2>3 DEF LoggedEach
<1>3. CASE /\ audit' = Append(audit, entry) /\ origin' = Append(origin, from)
           /\ unlogged' = unlogged /\ behind' = behind \ {change.version}
  <2>1. /\ Len(audit') = Len(audit) + 1 /\ audit'[Len(audit) + 1] = entry
        /\ \A i \in 1 .. Len(audit) : audit'[i] = audit[i]
        /\ Len(origin') = Len(audit) + 1 /\ origin'[Len(audit) + 1] = from
        /\ \A i \in 1 .. Len(audit) : origin'[i] = origin[i]
    BY <1>1, <1>3, AppendProperties DEF LogType
  <2>2. /\ entry.event = event /\ entry.id = change.id
        /\ from.version = change.version /\ from.arrival = arrival
    OBVIOUS
  <2>. HIDE DEF entry, from
  <2>. QED BY <1>1, <1>3, <2>1, <2>2 DEF LoggedEach
<1>. QED BY <1>2, <1>3 DEF Logged

LEMMA AppendLogsEach ==
  ASSUME TypeOK, NEW event \in Events, NEW change \in Change,
         NEW arrival \in BOOLEAN, NEW outcome \in Outcomes,
         AppendEntry(event, change, arrival, outcome)
  PROVE  LogType' /\ LoggedEach(event, change, arrival)
<1>1. LogType
  BY DEF TypeOK, LogType
<1>. QED BY <1>1, AppendEntryLogs, LoggedEntries

\* An entry of the file was there before or is the new one.
LEMMA LoggedAbout ==
  ASSUME NEW event, NEW change, NEW arrival, LoggedEach(event, change, arrival),
         NEW id
  PROVE  /\ About(id) \subseteq About(id)'
         /\ \A i \in About(id)' :
               \/ i \in About(id)
               \/ i = Len(audit) + 1 /\ Len(audit') = i /\ change.id = id
BY DEF LoggedEach, About

\* Arrivals stay in order if a new one is later than whatever is in the log.
LEMMA LoggedInOrder ==
  ASSUME ArrivalsInOrder, NEW event, NEW change, NEW arrival,
         LoggedEach(event, change, arrival),
         arrival => \A i \in 1 .. Len(origin) : origin[i].version < change.version
  PROVE  ArrivalsInOrder'
<1>. SUFFICES ASSUME NEW i \in 1 .. Len(origin'), NEW j \in 1 .. Len(origin'),
                     i < j, origin'[j].arrival
              PROVE  origin'[i].version < origin'[j].version
  BY DEF ArrivalsInOrder
<1>1. /\ Len(origin) \in Nat /\ i \in 1 .. Len(origin)
      /\ origin'[i] = origin[i]
  BY DEF LoggedEach
<1>2. CASE j \in 1 .. Len(origin)
  <2>1. origin'[j] = origin[j]
    BY <1>2 DEF LoggedEach
  <2>. QED BY <1>1, <1>2, <2>1 DEF ArrivalsInOrder
<1>3. CASE j \notin 1 .. Len(origin)
  <2>1. j = Len(audit) + 1 /\ Len(audit') = Len(audit) + 1
    BY <1>3 DEF LoggedEach
  <2>2. origin'[j].version = change.version /\ origin'[j].arrival = arrival
    BY <2>1 DEF LoggedEach
  <2>. QED BY <1>1, <2>2
<1>. QED BY <1>2, <1>3

\* The log goes on explaining a record, if the new entry is about another id or
\* is the refusal of an arrival.
LEMMA OthersExplained ==
  ASSUME NEW event, NEW change, NEW arrival, LoggedEach(event, change, arrival),
         NEW id, Explained(id), changes'[id] = changes[id],
         changes[id].version # change.version,
         id = change.id => event = "reject" /\ arrival
  PROVE  Explained(id)'
<1>. SUFFICES ASSUME changes[id].version \notin behind'
              PROVE  \E i \in About(id)' :
                       /\ StatusAfter(audit'[i].event) = changes[id].status
                       /\ \A j \in About(id)' : j > i =>
                            audit'[j].event = "reject" /\ origin'[j].arrival
  BY DEF Explained, StatusAfter
<1>1. changes[id].version \notin behind
  BY DEF LoggedEach
<1>2. PICK i \in About(id) :
        /\ StatusAfter(audit[i].event) = changes[id].status
        /\ \A j \in About(id) : j > i =>
             audit[j].event = "reject" /\ origin[j].arrival
  BY <1>1 DEF Explained
<1>3. \A j \in About(id) : audit'[j] = audit[j] /\ origin'[j] = origin[j]
  BY DEF LoggedEach, About
<1>4. i \in About(id)' /\ StatusAfter(audit'[i].event) = changes[id].status
  BY <1>2, <1>3, LoggedAbout
<1>5. ASSUME NEW j \in About(id)', j > i
      PROVE  audit'[j].event = "reject" /\ origin'[j].arrival
  <2>1. CASE j \in About(id)
    BY <1>2, <1>3, <1>5, <2>1
  <2>2. CASE j = Len(audit) + 1 /\ Len(audit') = j /\ change.id = id
    BY <2>2 DEF LoggedEach
  <2>. QED BY <2>1, <2>2, LoggedAbout
<1>. QED BY <1>4, <1>5

\* It explains a record whose status is the one the new entry is about.
LEMMA NewlyExplained ==
  ASSUME NEW event, NEW change, NEW arrival, LoggedEach(event, change, arrival),
         NEW id, changes'[id].status = StatusAfter(event),
         changes'[id].version = change.version, change.id = id
  PROVE  Explained(id)'
<1>1. CASE Len(audit') = Len(audit)
  BY <1>1 DEF LoggedEach, Explained
<1>2. CASE Len(audit') = Len(audit) + 1
  <2>. DEFINE i == Len(audit) + 1
  <2>1. /\ Len(audit) \in Nat /\ audit'[i].event = event
        /\ audit'[i].id = id
    BY <1>2 DEF LoggedEach
  <2>2. i \in About(id)' /\ \A j \in About(id)' : ~(j > i)
    BY <1>2, <2>1 DEF About
  <2>. QED BY <2>1, <2>2 DEF Explained, StatusAfter
<1>. QED BY <1>1, <1>2 DEF LoggedEach

\* What the file says, and in which order, is not changed by what leaves log and
\* queue alone.
LEMMA LogStands ==
  ASSUME AuditExplainsStatus, ArrivalsInOrder,
         UNCHANGED <<changes, audit, origin, behind>>
  PROVE  AuditExplainsStatus' /\ ArrivalsInOrder'
<1>1. AuditExplainsStatus'
  <2>. SUFFICES ASSUME NEW id \in DOMAIN changes, changes[id].version \notin behind
                PROVE  \E i \in About(id)' :
                         /\ StatusAfter(audit[i].event) = changes[id].status
                         /\ \A j \in About(id)' : j > i =>
                              audit[j].event = "reject" /\ origin[j].arrival
    BY DEF AuditExplainsStatus, StatusAfter
  <2>1. About(id)' = About(id)
    BY DEF About
  <2>. QED BY <2>1 DEF AuditExplainsStatus
<1>2. ArrivalsInOrder'
  BY DEF ArrivalsInOrder
<1>. QED BY <1>1, <1>2

-----------------------------------------------------------------------------
(* The channel *)

\* Sending appends what is newer than everything.
LEMMA SentLast ==
  ASSUME TypeOK, ChannelAscends, NEW id \in Ids, Send(id)
  PROVE  /\ channel' \in Seq(Change) /\ Len(channel') <= MaxPending
         /\ ChannelAscends'
         /\ \A v \in Nat : Below(v) => Below(v)'
         /\ \A v : (\E i \in 1 .. Len(channel) : channel[i].version = v)
                     => \E i \in 1 .. Len(channel') : channel'[i].version = v
         /\ \E i \in 1 .. Len(channel') : channel'[i].version = sent'
<1>. DEFINE c == [id |-> id, version |-> sent + 1]
<1>1. sent \in Nat /\ sent' = sent + 1 /\ sent' \in Versions
  BY GatewayAssumption DEF TypeOK, Send, Versions
<1>2. c \in Change /\ channel \in Seq(Change) /\ channel' = Append(channel, c)
  BY <1>1 DEF Change, TypeOK, Send
<1>3. /\ channel' \in Seq(Change) /\ Len(channel) \in Nat
      /\ Len(channel') = Len(channel) + 1 /\ channel'[Len(channel) + 1] = c
      /\ \A i \in 1 .. Len(channel) : channel'[i] = channel[i]
  BY <1>2, AppendProperties, LenProperties
<1>4. c.version = sent + 1
  OBVIOUS
<1>5. \A i \in 1 .. Len(channel) : channel[i].version \in Nat
  <2>1. \A i \in 1 .. Len(channel) : channel[i] \in Change
    BY <1>2, LenProperties
  <2>. QED BY <2>1 DEF Change, Versions
<1>. HIDE DEF c
<1>6. Len(channel') <= MaxPending
  BY <1>3, GatewayAssumption DEF Send
<1>7. ChannelAscends'
  <2>1. \A i \in 1 .. Len(channel') :
           i \in 1 .. Len(channel) \/ (i = Len(channel) + 1 /\ channel'[i].version = sent')
    BY <1>1, <1>3, <1>4
  <2>2. \A i \in 1 .. Len(channel) : channel[i].version < sent'
    BY <1>1, <1>5 DEF ChannelAscends
  <2>3. \A i \in 1 .. Len(channel') : channel'[i].version <= sent'
    BY <1>1, <1>3, <1>5, <2>1, <2>2
  <2>4. ASSUME NEW i \in 1 .. Len(channel'), NEW j \in 1 .. Len(channel'), i < j
        PROVE  channel'[i].version < channel'[j].version
    <3>1. i \in 1 .. Len(channel) /\ channel'[i] = channel[i]
      BY <1>3, <2>4
    <3>. QED BY <1>3, <2>1, <2>2, <2>4, <3>1 DEF ChannelAscends
  <2>. QED BY <2>3, <2>4 DEF ChannelAscends
<1>8. \A v \in Nat : Below(v) => Below(v)'
  BY <1>1, <1>3, <1>4 DEF Below
<1>9. \A v : (\E i \in 1 .. Len(channel) : channel[i].version = v)
               => \E i \in 1 .. Len(channel') : channel'[i].version = v
  BY <1>3
<1>10. Len(channel) + 1 \in 1 .. Len(channel') /\ channel'[Len(channel) + 1].version = sent'
  BY <1>1, <1>3, <1>4
<1>. QED BY <1>3, <1>6, <1>7, <1>8, <1>9, <1>10

\* Receiving takes the oldest submission, which is then below all that is left.
LEMMA HeadTaken ==
  ASSUME TypeOK, ChannelAscends, channel # <<>>, channel' = Tail(channel),
         UNCHANGED sent, NEW head, head = Head(channel)
  PROVE  /\ head \in Change
         /\ channel' \in Seq(Change) /\ Len(channel') <= MaxPending
         /\ ChannelAscends'
         /\ Below(head.version)'
         /\ \A v \in Nat : Below(v) => Below(v)' /\ v < head.version
         /\ \A v : (\E i \in 1 .. Len(channel) : channel[i].version = v)
                     => \/ v = head.version
                        \/ \E i \in 1 .. Len(channel') : channel'[i].version = v
<1>. DEFINE n == Len(channel)
<1>1. channel \in Seq(Change) /\ n \in Nat /\ n > 0 /\ head = channel[1]
  BY EmptySeq, LenProperties, HeadTailProperties DEF TypeOK
<1>2. \A i \in 1 .. n : channel[i] \in Change
  BY <1>1, LenProperties
<1>3. \A i \in 1 .. n : channel[i].version \in Nat
  BY <1>2 DEF Change, Versions
<1>4. /\ channel' \in Seq(Change) /\ Len(channel') = n - 1
      /\ \A i \in 1 .. n - 1 : channel'[i] = channel[i + 1]
  BY <1>1, HeadTailProperties
<1>5. Len(channel') <= MaxPending
  BY <1>1, <1>4, GatewayAssumption DEF TypeOK
<1>6. ChannelAscends'
  <2>1. \A i \in 1 .. n - 1 : i + 1 \in 1 .. n
    BY <1>1
  <2>. QED BY <1>1, <1>3, <1>4, <2>1 DEF ChannelAscends
<1>7. Below(head.version)'
  <2>1. \A i \in 1 .. n - 1 : i + 1 \in 1 .. n /\ 1 < i + 1
    BY <1>1
  <2>2. \A i \in 1 .. n - 1 : head.version < channel'[i].version
    BY <1>1, <1>4, <2>1 DEF ChannelAscends
  <2>. QED BY <1>1, <1>4, <2>2 DEF ChannelAscends, Below
<1>8. \A v \in Nat : Below(v) => Below(v)' /\ v < head.version
  BY <1>1, <1>3, <1>4 DEF Below
<1>9. ASSUME NEW i \in 1 .. n, i # 1
      PROVE  \E j \in 1 .. Len(channel') : channel'[j].version = channel[i].version
  <2>1. i - 1 \in 1 .. n - 1 /\ channel'[i - 1] = channel[i]
    BY <1>1, <1>4, <1>9
  <2>. QED BY <1>4, <2>1
<1>. QED BY <1>1, <1>2, <1>4, <1>5, <1>6, <1>7, <1>8, <1>9

-----------------------------------------------------------------------------
(* Steps that leave channel, queue and log alone *)

LEMMA QuietPreserves ==
  ASSUME IInv, TypeOK', reviewer'.stage = "waiting" =>
                          reviewer'.saw <= shown[reviewer'.id],
         UNCHANGED <<channel, changes, audit, sent, origin, shown, unlogged, behind>>
  PROVE  IInv'
<1>1. QueueInv'
  BY DEF IInv, QueueInv, ChannelAscends, HandledFirst, Below, OneIdEach,
         ShownBefore, Accounted
<1>2. AuditExplainsStatus' /\ ArrivalsInOrder'
  BY LogStands DEF IInv
<1>. QED BY <1>1, <1>2 DEF IInv

LEMMA QuietStepsPreserve ==
  ASSUME IInv,
         \/ StartProcessor \/ Yield \/ Exit \/ NotFound
         \/ \E id \in Ids : Commit(id)
         \/ \E op \in Decisions, id \in Ids : TypeCommand(op, id)
         \/ UNCHANGED vars
  PROVE  IInv'
<1>0. TypeOK /\ (reviewer.stage = "waiting" => reviewer.saw <= shown[reviewer.id])
  BY DEF IInv, QueueInv, ShownBefore
<1>1. CASE StartProcessor \/ Yield \/ UNCHANGED vars
  <2>1. TypeOK'
    BY <1>0, <1>1 DEF TypeOK, StartProcessor, Yield, vars
  <2>. QED BY <1>0, <1>1, <2>1, QuietPreserves DEF StartProcessor, Yield, vars
<1>2. CASE Exit \/ NotFound
  <2>1. TypeOK' /\ reviewer'.stage # "waiting"
    BY <1>0, <1>2 DEF TypeOK, Exit, NotFound, Prompt
  <2>. QED BY <1>2, <2>1, QuietPreserves DEF Exit, NotFound
<1>3. ASSUME NEW id \in Ids, Commit(id) PROVE IInv'
  <2>1. TypeOK'
    BY <1>0, <1>3 DEF TypeOK, Commit
  <2>. QED BY <1>0, <1>3, <2>1, QuietPreserves DEF Commit
<1>4. ASSUME NEW op \in Decisions, NEW id \in Ids, TypeCommand(op, id) PROVE IInv'
  <2>1. reviewer' \in Waiting /\ shown[id] \in Nat
    BY <1>0, <1>4, GatewayAssumption DEF TypeOK, TypeCommand, Waiting
  <2>2. commands' \in 0 .. MaxCommands
    BY <1>0, <1>4, GatewayAssumption DEF TypeOK, TypeCommand
  <2>3. TypeOK'
    BY <1>0, <1>4, <2>1, <2>2 DEF TypeOK, TypeCommand
  <2>4. reviewer'.saw = shown[id] /\ reviewer'.id = id
    BY <1>4 DEF TypeCommand
  <2>. QED BY <1>4, <2>1, <2>3, <2>4, QuietPreserves DEF TypeCommand
<1>. QED BY <1>1, <1>2, <1>3, <1>4

-----------------------------------------------------------------------------
(* Sending and receiving *)

LEMMA SendPreserves ==
  ASSUME IInv, NEW id \in Ids, Send(id) PROVE IInv'
<1>0. TypeOK /\ QueueInv
  BY DEF IInv
<1>1. /\ channel' \in Seq(Change) /\ Len(channel') <= MaxPending
      /\ ChannelAscends'
      /\ \A v \in Nat : Below(v) => Below(v)'
      /\ \A v : (\E i \in 1 .. Len(channel) : channel[i].version = v)
                  => \E i \in 1 .. Len(channel') : channel'[i].version = v
      /\ \E i \in 1 .. Len(channel') : channel'[i].version = sent'
  BY <1>0, SentLast DEF QueueInv
<1>2. sent \in Nat /\ sent' = sent + 1 /\ sent' \in 0 .. MaxSends
  BY <1>0, GatewayAssumption DEF TypeOK, Send
<1>3. TypeOK'
  BY <1>0, <1>1, <1>2 DEF TypeOK, Send
<1>4. HandledFirst'
  <2>1. \A i \in 1 .. Len(origin) : origin[i].version \in Nat
    <3>1. \A i \in 1 .. Len(origin) : origin[i] \in Origin
      BY <1>0, LenProperties DEF TypeOK
    <3>. QED BY <3>1 DEF Origin, Versions
  <2>2. \A i \in DOMAIN changes : changes[i].version \in Nat
    BY <1>0 DEF TypeOK, Record, Versions
  <2>3. \A i \in Ids : shown[i] \in Nat
    BY <1>0 DEF TypeOK
  <2>. QED BY <1>0, <1>1, <2>1, <2>2, <2>3 DEF QueueInv, HandledFirst, Send
<1>5. OneIdEach' /\ ShownBefore'
  BY <1>0 DEF QueueInv, OneIdEach, ShownBefore, Send
<1>6. Accounted'
  BY <1>0, <1>1, <1>2 DEF QueueInv, Accounted, Send
<1>7. AuditExplainsStatus' /\ ArrivalsInOrder'
  BY LogStands DEF IInv, Send
<1>8. IsFiniteSet(DOMAIN changes')
  BY DEF IInv, Send
<1>. QED BY <1>1, <1>3, <1>4, <1>5, <1>6, <1>7, <1>8 DEF IInv, QueueInv

\* What a change taken out of the channel leaves behind: its arrival was logged
\* or is unlogged, so it is accounted for, and everything handled stays below
\* what is in the channel.
LEMMA TakenAccounted ==
  ASSUME IInv, channel # <<>>, channel' = Tail(channel), UNCHANGED sent,
         NEW head, head = Head(channel), NEW event,
         LoggedEach(event, head, TRUE)
  PROVE  /\ Accounted' /\ ArrivalsInOrder'
         /\ (\A i \in 1 .. Len(origin) : Below(origin[i].version))'
<1>0. TypeOK /\ QueueInv /\ ArrivalsInOrder
  BY DEF IInv
<1>1. /\ Below(head.version)'
      /\ \A v \in Nat : Below(v) => Below(v)' /\ v < head.version
      /\ \A v : (\E i \in 1 .. Len(channel) : channel[i].version = v)
                  => \/ v = head.version
                     \/ \E i \in 1 .. Len(channel') : channel'[i].version = v
  BY SMTT(30), <1>0, HeadTaken DEF QueueInv
<1>2. /\ Len(origin) \in Nat /\ Len(origin') \in {Len(origin), Len(origin) + 1}
      /\ \A i \in 1 .. Len(origin) : origin'[i] = origin[i]
      /\ Len(origin') = Len(origin) + 1 =>
           /\ origin'[Len(origin) + 1].version = head.version
           /\ origin'[Len(origin) + 1].arrival
      /\ Len(origin') = Len(origin) => head.version \in unlogged'
      /\ unlogged \subseteq unlogged'
  BY DEF LoggedEach
<1>3. \A i \in 1 .. Len(origin) : origin[i].version \in Nat
  <2>1. \A i \in 1 .. Len(origin) : origin[i] \in Origin
    BY <1>0, LenProperties DEF TypeOK
  <2>. QED BY <2>1 DEF Origin, Versions
<1>4. \A i \in 1 .. Len(origin) : origin[i].version < head.version
  BY <1>0, <1>1, <1>3 DEF QueueInv, HandledFirst
<1>5. ArrivalsInOrder'
  BY <1>0, <1>4, LoggedInOrder
<1>6. (\A i \in 1 .. Len(origin) : Below(origin[i].version))'
  <2>. SUFFICES ASSUME NEW i \in 1 .. Len(origin'), NEW v, v = origin'[i].version
                PROVE  Below(v)'
    OBVIOUS
  <2>1. CASE i \in 1 .. Len(origin)
    BY <1>0, <1>1, <1>2, <1>3, <2>1 DEF QueueInv, HandledFirst
  <2>2. CASE i \notin 1 .. Len(origin)
    BY <1>1, <1>2, <2>2
  <2>. QED BY <2>1, <2>2
<1>7. ASSUME NEW v \in 1 .. sent
      PROVE  \/ \E i \in 1 .. Len(channel') : channel'[i].version = v
             \/ v \in unlogged'
             \/ \E i \in 1 .. Len(origin') :
                   origin'[i].version = v /\ origin'[i].arrival
  <2>1. CASE \E i \in 1 .. Len(channel) : channel[i].version = v
    <3>1. CASE v = head.version
      BY <1>2, <3>1
    <3>. QED BY <1>1, <2>1, <3>1
  <2>2. CASE v \in unlogged
    BY <1>2, <2>2
  <2>3. CASE \E i \in 1 .. Len(origin) : origin[i].version = v /\ origin[i].arrival
    BY <1>2, <2>3
  <2>. QED BY <1>0, <2>1, <2>2, <2>3 DEF QueueInv, Accounted
<1>. QED BY <1>5, <1>6, <1>7 DEF Accounted

LEMMA RefusePreserves ==
  ASSUME IInv, channel # <<>>, channel' = Tail(channel),
         NEW outcome \in Outcomes, EndedUnless(outcome),
         Refuse(Head(channel), outcome),
         UNCHANGED <<reviewer, landed, sent, commands, restarts>>
  PROVE  IInv'
<1>0. TypeOK /\ QueueInv /\ AuditExplainsStatus
  BY DEF IInv
<1>1. PICK head : head = Head(channel)
  OBVIOUS
<1>2. /\ head \in Change
      /\ channel' \in Seq(Change) /\ Len(channel') <= MaxPending
      /\ ChannelAscends'
      /\ \A v \in Nat : Below(v) => Below(v)' /\ v < head.version
  BY <1>0, <1>1, HeadTaken DEF QueueInv
<1>3. AppendEntry("reject", head, TRUE, outcome) /\ UNCHANGED <<changes, shown>>
  BY <1>1 DEF Refuse
<1>4. LogType' /\ LoggedEach("reject", head, TRUE)
  BY <1>0, <1>2, <1>3, AppendLogsEach DEF Events
<1>5. /\ Accounted' /\ ArrivalsInOrder'
      /\ (\A i \in 1 .. Len(origin) : Below(origin[i].version))'
  BY <1>1, <1>4, TakenAccounted
<1>6. TypeOK'
  <2>1. processor' \in {"starting", "running", "ended"}
    BY DEF EndedUnless
  <2>. QED BY <1>0, <1>2, <1>3, <1>4, <2>1 DEF TypeOK, LogType
<1>7. \A id \in DOMAIN changes : changes[id].version \in Nat
  BY <1>0 DEF TypeOK, Record, Versions
<1>8. HandledFirst'
  <2>1. \A id \in Ids : shown[id] \in Nat
    BY <1>0 DEF TypeOK
  <2>. QED BY <1>0, <1>2, <1>3, <1>5, <1>7, <2>1 DEF QueueInv, HandledFirst
<1>9. OneIdEach' /\ ShownBefore'
  BY <1>0, <1>3 DEF QueueInv, OneIdEach, ShownBefore
<1>10. AuditExplainsStatus'
  <2>. SUFFICES ASSUME NEW id \in DOMAIN changes PROVE Explained(id)'
    BY <1>3 DEF AuditExplainsStatus, Explained
  <2>1. Explained(id)
    BY <1>0 DEF AuditExplainsStatus, Explained
  <2>2. changes[id].version # head.version
    BY <1>0, <1>2, <1>7 DEF QueueInv, HandledFirst
  <2>. QED BY <1>3, <1>4, <2>1, <2>2, OthersExplained
<1>11. IsFiniteSet(DOMAIN changes')
  BY <1>3 DEF IInv
<1>. QED BY <1>2, <1>5, <1>6, <1>8, <1>9, <1>10, <1>11 DEF IInv, QueueInv

LEMMA AcceptPreserves ==
  ASSUME IInv, channel # <<>>, channel' = Tail(channel), ~QueueFull,
         NEW outcome \in Outcomes, EndedUnless(outcome),
         Accept(Head(channel), outcome),
         UNCHANGED <<reviewer, landed, sent, commands, restarts>>
  PROVE  IInv'
<1>0. TypeOK /\ QueueInv /\ AuditExplainsStatus /\ IsFiniteSet(DOMAIN changes)
  BY DEF IInv
<1>1. PICK head : head = Head(channel)
  OBVIOUS
<1>2. /\ head \in Change
      /\ channel' \in Seq(Change) /\ Len(channel') <= MaxPending
      /\ ChannelAscends'
      /\ Below(head.version)'
      /\ \A v \in Nat : Below(v) => Below(v)' /\ v < head.version
  BY <1>0, <1>1, HeadTaken DEF QueueInv
<1>3. /\ AppendEntry("submitted", head, TRUE, outcome)
      /\ head.id \in Ids /\ head.version \in Versions /\ head.version \in Nat
  <2>1. AppendEntry("submitted", head, TRUE, outcome)
    BY <1>1 DEF Accept
  <2>2. head.id \in Ids /\ head.version \in Versions /\ head.version \in Nat
    BY <1>2 DEF Change, Versions
  <2>. QED BY <2>1, <2>2
<1>4. LogType' /\ LoggedEach("submitted", head, TRUE)
  BY <1>0, <1>2, <1>3, AppendLogsEach DEF Events
<1>5. /\ Accounted' /\ ArrivalsInOrder'
      /\ (\A i \in 1 .. Len(origin) : Below(origin[i].version))'
  BY <1>1, <1>4, TakenAccounted
<1>6. /\ DOMAIN changes' = DOMAIN changes \cup {head.id}
      /\ changes'[head.id] = [status |-> "pending", version |-> head.version]
      /\ \A id \in DOMAIN changes : id # head.id => changes'[id] = changes[id]
      /\ changes' \in [DOMAIN changes' -> Record]
  BY <1>0, <1>1, <1>3 DEF Accept, Entered, TypeOK, Record
<1>7. IsFiniteSet(DOMAIN changes') /\ Cardinality(DOMAIN changes') <= MaxPending
  <2>1. IsFiniteSet(DOMAIN changes \cup {head.id})
        /\ Cardinality(DOMAIN changes \cup {head.id})
             = IF head.id \in DOMAIN changes THEN Cardinality(DOMAIN changes)
                                             ELSE Cardinality(DOMAIN changes) + 1
    <3>1. IsFiniteSet(DOMAIN changes)
      BY <1>0
    <3>. QED BY <3>1, FS_AddElement
  <2>2. Cardinality(DOMAIN changes) \in Nat
    BY <1>0, FS_CardinalityType
  <2>3. Cardinality(DOMAIN changes) < MaxPending
    BY <2>2, GatewayAssumption DEF QueueFull
  <2>. QED BY <1>6, <2>1, <2>2, <2>3, GatewayAssumption
<1>8. shown' \in {shown, [shown EXCEPT ![head.id] = head.version]}
  BY <1>1 DEF Accept
<1>9. /\ shown' \in [Ids -> 0 .. MaxSends]
      /\ \A id \in Ids : shown'[id] = shown[id] \/ (id = head.id /\ shown'[id] = head.version)
  BY <1>0, <1>3, <1>8 DEF TypeOK, Versions
<1>10. TypeOK'
  <2>1. processor' \in {"starting", "running", "ended"}
    BY DEF EndedUnless
  <2>. QED BY <1>0, <1>2, <1>3, <1>4, <1>6, <1>7, <1>9, <2>1 DEF TypeOK, LogType
<1>11. /\ \A id \in DOMAIN changes : changes[id].version \in Nat
       /\ \A id \in Ids : shown[id] \in Nat
  BY <1>0 DEF TypeOK, Record, Versions
<1>12. /\ \A id \in DOMAIN changes : changes[id].version < head.version
       /\ \A id \in Ids : shown[id] < head.version
  BY <1>0, <1>2, <1>11 DEF QueueInv, HandledFirst
<1>13. HandledFirst'
  <2>1. (\A id \in DOMAIN changes : Below(changes[id].version))'
    <3>. SUFFICES ASSUME NEW id \in DOMAIN changes', NEW v, v = changes'[id].version
                  PROVE  Below(v)'
      OBVIOUS
    <3>1. CASE id = head.id
      BY <1>2, <1>6, <3>1
    <3>2. CASE id # head.id
      BY <1>0, <1>2, <1>6, <1>11, <3>2 DEF QueueInv, HandledFirst
    <3>. QED BY <3>1, <3>2
  <2>2. (\A id \in Ids : Below(shown[id]))'
    <3>. SUFFICES ASSUME NEW id \in Ids, NEW v, v = shown'[id] PROVE Below(v)'
      OBVIOUS
    <3>. QED BY <1>0, <1>2, <1>9, <1>11 DEF QueueInv, HandledFirst
  <2>. QED BY <1>5, <2>1, <2>2 DEF HandledFirst
<1>14. OneIdEach'
  BY <1>0, <1>6, <1>11, <1>12, <1>3 DEF QueueInv, OneIdEach
<1>15. ShownBefore'
  <2>1. \A id \in DOMAIN changes' : shown'[id] <= changes'[id].version
    BY <1>0, <1>3, <1>6, <1>9, <1>11, <1>12 DEF QueueInv, ShownBefore, TypeOK
  <2>2. ASSUME reviewer.stage = "waiting"
        PROVE  reviewer.saw <= shown'[reviewer.id]
    <3>1. reviewer.id \in Ids /\ reviewer.saw \in Nat
      BY <1>0, <2>2 DEF TypeOK, Waiting, Prompt
    <3>. QED BY <1>0, <1>3, <1>9, <1>11, <1>12, <2>2, <3>1 DEF QueueInv, ShownBefore
  <2>. QED BY <2>1, <2>2 DEF ShownBefore
<1>16. AuditExplainsStatus'
  <2>. SUFFICES ASSUME NEW id \in DOMAIN changes' PROVE Explained(id)'
    BY DEF AuditExplainsStatus, Explained
  <2>1. CASE id = head.id
    <3>1. StatusAfter("submitted") = "pending"
      BY DEF StatusAfter
    <3>2. changes'[id].status = "pending" /\ changes'[id].version = head.version
      BY <1>6, <2>1
    <3>. QED BY <1>4, <2>1, <3>1, <3>2, NewlyExplained
  <2>2. CASE id # head.id
    <3>1. id \in DOMAIN changes /\ changes'[id] = changes[id] /\ Explained(id)
      BY <1>0, <1>6, <2>2 DEF AuditExplainsStatus, Explained
    <3>2. changes[id].version # head.version
      BY <1>3, <1>11, <1>12, <3>1
    <3>. QED BY <1>4, <2>2, <3>1, <3>2, OthersExplained
  <2>. QED BY <2>1, <2>2
<1>. QED BY <1>2, <1>5, <1>7, <1>10, <1>13, <1>14, <1>15, <1>16 DEF IInv, QueueInv

\* The task takes a change: queued and shown, or refused, and logged or not.
LEMMA HandleIncomingChangePreserves ==
  ASSUME IInv, HandleIncomingChange PROVE IInv'
<1>1. PICK outcome \in Outcomes :
        /\ EndedUnless(outcome)
        /\ IF QueueFull THEN Refuse(Head(channel), outcome)
                        ELSE Accept(Head(channel), outcome)
  BY DEF HandleIncomingChange
<1>2. /\ channel # <<>> /\ channel' = Tail(channel)
      /\ UNCHANGED <<reviewer, landed, sent, commands, restarts>>
  BY DEF HandleIncomingChange
<1>3. CASE QueueFull
  BY <1>1, <1>2, <1>3, RefusePreserves
<1>4. CASE ~QueueFull
  BY <1>1, <1>2, <1>4, AcceptPreserves
<1>. QED BY <1>3, <1>4

-----------------------------------------------------------------------------
(* Decisions, commits and restarts *)

\* A record gets a new status and the log an entry about it: no other record
\* has its version or its id, so only the explanation of this one changes.
LEMMA StatusSetPreserves ==
  ASSUME IInv, NEW id \in DOMAIN changes, NEW event \in {"approve", "reject", "commit"},
         NEW outcome \in Outcomes, AppendEntry(event, Current(id), FALSE, outcome),
         changes' = [changes EXCEPT ![id].status = StatusAfter(event)],
         UNCHANGED <<channel, landed, sent, restarts, commands, processor, shown>>,
         reviewer' \in {reviewer, Prompt}
  PROVE  IInv'
<1>0. /\ TypeOK /\ QueueInv /\ AuditExplainsStatus /\ ArrivalsInOrder
      /\ IsFiniteSet(DOMAIN changes)
  BY DEF IInv
<1>. DEFINE version == changes[id].version
            record == [status |-> StatusAfter(event), version |-> version]
<1>1. /\ Current(id) \in Change /\ version \in Versions
      /\ Current(id).version = version /\ Current(id).id = id
  BY <1>0 DEF TypeOK, Record, Current, Change
<1>2. LogType' /\ LoggedEach(event, Current(id), FALSE)
  BY <1>0, <1>1, AppendLogsEach DEF Events
<1>3. record \in Record
  BY <1>1 DEF Record, StatusAfter
<1>4. changes' = [changes EXCEPT ![id] = record]
  <2>1. changes[id] \in Record
    BY <1>0 DEF TypeOK
  <2>2. [changes[id] EXCEPT !.status = StatusAfter(event)] = record
    BY <2>1 DEF Record
  <2>. QED BY <2>2
<1>5. record.status = StatusAfter(event) /\ record.version = version
  OBVIOUS
<1>. HIDE DEF record
<1>6. /\ DOMAIN changes' = DOMAIN changes /\ changes'[id] = record
      /\ \A other \in DOMAIN changes : other # id => changes'[other] = changes[other]
      /\ changes' \in [DOMAIN changes' -> Record]
  BY <1>0, <1>3, <1>4 DEF TypeOK
<1>7. \A other \in DOMAIN changes : changes'[other].version = changes[other].version
  <2>. SUFFICES ASSUME NEW other \in DOMAIN changes
                PROVE  changes'[other].version = changes[other].version
    OBVIOUS
  <2>1. CASE other = id
    BY <1>5, <1>6, <2>1
  <2>2. CASE other # id
    BY <1>6, <2>2
  <2>. QED BY <2>1, <2>2
<1>8. reviewer'.stage = "waiting" => reviewer' = reviewer
  BY DEF Prompt
<1>9. TypeOK'
  <2>1. reviewer' \in {Prompt, [stage |-> "exited"]} \cup Waiting
    BY <1>0 DEF TypeOK
  <2>. QED BY <1>0, <1>2, <1>6, <2>1 DEF TypeOK, LogType
<1>10. HandledFirst'
  <2>1. \A v : Below(v) => Below(v)'
    BY DEF Below
  <2>2. (\A i \in 1 .. Len(origin) : Below(origin[i].version))'
    <3>. SUFFICES ASSUME NEW i \in 1 .. Len(origin') PROVE Below(origin'[i].version)
      BY <2>1
    <3>1. CASE i \in 1 .. Len(origin)
      BY <1>0, <1>2, <3>1 DEF LoggedEach, QueueInv, HandledFirst
    <3>2. CASE i \notin 1 .. Len(origin)
      <4>1. origin'[i].version = version
        BY <1>1, <1>2, <3>2 DEF LoggedEach
      <4>. QED BY <1>0, <4>1 DEF QueueInv, HandledFirst
    <3>. QED BY <3>1, <3>2
  <2>3. (\A i \in DOMAIN changes : Below(changes[i].version))'
    BY <1>0, <1>6, <1>7, <2>1 DEF QueueInv, HandledFirst
  <2>4. (\A i \in Ids : Below(shown[i]))'
    BY <1>0, <2>1 DEF QueueInv, HandledFirst
  <2>. QED BY <2>2, <2>3, <2>4 DEF HandledFirst
<1>11. ChannelAscends' /\ OneIdEach' /\ ShownBefore'
  BY <1>0, <1>6, <1>7, <1>8 DEF QueueInv, ChannelAscends, OneIdEach, ShownBefore
<1>12. Accounted'
  <2>1. /\ unlogged \subseteq unlogged'
        /\ \A i \in 1 .. Len(origin) :
             i \in 1 .. Len(origin') /\ origin'[i] = origin[i]
    BY <1>2 DEF LoggedEach
  <2>. QED BY <1>0, <2>1 DEF QueueInv, Accounted
<1>13. AuditExplainsStatus'
  <2>. SUFFICES ASSUME NEW other \in DOMAIN changes PROVE Explained(other)'
    BY <1>6 DEF AuditExplainsStatus, Explained
  <2>1. CASE other = id
    BY <1>1, <1>2, <1>5, <1>6, <2>1, NewlyExplained
  <2>2. CASE other # id
    <3>1. Explained(other) /\ changes'[other] = changes[other]
      BY <1>0, <1>6, <2>2 DEF AuditExplainsStatus, Explained
    <3>2. changes[other].version # version
      BY <1>0, <2>2 DEF QueueInv, OneIdEach
    <3>. QED BY <1>1, <1>2, <2>2, <3>1, <3>2, OthersExplained
  <2>. QED BY <2>1, <2>2
<1>14. ArrivalsInOrder'
  BY <1>0, <1>2, LoggedInOrder
<1>. QED BY <1>0, <1>6, <1>9, <1>10, <1>11, <1>12, <1>13, <1>14 DEF IInv, QueueInv

\* A decision gets the lock.
LEMMA DecidePreserves ==
  ASSUME IInv, Decide PROVE IInv'
<1>1. /\ reviewer.stage = "waiting" /\ reviewer.id \in DOMAIN changes
      /\ reviewer' = Prompt
      /\ UNCHANGED <<channel, processor, landed, sent, commands, restarts, shown>>
  BY DEF Decide
<1>2. reviewer.op \in {"approve", "reject"}
  BY <1>1 DEF IInv, TypeOK, Prompt, Waiting, Decisions
<1>3. StatusOf(reviewer.op) = StatusAfter(reviewer.op)
  BY <1>2 DEF StatusOf, StatusAfter
<1>4. PICK outcome \in Outcomes :
        AppendEntry(reviewer.op, Current(reviewer.id), FALSE, outcome)
  BY DEF Decide
<1>5. changes' = [changes EXCEPT ![reviewer.id].status = StatusAfter(reviewer.op)]
  BY <1>3 DEF Decide
<1>. QED BY <1>1, <1>2, <1>4, <1>5, StatusSetPreserves

LEMMA MarkCommittedPreserves ==
  ASSUME IInv, NEW id \in Ids, MarkCommitted(id) PROVE IInv'
<1>1. PICK outcome \in Outcomes : AppendEntry("commit", Current(id), FALSE, outcome)
  BY DEF MarkCommitted
<1>2. /\ id \in DOMAIN changes
      /\ changes' = [changes EXCEPT ![id].status = "committed"]
      /\ UNCHANGED <<channel, processor, reviewer, landed, sent, commands, restarts,
                     shown>>
  BY DEF MarkCommitted
<1>3. StatusAfter("commit") = "committed"
  BY DEF StatusAfter
<1>. QED BY <1>1, <1>2, <1>3, StatusSetPreserves

\* A restart empties channel and queue; what was in the channel is unlogged,
\* what was in the queue had been logged.
LEMMA RestartPreserves ==
  ASSUME IInv, Restart PROVE IInv'
<1>0. TypeOK /\ QueueInv
  BY DEF IInv
<1>1. /\ channel' = <<>> /\ changes' = <<>> /\ reviewer' = Prompt
      /\ unlogged' = unlogged \cup {channel[i].version : i \in 1 .. Len(channel)}
      /\ UNCHANGED <<landed, audit, tail, sent, commands, origin, shown, behind>>
  BY DEF Restart
<1>2. DOMAIN changes' = {} /\ Len(channel') = 0 /\ channel' \in Seq(Change)
  BY <1>1
<1>3. IsFiniteSet(DOMAIN changes') /\ Cardinality(DOMAIN changes') = 0
  BY <1>2, FS_EmptySet
<1>4. \A i \in 1 .. Len(channel) : channel[i].version \in Versions
  <2>1. \A i \in 1 .. Len(channel) : channel[i] \in Change
    BY <1>0, LenProperties DEF TypeOK
  <2>. QED BY <2>1 DEF Change
<1>5. restarts' \in 0 .. MaxRestarts
  BY <1>0, GatewayAssumption DEF TypeOK, Restart
<1>6. TypeOK'
  <2>1. changes' \in [DOMAIN changes' -> Record]
    BY <1>1
  <2>2. processor' = "starting"
    BY DEF Restart
  <2>. QED BY <1>0, <1>1, <1>2, <1>3, <1>4, <1>5, <2>1, <2>2, GatewayAssumption
         DEF TypeOK
<1>7. ChannelAscends' /\ OneIdEach' /\ ShownBefore' /\ AuditExplainsStatus'
  BY <1>1, <1>2 DEF ChannelAscends, OneIdEach, ShownBefore, AuditExplainsStatus, Prompt
<1>8. HandledFirst'
  <2>1. \A v : Below(v) => Below(v)'
    BY <1>1, <1>2 DEF Below
  <2>. QED BY <1>0, <1>1, <1>2, <2>1 DEF QueueInv, HandledFirst
<1>9. Accounted'
  BY <1>0, <1>1 DEF QueueInv, Accounted
<1>10. ArrivalsInOrder'
  BY <1>1 DEF IInv, ArrivalsInOrder
<1>. QED BY <1>3, <1>6, <1>7, <1>8, <1>9, <1>10 DEF IInv, QueueInv

-----------------------------------------------------------------------------
(* The theorems *)

LEMMA InitIInv == Init => IInv
<1>. SUFFICES ASSUME Init PROVE IInv
  OBVIOUS
<1>1. /\ DOMAIN changes = {} /\ channel = <<>> /\ audit = <<>> /\ origin = <<>>
      /\ Len(channel) = 0 /\ Len(audit) = 0 /\ Len(origin) = 0
      /\ sent = 0 /\ reviewer = Prompt
      /\ \A id \in Ids : shown[id] = 0
  BY DEF Init
<1>2. IsFiniteSet(DOMAIN changes) /\ Cardinality(DOMAIN changes) = 0
  BY <1>1, FS_EmptySet
<1>3. TypeOK
  <2>1. channel \in Seq(Change) /\ audit \in Seq(Entry) /\ origin \in Seq(Origin)
    BY <1>1
  <2>2. changes \in [DOMAIN changes -> Record]
    BY DEF Init
  <2>. QED BY <1>1, <1>2, <2>1, <2>2, GatewayAssumption DEF Init, TypeOK
<1>4. QueueInv
  BY <1>1 DEF QueueInv, ChannelAscends, HandledFirst, Below, OneIdEach,
              ShownBefore, Accounted, Prompt
<1>5. AuditExplainsStatus /\ ArrivalsInOrder
  BY <1>1 DEF AuditExplainsStatus, ArrivalsInOrder
<1>. QED BY <1>2, <1>3, <1>4, <1>5 DEF IInv

LEMMA NextPreserves == IInv /\ [Next]_vars => IInv'
<1>. SUFFICES ASSUME IInv, [Next]_vars PROVE IInv'
  OBVIOUS
<1>1. CASE \/ StartProcessor \/ Yield \/ Exit \/ NotFound \/ UNCHANGED vars
           \/ \E id \in Ids : Commit(id)
           \/ \E op \in Decisions, id \in Ids : TypeCommand(op, id)
  BY <1>1, QuietStepsPreserve
<1>2. ASSUME NEW id \in Ids, Send(id) PROVE IInv'
  BY <1>2, SendPreserves
<1>3. CASE HandleIncomingChange
  BY <1>3, HandleIncomingChangePreserves
<1>4. CASE Decide
  BY <1>4, DecidePreserves
<1>5. ASSUME NEW id \in Ids, MarkCommitted(id) PROVE IInv'
  BY <1>5, MarkCommittedPreserves
<1>6. CASE Restart
  BY <1>6, RestartPreserves
<1>. QED BY <1>1, <1>2, <1>3, <1>4, <1>5, <1>6 DEF Next

LEMMA Invariance == Spec => []IInv
<1>. QED BY InitIInv, NextPreserves, PTL DEF Spec

\* Channel and queue never hold more than --max-pending (submit_change's
\* bounded channel, the check in handle_incoming_change), and the log consists
\* of whole entries.
THEOREM GatewayTypeCorrect == Spec => []TypeOK
<1>1. IInv => TypeOK
  BY DEF IInv
<1>. QED BY <1>1, Invariance, PTL

\* By the ids of the file, the status in memory is the one of the last entry
\* about the change, or of the last before refusals of later submissions with its
\* id, unless the latest append about it failed (approve_change, reject_change,
\* mark_committed, handle_incoming_change).
THEOREM AuditCorrect == Spec => []AuditExplainsStatus
<1>1. IInv => AuditExplainsStatus
  BY DEF IInv
<1>. QED BY <1>1, Invariance, PTL

\* process_queue logs the arrivals in the order in which they were sent, and
\* whatever else is logged about a change after its arrival.
THEOREM OrderCorrect == Spec => []ArrivalsInOrder
<1>1. IInv => ArrivalsInOrder
  BY DEF IInv
<1>. QED BY <1>1, Invariance, PTL

\* A decision is on what the reviewer saw, or on a later submission
\* (approve_change, handle_incoming_change): the screen is not newer than the
\* queue, nor what the reviewer saw than the screen.
THEOREM DecisionsCorrect == Spec => []DecidedNotOlder
<1>1. IInv => DecidedNotOlder
  <2>. SUFFICES ASSUME IInv, reviewer.stage = "waiting",
                       reviewer.id \in DOMAIN changes
                PROVE  reviewer.saw <= changes[reviewer.id].version
    BY DEF DecidedNotOlder
  <2>1. /\ reviewer.saw <= shown[reviewer.id]
        /\ shown[reviewer.id] <= changes[reviewer.id].version
    BY DEF IInv, QueueInv, ShownBefore
  <2>2. /\ reviewer.id \in Ids /\ reviewer.saw \in Nat
        /\ shown[reviewer.id] \in Nat /\ changes[reviewer.id].version \in Nat
    BY DEF IInv, TypeOK, Prompt, Waiting, Record, Versions
  <2>. QED BY <2>1, <2>2
<1>. QED BY <1>1, Invariance, PTL

\* Every submission is in the channel, or has exactly one arrival entry, or an
\* append or a restart lost it (process_queue, handle_incoming_change).
THEOREM AccountedCorrect == Spec => []ArrivalsAccounted
<1>1. IInv => ArrivalsAccounted
  <2>. SUFFICES ASSUME IInv, NEW version \in 1 .. sent
                PROVE  LET queued == \E i \in 1 .. Len(channel) :
                                       channel[i].version = version
                           logged == {i \in 1 .. Len(origin) :
                                        origin[i].arrival /\ origin[i].version = version}
                       IN  /\ Cardinality(logged) <= 1
                           /\ queued => logged = {}
                           /\ ~queued /\ version \notin unlogged => logged # {}
    BY DEF ArrivalsAccounted
  <2>. DEFINE queued == \E i \in 1 .. Len(channel) : channel[i].version = version
              logged == {i \in 1 .. Len(origin) :
                           origin[i].arrival /\ origin[i].version = version}
  <2>0. TypeOK /\ QueueInv /\ ArrivalsInOrder /\ Len(origin) \in Nat
    BY LenProperties DEF IInv, TypeOK
  <2>1. Cardinality(logged) <= 1
    <3>1. ASSUME NEW i \in logged, NEW j \in logged PROVE i = j
      <4>1. /\ i \in 1 .. Len(origin) /\ j \in 1 .. Len(origin)
            /\ origin[i].version = version /\ origin[j].version = version
            /\ origin[i].arrival /\ origin[j].arrival
        OBVIOUS
      <4>2. ~(version < version)
        BY <2>0 DEF TypeOK
      <4>3. ~(i < j)
        BY <2>0, <4>1, <4>2 DEF ArrivalsInOrder
      <4>4. ~(j < i)
        BY <2>0, <4>1, <4>2 DEF ArrivalsInOrder
      <4>. QED BY <2>0, <4>1, <4>3, <4>4
    <3>2. CASE logged = {}
      BY <3>2, FS_EmptySet
    <3>3. CASE logged # {}
      <4>1. PICK i \in logged : TRUE
        BY <3>3
      <4>2. logged = {i}
        BY <3>1, <4>1
      <4>. HIDE DEF logged
      <4>3. Cardinality({i}) = 1
        BY FS_Singleton
      <4>. QED BY <4>2, <4>3
    <3>. QED BY <3>2, <3>3
  <2>2. ASSUME queued PROVE logged = {}
    <3>1. PICK k \in 1 .. Len(channel) : channel[k].version = version
      BY <2>2
    <3>2. ASSUME NEW i \in logged PROVE FALSE
      <4>1. i \in 1 .. Len(origin) /\ origin[i].version = version
        OBVIOUS
      <4>2. version < channel[k].version
        BY <2>0, <4>1 DEF QueueInv, HandledFirst, Below
      <4>3. sent \in Nat
        BY <2>0 DEF TypeOK
      <4>. QED BY <3>1, <4>2, <4>3
    <3>. QED BY <3>2
  <2>3. ASSUME ~queued, version \notin unlogged PROVE logged # {}
    BY <2>0, <2>3 DEF QueueInv, Accounted
  <2>. QED BY <2>1, <2>2, <2>3
<1>. QED BY <1>1, Invariance, PTL
=============================================================================
