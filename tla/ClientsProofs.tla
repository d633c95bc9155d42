--------------------------- MODULE ClientsProofs ---------------------------
(* What the clients keep, for every number of commands in flight, clicks,  *)
(* changes and faults.                                                     *)
EXTENDS Clients, FiniteSetTheorems, SequenceTheorems, TLAPS

-----------------------------------------------------------------------------
(* Counting in a queue *)

LEMMA HowManyIsNat ==
    ASSUME NEW T, NEW seq \in Seq(T), NEW S
    PROVE  /\ HowMany(seq, S) \in Nat
           /\ IsFiniteSet({i \in DOMAIN seq : seq[i] \in S})
<1>1. DOMAIN seq = 1..Len(seq) /\ Len(seq) \in Nat
  OBVIOUS
<1>2. IsFiniteSet(1..Len(seq))
  BY <1>1, FS_Interval
<1>3. IsFiniteSet({i \in DOMAIN seq : seq[i] \in S})
  BY <1>1, <1>2, FS_Subset
<1> QED BY <1>3, FS_CardinalityType DEF HowMany

LEMMA HowManyInEmpty == ASSUME NEW S PROVE HowMany(<<>>, S) = 0
<1>1. {i \in DOMAIN <<>> : <<>>[i] \in S} = {}
  OBVIOUS
<1> QED BY <1>1, FS_EmptySet DEF HowMany

LEMMA HowManyInAppend ==
    ASSUME NEW T, NEW seq \in Seq(T), NEW e \in T, NEW S
    PROVE  HowMany(Append(seq, e), S) =
               IF e \in S THEN HowMany(seq, S) + 1 ELSE HowMany(seq, S)
<1> DEFINE at == {i \in DOMAIN seq : seq[i] \in S}
           new == Append(seq, e)
           atNew == {i \in DOMAIN new : new[i] \in S}
<1>1. /\ new \in Seq(T) /\ Len(new) = Len(seq) + 1
      /\ \A i \in 1..Len(seq) : new[i] = seq[i]
      /\ new[Len(seq) + 1] = e
      /\ DOMAIN seq = 1..Len(seq) /\ DOMAIN new = 1..(Len(seq) + 1)
      /\ Len(seq) \in Nat
  <2>1. /\ new \in Seq(T) /\ Len(new) = Len(seq) + 1
        /\ \A i \in 1..Len(seq) : new[i] = seq[i]
        /\ new[Len(seq) + 1] = e
    BY AppendProperties
  <2>2. Len(seq) \in Nat /\ DOMAIN seq = 1..Len(seq)
    OBVIOUS
  <2>3. DOMAIN new = 1..Len(new)
    BY <2>1, LenProperties
  <2> QED BY <2>1, <2>2, <2>3
<1>2. IsFiniteSet(at) /\ Len(seq) + 1 \notin at
  <2>1. IsFiniteSet(at)
    BY HowManyIsNat
  <2>2. Len(seq) + 1 \notin DOMAIN seq
    BY <1>1
  <2> QED BY <2>1, <2>2
<1> HIDE DEF new
<1>3. CASE e \in S
  <2>1. atNew = at \cup {Len(seq) + 1}
    BY <1>1, <1>3
  <2> QED BY <1>2, <1>3, <2>1, FS_AddElement DEF HowMany, new
<1>4. CASE e \notin S
  <2>1. atNew = at
    BY <1>1, <1>4
  <2> QED BY <1>4, <2>1 DEF HowMany, new
<1> QED BY <1>3, <1>4

LEMMA HowManyInTail ==
    ASSUME NEW T, NEW seq \in Seq(T), seq # <<>>, NEW S
    PROVE  HowMany(seq, S) =
               IF Head(seq) \in S THEN HowMany(Tail(seq), S) + 1
                                  ELSE HowMany(Tail(seq), S)
<1> DEFINE tail == Tail(seq)
           at == {i \in DOMAIN tail : tail[i] \in S}
           moved == {i \in DOMAIN seq : i > 1 /\ seq[i] \in S}
           all == {i \in DOMAIN seq : seq[i] \in S}
           f == [i \in at |-> i + 1]
<1>1. /\ DOMAIN seq = 1..Len(seq) /\ Len(seq) \in Nat \ {0}
      /\ tail \in Seq(T) /\ DOMAIN tail = 1..(Len(seq) - 1)
      /\ \A i \in 1..(Len(seq) - 1) : tail[i] = seq[i + 1]
      /\ Head(seq) = seq[1]
  BY HeadTailProperties, EmptySeq
<1> HIDE DEF tail
<1>2. f \in Bijection(at, moved)
  <2>1. f \in [at -> moved]
    BY <1>1
  <2>2. \A i, j \in at : f[i] = f[j] => i = j
    BY <1>1
  <2>3. \A k \in moved : \E i \in at : f[i] = k
    <3> TAKE k \in moved
    <3>1. k - 1 \in at /\ f[k - 1] = k
      BY <1>1
    <3> QED BY <3>1
  <2> QED
    BY <2>1, <2>2, <2>3
       DEF Bijection, Injection, Surjection, IsInjective
<1>3. IsFiniteSet(at) /\ Cardinality(moved) = Cardinality(at)
      /\ IsFiniteSet(moved)
  <2>1. IsFiniteSet(at)
    BY <1>1, HowManyIsNat
  <2> QED BY <1>2, <2>1, FS_Bijection DEF ExistsBijection
<1>4. 1 \notin moved
  OBVIOUS
<1>5. CASE Head(seq) \in S
  <2>1. all = moved \cup {1}
    BY <1>1, <1>5
  <2> QED BY <1>3, <1>4, <1>5, <2>1, FS_AddElement DEF HowMany, tail
<1>6. CASE Head(seq) \notin S
  <2>1. all = moved
    BY <1>1, <1>6
  <2> QED BY <1>3, <1>6, <2>1 DEF HowMany, tail
<1> QED BY <1>5, <1>6
-----------------------------------------------------------------------------
(* The widget *)

LinkTypes ==
    /\ sock \in {"none", "connecting", "up", "down"} /\ posted \in BOOLEAN
    /\ outstanding \in 0..maxOutstanding
    /\ handshake \in BOOLEAN /\ deadline \in BOOLEAN
    /\ reconnect \in BOOLEAN /\ ticking \in BOOLEAN
BackoffTypes == backoff \in 1..maxBackoff
ShownTypes ==
    /\ real \in Values \cup {Blank} /\ pending \in Values \cup {None}
    /\ val \in Values /\ told \in Values \cup {None}
PipeTypes ==
    /\ toDaemon \in Seq(Requests) /\ toWidget \in Seq(Lines)
    /\ open \in BOOLEAN /\ subscribed \in BOOLEAN
BoundTypes ==
    /\ daemon \in {"up", "busy", "hung", "down"}
    /\ inputs \in 0..MaxInputs /\ faults \in 0..MaxFaults

LEMMA TypesInParts ==
    WidgetTypeOK
        <=> LinkTypes /\ BackoffTypes /\ ShownTypes /\ PipeTypes /\ BoundTypes
BY DEF WidgetTypeOK, LinkTypes, BackoffTypes, ShownTypes, PipeTypes, BoundTypes

LEMMA TypesInPartsNext ==
    (LinkTypes /\ BackoffTypes /\ ShownTypes /\ PipeTypes /\ BoundTypes)'
        => WidgetTypeOK'
BY DEF WidgetTypeOK, LinkTypes, BackoffTypes, ShownTypes, PipeTypes, BoundTypes

LEMMA BoundsTyped ==
    /\ 0 \in 0..maxOutstanding /\ 1 \in 1..maxBackoff
    /\ 0 \in 0..MaxInputs /\ 0 \in 0..MaxFaults
    /\ \A n \in 0..maxOutstanding :
          n < maxOutstanding => n + 1 \in 0..maxOutstanding
    /\ \A n \in 0..maxOutstanding : n > 0 => n - 1 \in 0..maxOutstanding
<1>1. /\ maxOutstanding \in Nat \ {0} /\ maxBackoff \in Nat \ {0}
      /\ MaxInputs \in Nat /\ MaxFaults \in Nat
  BY WidgetAssumption
<1> QED BY <1>1

LEMMA QueuesTyped ==
    ASSUME PipeTypes
    PROVE  /\ \A r \in Requests : Append(toDaemon, r) \in Seq(Requests)
           /\ \A l \in Lines : Append(toWidget, l) \in Seq(Lines)
           /\ toDaemon # <<>> => /\ Head(toDaemon) \in Requests
                                 /\ Tail(toDaemon) \in Seq(Requests)
           /\ toWidget # <<>> => /\ Head(toWidget) \in Lines
                                 /\ Tail(toWidget) \in Seq(Lines)
           /\ <<>> \in Seq(Requests) /\ <<>> \in Seq(Lines)
           /\ <<Subscribe>> \in Seq(Requests)
<1>1. toDaemon \in Seq(Requests) /\ toWidget \in Seq(Lines)
  BY DEF PipeTypes
<1>2. Subscribe \in Requests
  BY DEF Requests
<1> QED BY <1>1, <1>2

LEMMA WidgetInitTypes == WidgetInit => WidgetTypeOK
<1> SUFFICES ASSUME WidgetInit PROVE WidgetTypeOK
  OBVIOUS
<1>1. <<>> \in Seq(Requests) /\ <<>> \in Seq(Lines)
  OBVIOUS
<1>2. LinkTypes /\ BackoffTypes /\ BoundTypes
  BY BoundsTyped DEF WidgetInit, LinkTypes, BackoffTypes, BoundTypes
<1>3. ShownTypes /\ PipeTypes
  BY <1>1 DEF WidgetInit, ShownTypes, PipeTypes
<1> QED BY <1>2, <1>3, TypesInParts

LEMMA MessagesTyped ==
    /\ Subscribe \in Requests /\ Status \in Requests /\ Reconnect \in Requests
    /\ \A v \in Values : Setting(v) \in Requests /\ State(v) \in Lines
    /\ Ack \in Lines
    /\ \A r \in Requests \ {Subscribe, Status, Reconnect} : r.value \in Values
    /\ \A l \in Lines : l.kind = "state" => l.value \in Values
    /\ \A l \in Lines : l.kind = "ack" <=> l = Ack
<1>1. /\ Subscribe \in Requests /\ Status \in Requests /\ Reconnect \in Requests
      /\ Ack \in Lines
  BY DEF Requests, Lines
<1>2. \A v \in Values : Setting(v) \in Requests /\ State(v) \in Lines
  BY DEF Requests, Lines
<1>3. \A r \in Requests \ {Subscribe, Status, Reconnect} : r.value \in Values
  BY DEF Requests, Setting
<1>4. \A l \in Lines : /\ l.kind = "state" => l.value \in Values
                       /\ l.kind = "ack" <=> l = Ack
  BY DEF Lines, State, Ack
<1> QED BY <1>1, <1>2, <1>3, <1>4

LEMMA LinkTypesNext ==
    ASSUME LinkTypes, WidgetNext
    PROVE  LinkTypes'
<1> USE BoundsTyped DEF linkVars, shownVars, pipeVars, boundVars
<1>1. CASE LinkUp
  BY <1>1
     DEF LinkUp, LinkTypes
<1>2. CASE AttemptFails
  BY <1>2
     DEF AttemptFails, LinkLost, LinkTypes
<1>3. CASE Disconnected
  BY <1>3
     DEF Disconnected, LinkLost, LinkTypes
<1>4. CASE DisconnectedTwice
  BY <1>4
     DEF DisconnectedTwice, LinkLost, LinkTypes
<1>5. CASE Unload
  BY <1>5
     DEF Unload, NoPipe, LinkTypes
<1>6. CASE ReconnectFires
  BY <1>6
     DEF ReconnectFires, Connect, NoPipe, linked, LinkTypes
<1>7. CASE HandshakeFires
  BY <1>7
     DEF HandshakeFires, LinkLost, LinkTypes
<1>8. CASE DeadlineFires
  BY <1>8
     DEF DeadlineFires, LinkLost, LinkTypes
<1>9. CASE PendingExpires
  BY <1>9
     DEF PendingExpires, LinkTypes
<1>10. CASE ReadState
  BY <1>10
     DEF ReadState, Receive, LinkTypes
<1>11. CASE ReadAck
  BY <1>11
     DEF ReadAck, Receive, LinkTypes
<1>12. CASE Answer
  BY <1>12
     DEF Answer, Serving, Send, LinkTypes
<1>13. CASE Execute
  BY <1>13
     DEF Execute, Serving, Send, LinkTypes
<1>14. CASE Push
  BY <1>14
     DEF Push, Serving, Send, LinkTypes
<1>15. CASE Recover
  BY <1>15
     DEF Recover, HangUp, LinkTypes
<1>16. ASSUME NEW v \in Values, Choose(v)
      PROVE  LinkTypes'
  BY <1>16
     DEF Choose, Click, RunCommand, Connect, NoPipe, linked, LinkTypes
<1>17. ASSUME NEW v \in Values, Change(v)
      PROVE  LinkTypes'
  BY <1>17
     DEF Change, LinkTypes
<1>18. ASSUME NEW r \in {Status, Reconnect}, Ask(r)
      PROVE  LinkTypes'
  BY <1>18
     DEF Ask, Click, RunCommand, Connect, NoPipe, linked, LinkTypes
<1>19. ASSUME NEW f \in {"busy", "hung", "down"}, Fault(f)
      PROVE  LinkTypes'
  BY <1>19
     DEF Fault, HangUp, LinkTypes
<1> QED
  BY <1>1, <1>2, <1>3, <1>4, <1>5, <1>6, <1>7, <1>8, <1>9, <1>10, <1>11, <1>12, <1>13, <1>14, <1>15, <1>16, <1>17, <1>18, <1>19
     DEF WidgetNext, WidgetStep, DaemonStep

LEMMA BackoffTypesNext ==
    ASSUME BackoffTypes, WidgetNext
    PROVE  BackoffTypes'
<1> USE WidgetAssumption DEF linkVars, shownVars, pipeVars, boundVars
<1>1. CASE LinkUp
  BY <1>1
     DEF LinkUp, BackoffTypes
<1>2. CASE AttemptFails
  BY <1>2
     DEF AttemptFails, LinkLost, BackoffTypes
<1>3. CASE Disconnected
  BY <1>3
     DEF Disconnected, LinkLost, BackoffTypes
<1>4. CASE DisconnectedTwice
  BY <1>4
     DEF DisconnectedTwice, LinkLost, BackoffTypes
<1>5. CASE Unload
  BY <1>5
     DEF Unload, NoPipe, BackoffTypes
<1>6. CASE ReconnectFires
  BY <1>6
     DEF ReconnectFires, Connect, NoPipe, linked, BackoffTypes
<1>7. CASE HandshakeFires
  BY <1>7
     DEF HandshakeFires, LinkLost, BackoffTypes
<1>8. CASE DeadlineFires
  BY <1>8
     DEF DeadlineFires, LinkLost, BackoffTypes
<1>9. CASE PendingExpires
  BY <1>9
     DEF PendingExpires, BackoffTypes
<1>10. CASE ReadState
  BY <1>10
     DEF ReadState, Receive, BackoffTypes
<1>11. CASE ReadAck
  BY <1>11
     DEF ReadAck, Receive, BackoffTypes
<1>12. CASE Answer
  BY <1>12
     DEF Answer, Serving, Send, BackoffTypes
<1>13. CASE Execute
  BY <1>13
     DEF Execute, Serving, Send, BackoffTypes
<1>14. CASE Push
  BY <1>14
     DEF Push, Serving, Send, BackoffTypes
<1>15. CASE Recover
  BY <1>15
     DEF Recover, HangUp, BackoffTypes
<1>16. ASSUME NEW v \in Values, Choose(v)
      PROVE  BackoffTypes'
  BY <1>16
     DEF Choose, Click, RunCommand, Connect, NoPipe, linked, BackoffTypes
<1>17. ASSUME NEW v \in Values, Change(v)
      PROVE  BackoffTypes'
  BY <1>17
     DEF Change, BackoffTypes
<1>18. ASSUME NEW r \in {Status, Reconnect}, Ask(r)
      PROVE  BackoffTypes'
  BY <1>18
     DEF Ask, Click, RunCommand, Connect, NoPipe, linked, BackoffTypes
<1>19. ASSUME NEW f \in {"busy", "hung", "down"}, Fault(f)
      PROVE  BackoffTypes'
  BY <1>19
     DEF Fault, HangUp, BackoffTypes
<1> QED
  BY <1>1, <1>2, <1>3, <1>4, <1>5, <1>6, <1>7, <1>8, <1>9, <1>10, <1>11, <1>12, <1>13, <1>14, <1>15, <1>16, <1>17, <1>18, <1>19
     DEF WidgetNext, WidgetStep, DaemonStep

LEMMA ShownTypesNext ==
    ASSUME ShownTypes, PipeTypes, WidgetNext
    PROVE  ShownTypes'
<1> USE DEF linkVars, shownVars, pipeVars, boundVars
<1>q. /\ toDaemon # <<>> => Head(toDaemon) \in Requests
      /\ toWidget # <<>> => Head(toWidget) \in Lines
  BY QueuesTyped
<1>1. CASE LinkUp
  BY <1>1, <1>q, MessagesTyped
     DEF LinkUp, ShownTypes
<1>2. CASE AttemptFails
  BY <1>2, <1>q, MessagesTyped
     DEF AttemptFails, LinkLost, ShownTypes
<1>3. CASE Disconnected
  BY <1>3, <1>q, MessagesTyped
     DEF Disconnected, LinkLost, ShownTypes
<1>4. CASE DisconnectedTwice
  BY <1>4, <1>q, MessagesTyped
     DEF DisconnectedTwice, LinkLost, ShownTypes
<1>5. CASE Unload
  BY <1>5, <1>q, MessagesTyped
     DEF Unload, NoPipe, ShownTypes
<1>6. CASE ReconnectFires
  BY <1>6, <1>q, MessagesTyped
     DEF ReconnectFires, Connect, NoPipe, linked, ShownTypes
<1>7. CASE HandshakeFires
  BY <1>7, <1>q, MessagesTyped
     DEF HandshakeFires, LinkLost, ShownTypes
<1>8. CASE DeadlineFires
  BY <1>8, <1>q, MessagesTyped
     DEF DeadlineFires, LinkLost, ShownTypes
<1>9. CASE PendingExpires
  BY <1>9, <1>q, MessagesTyped
     DEF PendingExpires, ShownTypes
<1>10. CASE ReadState
  BY <1>10, <1>q, MessagesTyped
     DEF ReadState, Receive, ShownTypes
<1>11. CASE ReadAck
  BY <1>11, <1>q, MessagesTyped
     DEF ReadAck, Receive, ShownTypes
<1>12. CASE Answer
  BY <1>12, <1>q, MessagesTyped
     DEF Answer, Serving, Send, ShownTypes
<1>13. CASE Execute
  BY <1>13, <1>q, MessagesTyped
     DEF Execute, Serving, Send, ShownTypes
<1>14. CASE Push
  BY <1>14, <1>q, MessagesTyped
     DEF Push, Serving, Send, ShownTypes
<1>15. CASE Recover
  BY <1>15, <1>q, MessagesTyped
     DEF Recover, HangUp, ShownTypes
<1>16. ASSUME NEW v \in Values, Choose(v)
      PROVE  ShownTypes'
  BY <1>16, <1>q, MessagesTyped
     DEF Choose, Click, RunCommand, Connect, NoPipe, linked, ShownTypes
<1>17. ASSUME NEW v \in Values, Change(v)
      PROVE  ShownTypes'
  BY <1>17, <1>q, MessagesTyped
     DEF Change, ShownTypes
<1>18. ASSUME NEW r \in {Status, Reconnect}, Ask(r)
      PROVE  ShownTypes'
  BY <1>18, <1>q, MessagesTyped
     DEF Ask, Click, RunCommand, Connect, NoPipe, linked, ShownTypes
<1>19. ASSUME NEW f \in {"busy", "hung", "down"}, Fault(f)
      PROVE  ShownTypes'
  BY <1>19, <1>q, MessagesTyped
     DEF Fault, HangUp, ShownTypes
<1> QED
  BY <1>1, <1>2, <1>3, <1>4, <1>5, <1>6, <1>7, <1>8, <1>9, <1>10, <1>11, <1>12, <1>13, <1>14, <1>15, <1>16, <1>17, <1>18, <1>19
     DEF WidgetNext, WidgetStep, DaemonStep

LEMMA PipeTypesNext ==
    ASSUME PipeTypes, ShownTypes, WidgetNext
    PROVE  PipeTypes'
<1> USE DEF linkVars, shownVars, pipeVars, boundVars
<1>v. State(val) \in Lines
  BY MessagesTyped DEF ShownTypes
<1>1. CASE LinkUp
  BY <1>1, MessagesTyped, QueuesTyped
     DEF LinkUp, PipeTypes
<1>2. CASE AttemptFails
  BY <1>2, MessagesTyped, QueuesTyped
     DEF AttemptFails, LinkLost, PipeTypes
<1>3. CASE Disconnected
  BY <1>3, MessagesTyped, QueuesTyped
     DEF Disconnected, LinkLost, PipeTypes
<1>4. CASE DisconnectedTwice
  BY <1>4, MessagesTyped, QueuesTyped
     DEF DisconnectedTwice, LinkLost, PipeTypes
<1>5. CASE Unload
  BY <1>5, MessagesTyped, QueuesTyped
     DEF Unload, NoPipe, PipeTypes
<1>6. CASE ReconnectFires
  BY <1>6, MessagesTyped, QueuesTyped
     DEF ReconnectFires, Connect, NoPipe, linked, PipeTypes
<1>7. CASE HandshakeFires
  BY <1>7, MessagesTyped, QueuesTyped
     DEF HandshakeFires, LinkLost, PipeTypes
<1>8. CASE DeadlineFires
  BY <1>8, MessagesTyped, QueuesTyped
     DEF DeadlineFires, LinkLost, PipeTypes
<1>9. CASE PendingExpires
  BY <1>9, MessagesTyped, QueuesTyped
     DEF PendingExpires, PipeTypes
<1>10. CASE ReadState
  BY <1>10, MessagesTyped, QueuesTyped
     DEF ReadState, Receive, PipeTypes
<1>11. CASE ReadAck
  BY <1>11, MessagesTyped, QueuesTyped
     DEF ReadAck, Receive, PipeTypes
<1>12. CASE Answer
  BY <1>12, <1>v, QueuesTyped
     DEF Answer, Serving, Send, PipeTypes
<1>13. CASE Execute
  BY <1>13, MessagesTyped, QueuesTyped
     DEF Execute, Serving, Send, PipeTypes
<1>14. CASE Push
  BY <1>14, <1>v, QueuesTyped
     DEF Push, Serving, Send, PipeTypes
<1>15. CASE Recover
  BY <1>15, MessagesTyped, QueuesTyped
     DEF Recover, HangUp, PipeTypes
<1>16. ASSUME NEW v \in Values, Choose(v)
      PROVE  PipeTypes'
  BY <1>16, MessagesTyped, QueuesTyped
     DEF Choose, Click, RunCommand, Connect, NoPipe, linked, PipeTypes
<1>17. ASSUME NEW v \in Values, Change(v)
      PROVE  PipeTypes'
  BY <1>17, MessagesTyped, QueuesTyped
     DEF Change, PipeTypes
<1>18. ASSUME NEW r \in {Status, Reconnect}, Ask(r)
      PROVE  PipeTypes'
  BY <1>18, MessagesTyped, QueuesTyped
     DEF Ask, Click, RunCommand, Connect, NoPipe, linked, PipeTypes
<1>19. ASSUME NEW f \in {"busy", "hung", "down"}, Fault(f)
      PROVE  PipeTypes'
  BY <1>19, MessagesTyped, QueuesTyped
     DEF Fault, HangUp, PipeTypes
<1> QED
  BY <1>1, <1>2, <1>3, <1>4, <1>5, <1>6, <1>7, <1>8, <1>9, <1>10, <1>11, <1>12, <1>13, <1>14, <1>15, <1>16, <1>17, <1>18, <1>19
     DEF WidgetNext, WidgetStep, DaemonStep

LEMMA BoundTypesNext ==
    ASSUME BoundTypes, WidgetNext
    PROVE  BoundTypes'
<1> USE WidgetAssumption DEF linkVars, shownVars, pipeVars, boundVars
<1>1. CASE LinkUp
  BY <1>1
     DEF LinkUp, BoundTypes
<1>2. CASE AttemptFails
  BY <1>2
     DEF AttemptFails, LinkLost, BoundTypes
<1>3. CASE Disconnected
  BY <1>3
     DEF Disconnected, LinkLost, BoundTypes
<1>4. CASE DisconnectedTwice
  BY <1>4
     DEF DisconnectedTwice, LinkLost, BoundTypes
<1>5. CASE Unload
  BY <1>5
     DEF Unload, NoPipe, BoundTypes
<1>6. CASE ReconnectFires
  BY <1>6
     DEF ReconnectFires, Connect, NoPipe, linked, BoundTypes
<1>7. CASE HandshakeFires
  BY <1>7
     DEF HandshakeFires, LinkLost, BoundTypes
<1>8. CASE DeadlineFires
  BY <1>8
     DEF DeadlineFires, LinkLost, BoundTypes
<1>9. CASE PendingExpires
  BY <1>9
     DEF PendingExpires, BoundTypes
<1>10. CASE ReadState
  BY <1>10
     DEF ReadState, Receive, BoundTypes
<1>11. CASE ReadAck
  BY <1>11
     DEF ReadAck, Receive, BoundTypes
<1>12. CASE Answer
  BY <1>12
     DEF Answer, Serving, Send, BoundTypes
<1>13. CASE Execute
  BY <1>13
     DEF Execute, Serving, Send, BoundTypes
<1>14. CASE Push
  BY <1>14
     DEF Push, Serving, Send, BoundTypes
<1>15. CASE Recover
  BY <1>15
     DEF Recover, HangUp, BoundTypes
<1>16. ASSUME NEW v \in Values, Choose(v)
      PROVE  BoundTypes'
  BY <1>16
     DEF Choose, Click, RunCommand, Connect, NoPipe, linked, BoundTypes
<1>17. ASSUME NEW v \in Values, Change(v)
      PROVE  BoundTypes'
  BY <1>17
     DEF Change, BoundTypes
<1>18. ASSUME NEW r \in {Status, Reconnect}, Ask(r)
      PROVE  BoundTypes'
  BY <1>18
     DEF Ask, Click, RunCommand, Connect, NoPipe, linked, BoundTypes
<1>19. ASSUME NEW f \in {"busy", "hung", "down"}, Fault(f)
      PROVE  BoundTypes'
  BY <1>19
     DEF Fault, HangUp, BoundTypes
<1> QED
  BY <1>1, <1>2, <1>3, <1>4, <1>5, <1>6, <1>7, <1>8, <1>9, <1>10, <1>11, <1>12, <1>13, <1>14, <1>15, <1>16, <1>17, <1>18, <1>19
     DEF WidgetNext, WidgetStep, DaemonStep

LEMMA WidgetNextTypes ==
    ASSUME WidgetTypeOK, WidgetNext
    PROVE  WidgetTypeOK'
BY TypesInParts, LinkTypesNext, BackoffTypesNext, ShownTypesNext,
   PipeTypesNext, BoundTypesNext, TypesInPartsNext

LEMMA WidgetNextStranded ==
    ASSUME NeverStranded, WidgetNext
    PROVE  NeverStranded'
<1> USE DEF linkVars, shownVars, pipeVars, boundVars
<1>1. CASE LinkUp
  BY <1>1
     DEF LinkUp, NeverStranded
<1>2. CASE AttemptFails
  BY <1>2
     DEF AttemptFails, LinkLost, NeverStranded
<1>3. CASE Disconnected
  BY <1>3
     DEF Disconnected, LinkLost, NeverStranded
<1>4. CASE DisconnectedTwice
  BY <1>4
     DEF DisconnectedTwice, LinkLost, NeverStranded
<1>5. CASE Unload
  BY <1>5
     DEF Unload, NoPipe, NeverStranded
<1>6. CASE ReconnectFires
  BY <1>6
     DEF ReconnectFires, Connect, NoPipe, linked, NeverStranded
<1>7. CASE HandshakeFires
  BY <1>7
     DEF HandshakeFires, LinkLost, NeverStranded
<1>8. CASE DeadlineFires
  BY <1>8
     DEF DeadlineFires, LinkLost, NeverStranded
<1>9. CASE PendingExpires
  BY <1>9
     DEF PendingExpires, NeverStranded
<1>10. CASE ReadState
  BY <1>10
     DEF ReadState, Receive, NeverStranded
<1>11. CASE ReadAck
  BY <1>11
     DEF ReadAck, Receive, NeverStranded
<1>12. CASE Answer
  BY <1>12
     DEF Answer, Serving, Send, NeverStranded
<1>13. CASE Execute
  BY <1>13
     DEF Execute, Serving, Send, NeverStranded
<1>14. CASE Push
  BY <1>14
     DEF Push, Serving, Send, NeverStranded
<1>15. CASE Recover
  BY <1>15
     DEF Recover, HangUp, NeverStranded
<1>16. ASSUME NEW v \in Values, Choose(v)
      PROVE  NeverStranded'
  BY <1>16
     DEF Choose, Click, RunCommand, Connect, NoPipe, linked, NeverStranded
<1>17. ASSUME NEW v \in Values, Change(v)
      PROVE  NeverStranded'
  BY <1>17
     DEF Change, NeverStranded
<1>18. ASSUME NEW r \in {Status, Reconnect}, Ask(r)
      PROVE  NeverStranded'
  BY <1>18
     DEF Ask, Click, RunCommand, Connect, NoPipe, linked, NeverStranded
<1>19. ASSUME NEW f \in {"busy", "hung", "down"}, Fault(f)
      PROVE  NeverStranded'
  BY <1>19
     DEF Fault, HangUp, NeverStranded
<1> QED
  BY <1>1, <1>2, <1>3, <1>4, <1>5, <1>6, <1>7, <1>8, <1>9, <1>10, <1>11, <1>12, <1>13, <1>14, <1>15, <1>16, <1>17, <1>18, <1>19
     DEF WidgetNext, WidgetStep, DaemonStep

LEMMA WidgetNextWaits ==
    ASSUME WidgetTypeOK, WaitsEnd, WidgetNext
    PROVE  WaitsEnd'
<1> USE DEF linkVars, shownVars, pipeVars, boundVars
<1>o. outstanding \in Nat
  BY WidgetAssumption DEF WidgetTypeOK
<1>1. CASE LinkUp
  BY <1>1, <1>o
     DEF LinkUp, WaitsEnd
<1>2. CASE AttemptFails
  BY <1>2, <1>o
     DEF AttemptFails, LinkLost, WaitsEnd
<1>3. CASE Disconnected
  BY <1>3, <1>o
     DEF Disconnected, LinkLost, WaitsEnd
<1>4. CASE DisconnectedTwice
  BY <1>4, <1>o
     DEF DisconnectedTwice, LinkLost, WaitsEnd
<1>5. CASE Unload
  BY <1>5, <1>o
     DEF Unload, NoPipe, WaitsEnd
<1>6. CASE ReconnectFires
  BY <1>6, <1>o
     DEF ReconnectFires, Connect, NoPipe, linked, WaitsEnd
<1>7. CASE HandshakeFires
  BY <1>7, <1>o
     DEF HandshakeFires, LinkLost, WaitsEnd
<1>8. CASE DeadlineFires
  BY <1>8, <1>o
     DEF DeadlineFires, LinkLost, WaitsEnd
<1>9. CASE PendingExpires
  BY <1>9, <1>o
     DEF PendingExpires, WaitsEnd
<1>10. CASE ReadState
  BY <1>10, <1>o
     DEF ReadState, Receive, WaitsEnd
<1>11. CASE ReadAck
  BY <1>11, <1>o
     DEF ReadAck, Receive, WaitsEnd
<1>12. CASE Answer
  BY <1>12, <1>o
     DEF Answer, Serving, Send, WaitsEnd
<1>13. CASE Execute
  BY <1>13, <1>o
     DEF Execute, Serving, Send, WaitsEnd
<1>14. CASE Push
  BY <1>14, <1>o
     DEF Push, Serving, Send, WaitsEnd
<1>15. CASE Recover
  BY <1>15, <1>o
     DEF Recover, HangUp, WaitsEnd
<1>16. ASSUME NEW v \in Values, Choose(v)
      PROVE  WaitsEnd'
  BY <1>16, <1>o
     DEF Choose, Click, RunCommand, Connect, NoPipe, linked, WaitsEnd
<1>17. ASSUME NEW v \in Values, Change(v)
      PROVE  WaitsEnd'
  BY <1>17, <1>o
     DEF Change, WaitsEnd
<1>18. ASSUME NEW r \in {Status, Reconnect}, Ask(r)
      PROVE  WaitsEnd'
  BY <1>18, <1>o
     DEF Ask, Click, RunCommand, Connect, NoPipe, linked, WaitsEnd
<1>19. ASSUME NEW f \in {"busy", "hung", "down"}, Fault(f)
      PROVE  WaitsEnd'
  BY <1>19, <1>o
     DEF Fault, HangUp, WaitsEnd
<1> QED
  BY <1>1, <1>2, <1>3, <1>4, <1>5, <1>6, <1>7, <1>8, <1>9, <1>10, <1>11, <1>12, <1>13, <1>14, <1>15, <1>16, <1>17, <1>18, <1>19
     DEF WidgetNext, WidgetStep, DaemonStep

-----------------------------------------------------------------------------
(* The acknowledgements *)

LEMMA CommandKinds ==
    /\ Subscribe \notin Commands /\ Status \notin Commands
    /\ Reconnect \in Commands /\ \A v \in Values : Setting(v) \in Commands
    /\ \A v \in Values : State(v) \notin {Ack}
BY MessagesTyped
   DEF Commands, Subscribe, Status, Reconnect, Setting, State, Ack

\* a step that leaves the link and its queues alone leaves the count alone
Untouched ==
    /\ UNCHANGED <<sock, posted, outstanding, open, toDaemon, toWidget>>

LEMMA UntouchedInStep ==
    ASSUME AcksInStep, Untouched
    PROVE  AcksInStep'
BY DEF AcksInStep, Untouched, linked

LEMMA WidgetNextInStep ==
    ASSUME WidgetTypeOK, AcksInStep, WidgetNext
    PROVE  AcksInStep'
<1> USE DEF linkVars, shownVars, pipeVars, boundVars, linked
<1> DEFINE waiting == HowMany(toDaemon, Commands)
           acks == HowMany(toWidget, {Ack})
<1>t. LinkTypes /\ ShownTypes /\ PipeTypes
  BY TypesInParts
<1>n. /\ waiting \in Nat /\ acks \in Nat
      /\ outstanding \in Nat /\ maxOutstanding \in Nat
  <2>1. maxOutstanding \in Nat
    BY WidgetAssumption
  <2>2. outstanding \in Nat
    BY <1>t, <2>1 DEF LinkTypes
  <2>3. waiting \in Nat
    BY <1>t, HowManyIsNat DEF PipeTypes
  <2>4. acks \in Nat
    BY <1>t, HowManyIsNat DEF PipeTypes
  <2> QED BY <2>1, <2>2, <2>3, <2>4
<1>a. \A r \in Requests :
          HowMany(Append(toDaemon, r), Commands)
              = IF r \in Commands THEN waiting + 1 ELSE waiting
  BY <1>t, HowManyInAppend DEF PipeTypes
<1>b. \A l \in Lines :
          HowMany(Append(toWidget, l), {Ack})
              = IF l \in {Ack} THEN acks + 1 ELSE acks
  BY <1>t, HowManyInAppend DEF PipeTypes
<1>c. toDaemon # <<>> =>
          waiting = IF Head(toDaemon) \in Commands
                    THEN HowMany(Tail(toDaemon), Commands) + 1
                    ELSE HowMany(Tail(toDaemon), Commands)
  BY <1>t, HowManyInTail DEF PipeTypes
<1>d. toWidget # <<>> =>
          acks = IF Head(toWidget) \in {Ack}
                 THEN HowMany(Tail(toWidget), {Ack}) + 1
                 ELSE HowMany(Tail(toWidget), {Ack})
  BY <1>t, HowManyInTail DEF PipeTypes
<1>e. /\ toDaemon # <<>> => HowMany(Tail(toDaemon), Commands) \in Nat
      /\ toWidget # <<>> => HowMany(Tail(toWidget), {Ack}) \in Nat
  BY <1>t, QueuesTyped, HowManyIsNat
<1>1. CASE LinkUp
  <2>1. HowMany(<<Subscribe>>, Commands) = 0
    <3>1. <<Subscribe>> = Append(<<>>, Subscribe) /\ <<>> \in Seq(Requests)
      OBVIOUS
    <3>2. HowMany(Append(<<>>, Subscribe), Commands)
              = HowMany(<<>>, Commands)
      BY <3>1, HowManyInAppend, CommandKinds, MessagesTyped
    <3> QED
      BY <3>1, <3>2, HowManyInEmpty
  <2>2. HowMany(<<>>, {Ack}) = 0
    BY HowManyInEmpty
  <2> QED BY <1>1, <2>1, <2>2 DEF LinkUp, AcksInStep
<1>2. CASE AttemptFails \/ Disconnected \/ DisconnectedTwice \/ Unload
           \/ HandshakeFires \/ DeadlineFires
  BY <1>2 DEF AttemptFails, Disconnected, DisconnectedTwice, Unload,
              HandshakeFires, DeadlineFires, LinkLost, NoPipe, AcksInStep
<1>3. CASE ReconnectFires
  BY <1>3 DEF ReconnectFires, Connect, NoPipe, AcksInStep
<1>4. CASE PendingExpires \/ Recover \/ \E v \in Values : Change(v)
  <2>1. CASE PendingExpires
    BY <2>1, UntouchedInStep DEF PendingExpires, Untouched
  <2>2. CASE Recover
    BY <2>2, UntouchedInStep DEF Recover, HangUp, Untouched, AcksInStep
  <2>3. CASE \E v \in Values : Change(v)
    BY <2>3, UntouchedInStep DEF Change, Untouched
  <2> QED BY <1>4, <2>1, <2>2, <2>3
<1>5. CASE ReadState
  <2>1. Head(toWidget) \notin {Ack}
    BY <1>5, <1>t, QueuesTyped DEF ReadState, Receive, Ack
  <2>2. HowMany(toWidget', {Ack}) = acks
    BY <1>5, <1>d, <1>e, <2>1 DEF ReadState, Receive
  <2> QED BY <1>5, <2>2 DEF ReadState, Receive, AcksInStep
<1>6. CASE ReadAck
  <2>1. Head(toWidget) \in {Ack}
    BY <1>6, <1>t, QueuesTyped, MessagesTyped DEF ReadAck, Receive
  <2>2. acks = HowMany(toWidget', {Ack}) + 1
        /\ HowMany(toWidget', {Ack}) \in Nat
    BY <1>6, <1>d, <1>e, <2>1 DEF ReadAck, Receive
  <2> QED BY <1>6, <1>n, <2>2 DEF ReadAck, Receive, AcksInStep
<1>7. ASSUME NEW r \in Requests, RunCommand(r), posted' = posted, r # Subscribe
      PROVE  AcksInStep'
  <2>1. CASE ~linked
    BY <1>7, <2>1 DEF RunCommand, Connect, NoPipe, AcksInStep
  <2>2. CASE linked /\ outstanding >= maxOutstanding
    <3>1. ~(outstanding < maxOutstanding)
      BY <1>n, <2>2
    <3>2. Untouched
      BY <1>7, <2>2, <3>1 DEF RunCommand, Untouched
    <3> QED BY <3>2, UntouchedInStep
  <2>3. CASE linked /\ outstanding < maxOutstanding
    <3>1. ~(outstanding >= maxOutstanding)
      BY <1>n, <2>3
    <3>2. /\ toDaemon' = Append(toDaemon, r)
          /\ r = Status => outstanding' = outstanding
          /\ r # Status => outstanding' = outstanding + 1
          /\ UNCHANGED <<sock, toWidget, open>>
      BY <1>7, <2>3, <3>1 DEF RunCommand
    <3>3. CASE r = Status
      <4>1. HowMany(toDaemon', Commands) = waiting
        BY <1>a, <3>2, <3>3, CommandKinds
      <4> QED BY <1>7, <3>2, <3>3, <4>1 DEF AcksInStep
    <3>4. CASE r # Status
      <4>1. r \in Commands
        BY <1>7, <3>4 DEF Commands
      <4>2. HowMany(toDaemon', Commands) = waiting + 1
        BY <1>a, <3>2, <4>1
      <4> QED BY <1>7, <1>n, <3>2, <3>4, <4>2 DEF AcksInStep
    <3> QED BY <3>3, <3>4
  <2>4. outstanding >= maxOutstanding \/ outstanding < maxOutstanding
    BY <1>n
  <2> QED BY <2>1, <2>2, <2>3, <2>4
<1>8. ASSUME NEW v \in Values, Choose(v)
      PROVE  AcksInStep'
  <2>1. Setting(v) \in Requests /\ Setting(v) # Subscribe
    BY MessagesTyped DEF Setting, Subscribe
  <2> QED BY <1>7, <1>8, <2>1 DEF Choose, Click
<1>9. ASSUME NEW r \in {Status, Reconnect}, Ask(r)
      PROVE  AcksInStep'
  <2>1. r \in Requests /\ r # Subscribe
    BY MessagesTyped DEF Status, Reconnect, Subscribe
  <2> QED BY <1>7, <1>9, <2>1 DEF Ask, Click
<1>10. CASE Answer
  <2>1. Head(toDaemon) \notin Commands
    BY <1>10 DEF Answer, Commands
  <2>2. HowMany(toDaemon', Commands) = waiting
    BY <1>10, <1>c, <1>e, <2>1 DEF Answer
  <2>3. HowMany(toWidget', {Ack}) = acks
    BY <1>10, <1>b, <1>t, CommandKinds, MessagesTyped
       DEF Answer, Send, ShownTypes
  <2> QED BY <1>10, <2>2, <2>3 DEF Answer, AcksInStep
<1>11. CASE Execute
  <2>1. Head(toDaemon) \in Commands
    BY <1>11, <1>t, QueuesTyped DEF Execute, Commands
  <2>2. waiting = HowMany(toDaemon', Commands) + 1
        /\ HowMany(toDaemon', Commands) \in Nat
    BY <1>11, <1>c, <1>e, <2>1 DEF Execute
  <2>3. HowMany(toWidget', {Ack}) = acks + 1
    BY <1>11, <1>b, MessagesTyped DEF Execute, Send
  <2> QED BY <1>11, <1>n, <2>2, <2>3 DEF Execute, AcksInStep
<1>12. CASE Push
  <2>1. HowMany(toWidget', {Ack}) = acks
    BY <1>12, <1>b, <1>t, CommandKinds, MessagesTyped
       DEF Push, Send, ShownTypes
  <2> QED BY <1>12, <2>1 DEF Push, AcksInStep
<1>13. ASSUME NEW f \in {"busy", "hung", "down"}, Fault(f)
       PROVE  AcksInStep'
  BY <1>13 DEF Fault, HangUp, AcksInStep
<1> QED
  BY <1>1, <1>2, <1>3, <1>4, <1>5, <1>6, <1>8, <1>9, <1>10, <1>11, <1>12,
     <1>13
     DEF WidgetNext, WidgetStep, DaemonStep

LEMMA WidgetInitKeeps ==
    WidgetInit => AcksInStep /\ NeverStranded /\ WaitsEnd
BY DEF WidgetInit, AcksInStep, NeverStranded, WaitsEnd, linked

-----------------------------------------------------------------------------
(* The widget and the command line *)

CtlTypes ==
    /\ ctl \in {"none", "waits", "exited"}
    /\ code \in {None, 0, 1, 2}
    /\ request \in CtlRequests \cup {None}
    /\ reply \in {None, "ok", "error", "closed"}
    /\ verdict \in {None, "ok", "error", "lost"}

\* before the call nothing is there; a request in the socket has no verdict
\* yet; an answer says the verdict
CtlInv ==
    /\ ctl = "none" => /\ request = None /\ reply = None
                       /\ verdict = None /\ code = None
    /\ request # None => verdict = None
    /\ reply \in {"ok", "error"} => verdict = reply
    /\ ExitCodesTell

IInv ==
    /\ TypeOK /\ AcksInStep /\ NeverStranded /\ WaitsEnd /\ CtlInv

\* the served call changes the setting and nothing else of the widget's world
Served ==
    /\ UNCHANGED <<linkVars, shownVars, pipeVars, daemon, boundVars>>
    /\ val' \in Values

LEMMA StepsInParts ==
    ASSUME TypeOK, [Next]_vars
    PROVE  WidgetNext \/ Served \/ UNCHANGED widgetVars
<1>1. CASE ServeCall
  <2>1. val \in Values /\ request \in CtlRequests
    BY <1>1 DEF TypeOK, WidgetTypeOK, ServeCall
  <2>2. request # Status => request.value \in Values
    BY <2>1 DEF CtlRequests, Setting
  <2>3. val' \in Values
    BY <1>1, <2>1, <2>2 DEF ServeCall
  <2> QED BY <1>1, <2>3 DEF ServeCall, Served
<1>2. CASE CallRefused \/ CallUnreachable \/ Answered \/ TimedOut
           \/ \E r \in CtlRequests : Call(r)
  BY <1>2 DEF CallRefused, CallUnreachable, Answered, TimedOut, Call
<1>3. CASE UNCHANGED vars
  BY <1>3 DEF vars
<1>4. CASE \E f \in {"busy", "hung"} : Fault(f)
  BY <1>4 DEF WidgetNext
<1>5. CASE Fault("down")
  BY <1>5 DEF WidgetNext
<1> QED
  BY <1>1, <1>2, <1>3, <1>4, <1>5 DEF Next, CtlStep, WidgetNext

LEMMA ServedKeeps ==
    ASSUME Served \/ UNCHANGED widgetVars
    PROVE  /\ WidgetTypeOK => WidgetTypeOK'
           /\ AcksInStep => AcksInStep'
           /\ NeverStranded => NeverStranded'
           /\ WaitsEnd => WaitsEnd'
<1> USE DEF Served, widgetVars, linkVars, shownVars, pipeVars, boundVars
<1>1. WidgetTypeOK => WidgetTypeOK'
  BY DEF WidgetTypeOK
<1>2. AcksInStep => AcksInStep'
  BY UntouchedInStep DEF Untouched
<1>3. (NeverStranded => NeverStranded') /\ (WaitsEnd => WaitsEnd')
  BY DEF NeverStranded, WaitsEnd
<1> QED BY <1>1, <1>2, <1>3

LEMMA CtlTypesNext ==
    ASSUME CtlTypes, [Next]_vars
    PROVE  CtlTypes'
<1> USE DEF CtlTypes, ctlVars
<1>1. CASE UNCHANGED ctlVars
  BY <1>1
<1>2. CASE DropCall
  BY <1>2 DEF DropCall
<1>3. CASE CallRefused \/ CallUnreachable \/ Answered \/ TimedOut
  BY <1>3 DEF CallRefused, CallUnreachable, Answered, TimedOut, Exit
<1>4. CASE ServeCall
  BY <1>4 DEF ServeCall, Done
<1>5. CASE \E r \in CtlRequests : Call(r)
  BY <1>5 DEF Call
<1>6. CASE UNCHANGED vars
  BY <1>1, <1>6 DEF vars
<1> QED
  BY <1>1, <1>2, <1>3, <1>4, <1>5, <1>6 DEF Next, CtlStep

LEMMA CtlInvNext ==
    ASSUME CtlTypes, CtlInv, [Next]_vars
    PROVE  CtlInv'
<1> USE ClientsAssumption DEF CtlTypes, CtlInv, ExitCodesTell, ctlVars
<1>1. CASE UNCHANGED ctlVars
  BY <1>1
<1>2. CASE DropCall
  BY <1>2 DEF DropCall
<1>3. CASE CallRefused \/ CallUnreachable \/ TimedOut
  BY <1>3 DEF CallRefused, CallUnreachable, TimedOut, Exit
<1>4. CASE Answered
  BY <1>4 DEF Answered, Exit
<1>5. CASE ServeCall
  BY <1>5 DEF ServeCall, Done
<1>6. CASE \E r \in CtlRequests : Call(r)
  BY <1>6 DEF Call
<1>7. CASE UNCHANGED vars
  BY <1>1, <1>7 DEF vars
<1> QED
  BY <1>1, <1>2, <1>3, <1>4, <1>5, <1>6, <1>7 DEF Next, CtlStep

LEMMA InitIInv == Init => IInv
<1> SUFFICES ASSUME Init PROVE IInv
  OBVIOUS
<1>1. WidgetTypeOK /\ AcksInStep /\ NeverStranded /\ WaitsEnd
  <2>1. WidgetInit
    BY DEF Init
  <2> QED BY <2>1, WidgetInitTypes, WidgetInitKeeps
<1>2. CtlTypes /\ CtlInv
  BY ClientsAssumption DEF Init, CtlTypes, CtlInv, ExitCodesTell
<1> QED BY <1>1, <1>2 DEF IInv, TypeOK, CtlTypes

LEMMA NextIInv == IInv /\ [Next]_vars => IInv'
<1> SUFFICES ASSUME IInv, [Next]_vars PROVE IInv'
  OBVIOUS
<1>1. TypeOK /\ WidgetTypeOK /\ CtlTypes
  BY DEF IInv, TypeOK, CtlTypes
<1>2. CtlTypes' /\ CtlInv'
  BY <1>1, CtlTypesNext, CtlInvNext DEF IInv
<1>3. WidgetTypeOK' /\ AcksInStep' /\ NeverStranded' /\ WaitsEnd'
  <2>1. CASE WidgetNext
    BY <1>1, <2>1, WidgetNextTypes, WidgetNextInStep, WidgetNextStranded,
       WidgetNextWaits DEF IInv
  <2>2. CASE Served \/ UNCHANGED widgetVars
    BY <1>1, <2>2, ServedKeeps DEF IInv
  <2> QED BY <1>1, <2>1, <2>2, StepsInParts
<1> QED BY <1>2, <1>3 DEF IInv, TypeOK, CtlTypes

LEMMA Invariance == Spec => []IInv
BY InitIInv, NextIInv, PTL DEF Spec

(* Every variable of the widget, the daemon's promise and the call keeps   *)
(* its type; _outstanding never leaves 0..maxOutstanding.                  *)
THEOREM ClientsTypes == Spec => []TypeOK
<1>1. IInv => TypeOK
  BY DEF IInv
<1> QED BY <1>1, Invariance, PTL

(* _outstanding counts what has still to be acknowledged, whatever was     *)
(* lost, late or clicked.                                                  *)
THEOREM OutstandingIsExact == Spec => []AcksInStep
<1>1. IInv => AcksInStep
  BY DEF IInv
<1> QED BY <1>1, Invariance, PTL

(* The widget is never left without a link and without a timer that tries. *)
THEOREM WidgetAlwaysRetries == Spec => []NeverStranded
<1>1. IInv => NeverStranded
  BY DEF IInv
<1> QED BY <1>1, Invariance, PTL

(* Nothing the widget waits for lacks the timer that ends the wait.        *)
THEOREM WaitsAreBounded == Spec => []WaitsEnd
<1>1. IInv => WaitsEnd
  BY DEF IInv
<1> QED BY <1>1, Invariance, PTL

(* The exit codes 0 and 2 of bose-700-ctl tell what the daemon did.        *)
THEOREM ExitCodesAreTrue == Spec => []ExitCodesTell
<1>1. IInv => ExitCodesTell
  BY DEF IInv, CtlInv
<1> QED BY <1>1, Invariance, PTL

-----------------------------------------------------------------------------
(* What the widget shows *)

\* the last status in the queue q is t, or none is in it and t was the last
\* read before
LastState(q, before, t) ==
    \/ (\A i \in 1..Len(q) : q[i].kind # "state") /\ before = t
    \/ \E i \in 1..Len(q) : /\ q[i] = State(t)
                            /\ \A j \in i + 1..Len(q) : q[j].kind # "state"

\* on a link that was not given up: the daemon has yet to read the subscribe,
\* or what it told last is what the widget will show
Follows ==
    linked /\ open /\ ~posted =>
        IF told = None
        THEN /\ toDaemon # <<>> /\ Head(toDaemon) = Subscribe
             /\ toWidget = <<>> /\ ~subscribed
        ELSE subscribed /\ LastState(toWidget, real, told)

LEMMA StateSaid ==
    ASSUME NEW q \in Seq(Lines), NEW before, NEW v \in Values
    PROVE  LastState(Append(q, State(v)), before, v)
<1> DEFINE r == Append(q, State(v))
<1>1. State(v) \in Lines
  BY MessagesTyped
<1>2. Len(r) = Len(q) + 1 /\ Len(q) \in Nat /\ r[Len(q) + 1] = State(v)
  BY <1>1, AppendProperties, LenProperties
<1> HIDE DEF r
<1>3. Len(q) + 1 \in 1..Len(r) /\ Len(q) + 1 + 1..Len(r) = {}
  BY <1>2
<1> QED BY <1>2, <1>3 DEF LastState, r

LEMMA AckSaid ==
    ASSUME NEW q \in Seq(Lines), NEW before, NEW t, LastState(q, before, t)
    PROVE  LastState(Append(q, Ack), before, t)
<1> DEFINE r == Append(q, Ack)
<1>1. Ack \in Lines /\ Ack.kind # "state"
  BY MessagesTyped DEF Ack
<1>2. /\ Len(r) = Len(q) + 1 /\ Len(q) \in Nat
      /\ \A i \in 1..Len(q) : r[i] = q[i]
      /\ r[Len(q) + 1] = Ack
  BY <1>1, AppendProperties, LenProperties
<1> HIDE DEF r
<1>3. \A i \in 1..Len(r) : i \in 1..Len(q) \/ r[i] = Ack
  BY <1>2
<1>4. CASE (\A i \in 1..Len(q) : q[i].kind # "state") /\ before = t
  BY <1>1, <1>2, <1>3, <1>4 DEF LastState, r
<1>5. ASSUME NEW i \in 1..Len(q), q[i] = State(t),
             \A j \in i + 1..Len(q) : q[j].kind # "state"
      PROVE  LastState(r, before, t)
  <2>1. i \in 1..Len(r) /\ r[i] = State(t)
    BY <1>2, <1>5
  <2>2. ASSUME NEW j \in i + 1..Len(r) PROVE r[j].kind # "state"
    <3>1. j \in i + 1..Len(q) \/ j = Len(q) + 1
      BY <1>2, <2>2
    <3>2. j \in i + 1..Len(q) => j \in 1..Len(q)
      BY <1>2
    <3> QED BY <1>1, <1>2, <1>5, <3>1, <3>2
  <2> QED BY <2>1, <2>2 DEF LastState
<1> QED BY <1>4, <1>5 DEF LastState, r

LEMMA StateHeard ==
    ASSUME NEW q \in Seq(Lines), q # <<>>, NEW before, NEW t,
           LastState(q, before, t)
    PROVE  LastState(Tail(q),
                     IF Head(q).kind = "state" THEN Head(q).value ELSE before, t)
<1> DEFINE r == Tail(q)
           shown == IF Head(q).kind = "state" THEN Head(q).value ELSE before
<1>1. /\ Len(r) = Len(q) - 1 /\ Len(q) \in Nat /\ Len(q) > 0
      /\ \A i \in 1..Len(r) : r[i] = q[i + 1]
      /\ Head(q) = q[1]
  BY HeadTailProperties, LenProperties, EmptySeq
<1> HIDE DEF r
<1>2. \A i \in 1..Len(r) : i + 1 \in 1..Len(q) /\ i + 1 \in 1 + 1..Len(q)
  BY <1>1
<1>3. CASE (\A i \in 1..Len(q) : q[i].kind # "state") /\ before = t
  <2>1. 1 \in 1..Len(q)
    BY <1>1
  <2> QED BY <1>1, <1>2, <1>3, <2>1 DEF LastState, r
<1>4. CASE q[1] = State(t) /\ \A j \in 1 + 1..Len(q) : q[j].kind # "state"
  <2>1. shown = t
    BY <1>1, <1>4 DEF State
  <2> QED BY <1>1, <1>2, <1>4, <2>1 DEF LastState, r
<1>5. ASSUME NEW i \in 1..Len(q), i # 1, q[i] = State(t),
             \A j \in i + 1..Len(q) : q[j].kind # "state"
      PROVE  LastState(r, shown, t)
  <2> DEFINE k == i - 1
  <2>1. k \in 1..Len(r) /\ r[k] = State(t)
    BY <1>1, <1>5
  <2>2. ASSUME NEW j \in k + 1..Len(r) PROVE r[j].kind # "state"
    <3>1. j \in 1..Len(r) /\ j + 1 \in i + 1..Len(q)
      BY <1>1, <1>5, <2>2
    <3> QED BY <1>1, <1>5, <3>1
  <2> HIDE DEF k, shown
  <2> QED BY <2>1, <2>2 DEF LastState
<1> QED BY <1>3, <1>4, <1>5 DEF LastState, r

\* a step of the command line, and those of the widget that leave the
\* connection and what it shows alone
LEMMA UntouchedFollows ==
    ASSUME Follows, UNCHANGED <<sock, open, posted, told, toDaemon, toWidget,
                                subscribed, real>>
    PROVE  Follows'
BY DEF Follows, linked

\* a request behind those that are there
LEMMA AskedFollows ==
    ASSUME PipeTypes, LinkTypes, Follows, NEW r \in Requests, RunCommand(r),
           UNCHANGED <<posted, real>>
    PROVE  Follows'
<1>1. CASE ~linked
  BY <1>1 DEF RunCommand, Connect, NoPipe, Follows, linked
<1>2. CASE UNCHANGED <<sock, pipeVars>>
  BY <1>2, UntouchedFollows DEF pipeVars
<1>3. CASE /\ toDaemon' = Append(toDaemon, r)
           /\ UNCHANGED <<sock, toWidget, open, subscribed, told>>
  <2>1. toDaemon # <<>> => toDaemon' # <<>> /\ Head(toDaemon') = Head(toDaemon)
    BY <1>3, AppendProperties, HeadTailProperties DEF PipeTypes
  <2> QED BY <1>3, <2>1 DEF Follows, linked
<1> QED BY <1>1, <1>2, <1>3 DEF RunCommand

LEMMA WidgetFollows ==
    ASSUME WidgetTypeOK, Follows, WidgetNext
    PROVE  Follows'
<1> USE DEF linkVars, shownVars, pipeVars, boundVars
<1>t. LinkTypes /\ ShownTypes /\ PipeTypes
  BY TypesInParts
<1>n. \A v \in Values : v # None
  BY WidgetAssumption
<1>v. toWidget \in Seq(Lines) /\ toDaemon \in Seq(Requests) /\ val \in Values
  BY <1>t DEF PipeTypes, ShownTypes
<1>1. CASE LinkUp
  BY <1>1 DEF LinkUp, Follows
<1>2. CASE AttemptFails \/ Disconnected \/ DisconnectedTwice \/ Unload
           \/ HandshakeFires \/ DeadlineFires
  BY <1>2 DEF AttemptFails, Disconnected, DisconnectedTwice, Unload,
              HandshakeFires, DeadlineFires, LinkLost, NoPipe, Follows, linked
<1>3. CASE ReconnectFires
  BY <1>3 DEF ReconnectFires, Connect, NoPipe, Follows, linked
<1>4. CASE PendingExpires \/ \E v \in Values : Change(v)
  BY <1>4, UntouchedFollows DEF PendingExpires, Change
<1>5. CASE Recover \/ \E f \in {"busy", "hung", "down"} : Fault(f)
  <2>1. CASE HangUp
    BY <2>1 DEF HangUp, Follows
  <2>2. CASE UNCHANGED <<linkVars, shownVars, pipeVars>>
    BY <2>2, UntouchedFollows
  <2> QED BY <1>5, <2>1, <2>2 DEF Recover, Fault
<1>6. CASE ReadState \/ ReadAck
  <2>1. linked /\ ~posted /\ toWidget # <<>> /\ toWidget' = Tail(toWidget)
    BY <1>6 DEF ReadState, ReadAck, Receive
  <2>2. real' = IF Head(toWidget).kind = "state" THEN Head(toWidget).value
                ELSE real
    BY <1>6 DEF ReadState, ReadAck, Receive
  <2>3. UNCHANGED <<sock, open, posted, told, toDaemon, subscribed>>
    BY <1>6 DEF ReadState, ReadAck
  <2>4. ASSUME open
        PROVE  subscribed /\ told # None /\ LastState(toWidget', real', told)
    <3>1. told # None /\ subscribed /\ LastState(toWidget, real, told)
      BY <2>1, <2>4 DEF Follows
    <3>2. LastState(Tail(toWidget), IF Head(toWidget).kind = "state"
                    THEN Head(toWidget).value ELSE real, told)
      BY <1>v, <2>1, <3>1, StateHeard
    <3> QED BY <2>1, <2>2, <3>1, <3>2
  <2> QED BY <2>3, <2>4 DEF Follows, linked
<1>7. ASSUME NEW v \in Values, Choose(v)
      PROVE  Follows'
  BY <1>7, <1>t, AskedFollows, MessagesTyped DEF Choose, Click
<1>8. ASSUME NEW r \in {Status, Reconnect}, Ask(r)
      PROVE  Follows'
  BY <1>8, <1>t, AskedFollows, MessagesTyped DEF Ask, Click
<1>9. CASE Answer \/ Push
  <2>1. /\ toWidget' = Append(toWidget, State(val)) /\ told' = val
        /\ UNCHANGED <<sock, posted, open, real>>
    BY <1>9 DEF Answer, Push, Send
  <2>2. LastState(toWidget', real, val)
    BY <1>v, <2>1, StateSaid
  <2>3. open
    BY <1>9 DEF Answer, Push, Serving
  <2>4. ASSUME linked, ~posted PROVE subscribed'
    <3>1. CASE Push
      BY <3>1 DEF Push
    <3>2. CASE Answer
      BY <2>3, <2>4, <3>2 DEF Answer, Follows
    <3> QED BY <1>9, <3>1, <3>2
  <2> QED BY <1>n, <1>v, <2>1, <2>2, <2>4 DEF Follows, linked
<1>10. CASE Execute
  <2>1. /\ toWidget' = Append(toWidget, Ack)
        /\ UNCHANGED <<sock, posted, open, real, subscribed, told>>
    BY <1>10 DEF Execute, Send
  <2>2. ASSUME linked, ~posted
        PROVE  subscribed /\ told # None /\ LastState(toWidget', real, told)
    <3>1. told # None /\ subscribed /\ LastState(toWidget, real, told)
      BY <1>10, <2>2 DEF Execute, Serving, Follows
    <3> QED BY <1>v, <2>1, <3>1, AckSaid
  <2> QED BY <2>1, <2>2 DEF Follows, linked
<1> QED
  BY <1>1, <1>2, <1>3, <1>4, <1>5, <1>6, <1>7, <1>8, <1>9, <1>10
     DEF WidgetNext, WidgetStep, DaemonStep

LEMMA FollowsAlways == Spec => []Follows
<1>1. Init => Follows
  BY DEF Init, WidgetInit, Follows, linked
<1>2. IInv /\ Follows /\ [Next]_vars => Follows'
  <2> SUFFICES ASSUME IInv, Follows, [Next]_vars PROVE Follows'
    OBVIOUS
  <2>1. TypeOK /\ WidgetTypeOK
    BY DEF IInv, TypeOK
  <2>2. CASE Served \/ UNCHANGED widgetVars
    BY <2>2, UntouchedFollows
       DEF Served, widgetVars, linkVars, shownVars, pipeVars
  <2> QED BY <2>1, <2>2, StepsInParts, WidgetFollows
<1> QED BY <1>1, <1>2, Invariance, PTL DEF Spec

\* A working link with nothing on its way in either direction.
AtRest == linked /\ open /\ ~posted /\ toDaemon = <<>> /\ toWidget = <<>>

(* The safety half of WidgetSettles: on a link at rest the widget is        *)
(* subscribed, waits for no acknowledgement, and shows the daemon's setting *)
(* unless a push of it is due.  No order of clicks, timeouts, lost links    *)
(* and changes leaves it with an old value that nobody corrects.            *)
THEOREM WidgetShowsTheDaemon ==
    Spec => [](AtRest => /\ subscribed /\ outstanding = 0
                         /\ real = val \/ told # val)
<1>1. IInv /\ Follows => (AtRest => /\ subscribed /\ outstanding = 0
                                    /\ real = val \/ told # val)
  <2> SUFFICES ASSUME IInv, Follows, AtRest
               PROVE  subscribed /\ outstanding = 0 /\ (real = val \/ told # val)
    OBVIOUS
  <2>1. told # None /\ subscribed /\ LastState(<<>>, real, told)
    BY DEF AtRest, Follows
  <2>2. real = told
    BY <2>1 DEF LastState
  <2>3. outstanding = 0
    BY HowManyInEmpty DEF IInv, AcksInStep, AtRest
  <2> QED BY <2>1, <2>2, <2>3
<1> QED BY <1>1, FollowsAlways, Invariance, PTL
=============================================================================
