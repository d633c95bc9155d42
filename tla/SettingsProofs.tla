--------------------------- MODULE SettingsProofs ---------------------------
(***************************************************************************)
(* Proof that what BmapSession publishes is what the headset has, whenever *)
(* nothing is under way: no report is lost, whatever the order of reads,   *)
(* answers, changes and faults.                                            *)
(***************************************************************************)
EXTENDS BmapSessionProofs

----------------------------------------------------------------------------
(* What has been said, in parts.                                           *)

\* u says what q says from its place d + 1 on.
Agrees(u, q, d) ==
    \A i \in DOMAIN u : i + d \in DOMAIN q /\ u[i].kind = q[i + d].kind /\ u[i].vals = q[i + d].vals

\* To apply the first a messages of q, and then those after the first b, is to
\* apply q, if those between do not matter.
LEMMA AppliedSkip ==
  ASSUME NEW k, NEW q \in Seq(Messages), NEW u \in Seq(Messages), NEW w \in Seq(Messages),
         NEW a \in Nat, NEW b \in Nat, NEW c \in Cells,
         a <= b, Len(u) = a, Len(q) = b + Len(w), Agrees(u, q, 0), Agrees(w, q, b),
         (\A i \in Tells(q, c) : i <= a \/ b < i) \/ Tells(w, c) # {}
  PROVE  Applied(Applied(k, u), w)[c] = Applied(k, q)[c]
<1> DEFINE K == Applied(k, u)
<1>1. /\ Len(u) \in Nat /\ Len(w) \in Nat /\ Len(q) \in Nat
      /\ DOMAIN u = 1..Len(u) /\ DOMAIN w = 1..Len(w) /\ DOMAIN q = 1..Len(q)
  OBVIOUS
<1>2. \A i \in Tells(w, c) : i + b \in Tells(q, c) /\ w[i].vals[c] = q[i + b].vals[c]
  BY DEF Tells, Agrees
<1>3. \A i \in Tells(q, c) : b < i => i - b \in Tells(w, c)
  <2> TAKE i \in Tells(q, c)
  <2> SUFFICES ASSUME b < i PROVE i - b \in Tells(w, c) OBVIOUS
  <2>1. i \in 1..Len(q) BY <1>1 DEF Tells
  <2>2. i - b \in DOMAIN w /\ (i - b) + b = i BY <1>1, <2>1
  <2>3. w[i - b].kind = q[i].kind /\ w[i - b].vals = q[i].vals BY <2>2 DEF Agrees
  <2> QED BY <2>2, <2>3 DEF Tells
<1>4. ASSUME NEW i \in Tells(w, c), \A j \in Tells(w, c) : j <= i, Applied(K, w)[c] = w[i].vals[c]
      PROVE  Applied(K, w)[c] = Applied(k, q)[c]
  <2>1. i \in 1..Len(w) BY <1>1 DEF Tells
  <2>2. ASSUME NEW j \in Tells(q, c) PROVE j <= i + b
    <3>1. j \in 1..Len(q) BY <1>1 DEF Tells
    <3>2. CASE b < j
      <4>1. j - b <= i BY <1>3, <1>4, <3>2
      <4> QED BY <2>1, <3>1, <4>1
    <3> QED BY <2>1, <3>1, <3>2
  <2>3. Applied(k, q)[c] = q[i + b].vals[c] BY <1>2, <2>2, AppliedLast
  <2> QED BY <1>2, <1>4, <2>3
<1>5. ASSUME Tells(w, c) = {}, Applied(K, w)[c] = K[c]
      PROVE  Applied(K, w)[c] = Applied(k, q)[c]
  <2>1. \A i \in Tells(q, c) : i \in 1..a
    <3> TAKE i \in Tells(q, c)
    <3>1. i \in 1..Len(q) /\ ~(b < i) BY <1>1, <1>3, <1>5 DEF Tells
    <3>2. i <= a \/ b < i BY <1>5
    <3> QED BY <3>1, <3>2
  <2>2. \A i \in Tells(q, c) : i \in Tells(u, c)
    <3> TAKE i \in Tells(q, c)
    <3>1. i \in DOMAIN u /\ i + 0 = i BY <1>1, <2>1
    <3> QED BY <3>1 DEF Tells, Agrees
  <2>3. \A i \in Tells(u, c) : i \in Tells(q, c) /\ u[i].vals[c] = q[i].vals[c]
    <3> TAKE i \in Tells(u, c)
    <3>1. i \in DOMAIN u /\ i + 0 = i BY <1>1 DEF Tells
    <3> QED BY <3>1 DEF Tells, Agrees
  <2>4. ASSUME NEW i \in Tells(u, c), \A j \in Tells(u, c) : j <= i, K[c] = u[i].vals[c]
        PROVE  K[c] = Applied(k, q)[c]
    <3>1. \A j \in Tells(q, c) : j <= i BY <2>2, <2>4
    <3>2. Applied(k, q)[c] = q[i].vals[c] BY <2>3, <3>1, AppliedLast
    <3> QED BY <2>3, <2>4, <3>2
  <2>5. ASSUME Tells(u, c) = {}, K[c] = k[c]
        PROVE  K[c] = Applied(k, q)[c]
    <3>1. Tells(q, c) = {} BY <2>2, <2>5
    <3> QED BY <2>5, <3>1, AppliedNone
  <2>6. K[c] = Applied(k, q)[c] BY <2>4, <2>5, AppliedCases
  <2> QED BY <1>5, <2>6
<1> HIDE DEF K
<1>6. Applied(K, w)[c] = Applied(k, q)[c] BY <1>4, <1>5, AppliedCases
<1> QED BY <1>6 DEF K

\* One more message.
LEMMA AppliedAppend ==
  ASSUME NEW k, NEW q \in Seq(Messages), NEW m \in Messages, NEW c \in Cells
  PROVE  /\ m.kind = "status" /\ c \in DOMAIN m.vals => Applied(k, Append(q, m))[c] = m.vals[c]
         /\ m.kind = "error" \/ c \notin DOMAIN m.vals => Applied(k, Append(q, m))[c] = Applied(k, q)[c]
<1> DEFINE r == Append(q, m)
<1>1. /\ r \in Seq(Messages) /\ Len(q) \in Nat /\ Len(r) = Len(q) + 1
      /\ DOMAIN r = 1..(Len(q) + 1) /\ DOMAIN q = 1..Len(q)
      /\ r[Len(q) + 1] = m /\ \A i \in 1..Len(q) : r[i] = q[i]
  OBVIOUS
<1> HIDE DEF r
<1>2. ASSUME m.kind = "status", c \in DOMAIN m.vals PROVE Applied(k, r)[c] = m.vals[c]
  <2>1. Len(q) + 1 \in Tells(r, c) BY <1>1, <1>2 DEF Tells
  <2>2. \A i \in Tells(r, c) : i <= Len(q) + 1 BY <1>1 DEF Tells
  <2> QED BY <1>1, <2>1, <2>2, AppliedLast
<1>3. ASSUME m.kind = "error" \/ c \notin DOMAIN m.vals
      PROVE  Applied(k, r)[c] = Applied(k, q)[c]
  <2>1. \A i \in Tells(r, c) : i # Len(q) + 1 BY <1>1, <1>3 DEF Tells
  <2>2. \A i \in Tells(r, c) : i \in Tells(q, c) /\ r[i].vals = q[i].vals
    BY <1>1, <2>1 DEF Tells
  <2>3. \A i \in Tells(q, c) : i \in Tells(r, c) BY <1>1 DEF Tells
  <2>4. ASSUME NEW i \in Tells(q, c), \A j \in Tells(q, c) : j <= i, Applied(k, q)[c] = q[i].vals[c]
        PROVE  Applied(k, r)[c] = Applied(k, q)[c]
    <3>1. \A j \in Tells(r, c) : j <= i BY <2>2, <2>4
    <3>2. Applied(k, r)[c] = r[i].vals[c] BY <1>1, <2>3, <3>1, AppliedLast
    <3> QED BY <2>2, <2>3, <2>4, <3>2
  <2>5. ASSUME Tells(q, c) = {}, Applied(k, q)[c] = k[c]
        PROVE  Applied(k, r)[c] = Applied(k, q)[c]
    <3>1. Tells(r, c) = {} BY <2>2, <2>5
    <3> QED BY <2>5, <3>1, AppliedNone
  <2> QED BY <2>4, <2>5, AppliedCases
<1> QED BY <1>2, <1>3 DEF r

----------------------------------------------------------------------------
(* What StateEngine has, or is about to be told.                           *)

\* When all that is on its way has been read, c is what the headset has.
Reported(c) == Applied(known, inbox \o fromDev)[c] = device[c]

\* The whole messages of a read are the first of those on their way.
LEMMA BufferedElements ==
  ASSUME TypeOK, NEW n \in 0..Len(fromDev)
  PROVE  LET ms == Buffered(n) IN
         /\ ms \in Seq(Messages) /\ Len(ms) = Len(inbox) + n
         /\ inbox \o fromDev \in Seq(Messages)
         /\ Len(inbox \o fromDev) = Len(inbox) + Len(fromDev)
         /\ Len(inbox) \in Nat /\ Len(fromDev) \in Nat
         /\ \A i \in DOMAIN ms : i \in DOMAIN (inbox \o fromDev) /\ ms[i] = (inbox \o fromDev)[i]
<1> DEFINE f == SubSeq(fromDev, 1, n)
           ms == inbox \o f
           q == inbox \o fromDev
<1>1. /\ inbox \in Seq(Messages) /\ fromDev \in Seq(Messages)
      /\ n \in Nat /\ Len(fromDev) \in Nat /\ n <= Len(fromDev)
  BY DEF TypeOK
<1>2. \A i \in 1..n : fromDev[i] \in Messages BY <1>1
<1>3. f \in Seq(Messages) BY <1>1, <1>2, SubSeqProperties
<1>4. Len(f) = n
  <2>1. 1 <= n => Len(f) = n BY <1>1, <1>2, SubSeqProperties
  <2>2. ~(1 <= n) => Len(f) = 0 /\ n = 0 BY <1>1, <1>2, SubSeqProperties
  <2> QED BY <2>1, <2>2
<1>5. \A i \in 1..n : f[i] = fromDev[i] BY <1>1, <1>2, SubSeqProperties
<1> HIDE DEF f
<1>6. /\ ms \in Seq(Messages) /\ Len(ms) = Len(inbox) + n /\ Len(inbox) \in Nat
      /\ DOMAIN ms = 1..(Len(inbox) + n)
      /\ \A i \in 1..Len(inbox) : ms[i] = inbox[i]
      /\ \A i \in (Len(inbox) + 1)..(Len(inbox) + n) :
            i - Len(inbox) \in 1..n /\ ms[i] = f[i - Len(inbox)]
  BY <1>1, <1>3, <1>4, ConcatAt
<1>7. /\ q \in Seq(Messages) /\ Len(q) = Len(inbox) + Len(fromDev)
      /\ DOMAIN q = 1..(Len(inbox) + Len(fromDev))
      /\ \A i \in 1..Len(inbox) : q[i] = inbox[i]
      /\ \A i \in (Len(inbox) + 1)..(Len(inbox) + Len(fromDev)) : q[i] = fromDev[i - Len(inbox)]
  BY <1>1, ConcatAt
<1> HIDE DEF ms, q
<1>8. ASSUME NEW i \in DOMAIN ms PROVE i \in DOMAIN q /\ ms[i] = q[i]
  <2>1. i \in 1..(Len(inbox) + n) BY <1>6
  <2>2. i \in DOMAIN q BY <1>1, <1>6, <1>7, <2>1
  <2>3. CASE i <= Len(inbox)
    <3>1. i \in 1..Len(inbox) BY <1>6, <2>1, <2>3
    <3> QED BY <1>6, <1>7, <2>2, <3>1
  <2>4. CASE ~(i <= Len(inbox))
    <3>1. i \in (Len(inbox) + 1)..(Len(inbox) + n) BY <1>6, <2>1, <2>4
    <3>2. i \in (Len(inbox) + 1)..(Len(inbox) + Len(fromDev)) BY <1>1, <1>6, <3>1
    <3> QED BY <1>5, <1>6, <1>7, <2>2, <3>1, <3>2
  <2> QED BY <2>3, <2>4
<1> QED BY <1>1, <1>6, <1>7, <1>8 DEF Buffered, ms, q, f

\* Reading what is on its way changes nothing of that.
LEMMA ReportedRead ==
  ASSUME TypeOK, TypeOK', NEW n \in 0..Len(fromDev), NEW ms \in Seq(Messages),
         Len(ms) = Len(inbox) + n, Agrees(ms, inbox \o fromDev, 0),
         known' = Applied(known, ms), inbox' = <<>>,
         Len(fromDev') = Len(fromDev) - n, Agrees(fromDev', fromDev, n), NEW c \in Cells
  PROVE  Applied(known', inbox' \o fromDev')[c] = Applied(known, inbox \o fromDev)[c]
<1> DEFINE q == inbox \o fromDev
<1>1. /\ q \in Seq(Messages) /\ Len(q) = Len(inbox) + Len(fromDev)
      /\ Len(inbox) \in Nat /\ Len(fromDev) \in Nat
  BY BufferedElements
<1>2. inbox \in Seq(Messages) /\ fromDev \in Seq(Messages) /\ fromDev' \in Seq(Messages)
  BY DEF TypeOK
<1>3. inbox' \o fromDev' = fromDev' BY <1>2
<1>4. \A i \in 1..Len(fromDev) : i + Len(inbox) \in DOMAIN q /\ q[i + Len(inbox)] = fromDev[i]
  <2>1. DOMAIN q = 1..(Len(inbox) + Len(fromDev))
        /\ \A i \in 1..Len(fromDev) : q[Len(inbox) + i] = fromDev[i]
    BY <1>2, ConcatAt
  <2> QED BY <1>1, <2>1
<1> HIDE DEF q
<1>5. Agrees(fromDev', q, Len(inbox) + n)
  <2> SUFFICES ASSUME NEW i \in DOMAIN fromDev'
               PROVE  /\ i + (Len(inbox) + n) \in DOMAIN q
                      /\ fromDev'[i].kind = q[i + (Len(inbox) + n)].kind
                      /\ fromDev'[i].vals = q[i + (Len(inbox) + n)].vals
    BY DEF Agrees
  <2>1. i + n \in DOMAIN fromDev /\ fromDev'[i].kind = fromDev[i + n].kind
          /\ fromDev'[i].vals = fromDev[i + n].vals
    BY DEF Agrees
  <2>2. i \in Nat /\ i + n \in 1..Len(fromDev) BY <1>2, <2>1
  <2>3. (i + n) + Len(inbox) = i + (Len(inbox) + n) BY <1>1, <2>2
  <2> QED BY <1>4, <2>1, <2>2, <2>3
<1>6. Len(inbox) + n \in Nat /\ Len(q) = (Len(inbox) + n) + Len(fromDev')
  BY <1>1
<1>7. Agrees(ms, q, 0) BY DEF q
<1>8. \A i \in Tells(q, c) : i <= Len(inbox) + n \/ Len(inbox) + n < i
  <2>1. \A i \in Tells(q, c) : i \in Nat BY <1>1 DEF Tells
  <2> QED BY <1>1, <2>1
<1> DEFINE a == Len(inbox) + n
           w == fromDev'
<1>9. /\ a \in Nat /\ a <= a /\ Len(ms) = a /\ Len(q) = a + Len(w) /\ w \in Seq(Messages)
      /\ Agrees(w, q, a) /\ \A i \in Tells(q, c) : i <= a \/ a < i
  BY <1>2, <1>5, <1>6, <1>8
<1> HIDE DEF a, w
<1>10. Applied(Applied(known, ms), w)[c] = Applied(known, q)[c]
  BY <1>1, <1>7, <1>9, AppliedSkip
<1> QED BY <1>3, <1>10 DEF q, w

\* A message more.
LEMMA ReportedAppend ==
  ASSUME TypeOK, NEW m \in Messages, UNCHANGED <<known, inbox>>, fromDev' = Append(fromDev, m),
         NEW c \in Cells,
         \/ m.kind = "status" /\ c \in DOMAIN m.vals /\ m.vals[c] = device'[c]
         \/ (m.kind = "error" \/ c \notin DOMAIN m.vals) /\ Reported(c) /\ device'[c] = device[c]
  PROVE  Reported(c)'
<1>1. inbox \in Seq(Messages) /\ fromDev \in Seq(Messages) BY DEF TypeOK
<1>2. inbox \o Append(fromDev, m) = Append(inbox \o fromDev, m) BY <1>1
<1>3. inbox \o fromDev \in Seq(Messages) BY <1>1, ConcatAt
<1> DEFINE q == inbox \o fromDev
<1>4. q \in Seq(Messages) BY <1>3
<1>5. inbox' \o fromDev' = Append(q, m) BY <1>2
<1> HIDE DEF q
<1>6. CASE m.kind = "status" /\ c \in DOMAIN m.vals /\ m.vals[c] = device'[c]
  <2>1. Applied(known, Append(q, m))[c] = m.vals[c] BY <1>4, <1>6, AppliedAppend
  <2> QED BY <1>5, <1>6, <2>1 DEF Reported
<1>7. CASE (m.kind = "error" \/ c \notin DOMAIN m.vals) /\ Reported(c) /\ device'[c] = device[c]
  <2>1. Applied(known, Append(q, m))[c] = Applied(known, q)[c] BY <1>4, <1>7, AppliedAppend
  <2> QED BY <1>5, <1>7, <2>1 DEF Reported, q
<1> QED BY <1>6, <1>7

----------------------------------------------------------------------------
(* The invariant.                                                          *)

\* Nothing is under way without a link.
DownInv == (alive => conn) /\ (~alive => toDev = <<>> /\ fromDev = <<>>)

\* A SETGET that the headset takes without a word.
Mute(r) == r.op = "put" /\ r.field \in Silent

\* A setting that was read, and is neither polled nor in doubt, is reported, and
\* no request on its way changes it without a report.
ReadReported ==
    \A c \in Cells : FieldOf[c] \in sure \ InOrder(Polled) =>
        /\ Reported(c)
        /\ \A i \in DOMAIN toDev : Mute(toDev[i]) => c \notin DOMAIN toDev[i].vals

\* So is what the answer of the running exchange tells, already before it is read.
OwnReported ==
    \A i \in DOMAIN fromDev : fromDev[i].mine =>
        \A c \in DOMAIN fromDev[i].vals : FieldOf[c] \notin InOrder(Polled) => Reported(c)

\* While a command reads a field for itself, its answer leaves the field in doubt.
PeeksUnsure == mode = "wait" /\ Head(todo).op = "peek" => Head(todo).field \notin sure

NewsInv == alive => ReadReported /\ OwnReported /\ PeeksUnsure

LEMMA DownStep == TypeInv /\ DownInv /\ [Next]_vars => DownInv'
<1> SUFFICES ASSUME TypeInv, DownInv, [Next]_vars PROVE DownInv' OBVIOUS
<1>1. CASE Connect \/ Reconnect \/ SignalUsr1 \/ LinkDies \/ LinkFails \/ LinkLost
  BY <1>1 DEF Connect, Reconnect, SignalUsr1, LinkDies, LinkFails, LinkLost, Drop, DownInv
<1>2. CASE Refresh \/ Finish \/ WriteAny \/ SendStalls \/ WriteTimesOut \/ ReadTimesOut \/ UNCHANGED vars
  <2>1. UNCHANGED <<conn, alive, toDev, fromDev>>
    BY <1>2 DEF Refresh, Finish, WriteAny, Write, SendStalls, WriteTimesOut, ReadTimesOut, vars,
       linkVars, wireVars
  <2> QED BY <2>1 DEF DownInv
<1>3. CASE Send \/ RecvOthers \/ RecvOwn \/ Feed \/ DeviceReads \/ DeviceSets \/ DeviceIgnores \/ DeviceRefuses
  BY <1>3 DEF Send, RecvOthers, RecvOwn, Feed, DeviceReads, DeviceSets, DeviceIgnores,
     DeviceRefuses, Served, linkVars, DownInv
<1>4. ASSUME NEW c \in Cells, NEW v \in Values, DeviceChanges(c, v)
      PROVE  DownInv'
  BY <1>4 DEF DeviceChanges, linkVars, DownInv
<1> QED BY <1>1, <1>2, <1>3, <1>4 DEF Next, Exchange, Loop, Headset

\* The cells a message tells.
LEMMA ToldCells ==
  ASSUME NEW m \in Messages
  PROVE  /\ DOMAIN m.vals \subseteq Cells
         /\ \A c \in DOMAIN m.vals : m.kind = "status" /\ FieldOf[c] = m.field
<1>1. CASE m.kind = "status"
  <2>1. m.vals \in [CellsOf(m.field) -> Values] BY <1>1, MessageFacts
  <2> QED BY <1>1, <2>1 DEF CellsOf
<1>2. CASE m.kind = "error"
  <2>1. m.vals = Nothing BY <1>2, MessageFacts
  <2>2. DOMAIN m.vals = {} BY <2>1, NothingType
  <2> QED BY <2>2
<1> QED BY <1>1, <1>2, MessageFacts

\* The loop or an exchange reads messages that answer nothing.
LEMMA NewsRead ==
  ASSUME TypeInv, TypeOK', NewsInv, Feed \/ RecvOthers
  PROVE  NewsInv'
<1> SUFFICES ASSUME alive PROVE ReadReported' /\ OwnReported' /\ PeeksUnsure'
  BY DEF NewsInv, Feed, RecvOthers, linkVars
<1>1. PICK n \in 0..Len(fromDev), cut \in Cuts : Arrives(n, cut) /\ Learn(Buffered(n))
  BY DEF Feed, RecvOthers
<1>2. inbox' = <<>> /\ UNCHANGED <<device, mode, todo, sure, toDev>>
  BY DEF Feed, RecvOthers
<1>3. /\ Len(fromDev') = Len(fromDev) - n
      /\ \A i \in DOMAIN fromDev' : i + n \in DOMAIN fromDev /\ fromDev'[i] = fromDev[i + n]
  BY <1>1, SuffixElements DEF TypeInv
<1> DEFINE ms == Buffered(n)
<1>4. /\ ms \in Seq(Messages) /\ Len(ms) = Len(inbox) + n
      /\ \A i \in DOMAIN ms : i \in DOMAIN (inbox \o fromDev) /\ ms[i] = (inbox \o fromDev)[i]
  BY BufferedElements DEF TypeInv
<1>5. known' = Applied(known, ms) BY <1>1 DEF Learn
<1> HIDE DEF ms
<1>6. Agrees(fromDev', fromDev, n) BY <1>3 DEF Agrees
<1>7. Agrees(ms, inbox \o fromDev, 0)
  <2>1. \A i \in DOMAIN ms : i + 0 = i BY <1>4
  <2> QED BY <1>4, <2>1 DEF Agrees
<1>8. \A c \in Cells : Reported(c) => Reported(c)'
  BY <1>2, <1>3, <1>4, <1>5, <1>6, <1>7, ReportedRead DEF Reported, TypeInv
<1>9. ReadReported' BY <1>2, <1>8 DEF NewsInv, ReadReported
<1>10. OwnReported'
  <2>1. \A i \in DOMAIN fromDev : DOMAIN fromDev[i].vals \subseteq Cells
    BY ToldCells DEF TypeInv, TypeOK
  <2> QED BY <1>3, <1>8, <2>1 DEF NewsInv, OwnReported
<1> QED BY <1>2, <1>9, <1>10 DEF NewsInv, PeeksUnsure

\* The flush before a request.
LEMMA NewsFlush ==
  ASSUME TypeInv, TypeOK', Flush, DOMAIN fromDev' = DOMAIN fromDev, Len(fromDev') = Len(fromDev),
         \A i \in DOMAIN fromDev : /\ fromDev'[i].kind = fromDev[i].kind
                                   /\ fromDev'[i].vals = fromDev[i].vals,
         device' = device, NEW c \in Cells, Reported(c)
  PROVE  Reported(c)'
<1>1. inbox \in Seq(Messages) /\ fromDev \in Seq(Messages) BY DEF TypeInv, TypeOK
<1>2. 0 \in 0..Len(fromDev) /\ Len(inbox) = Len(inbox) + 0 /\ Len(fromDev) = Len(fromDev) - 0
  BY <1>1
<1>3. \A i \in DOMAIN fromDev : i + 0 = i BY <1>1
<1>4. Agrees(fromDev', fromDev, 0) BY <1>3 DEF Agrees
<1>5. Agrees(inbox, inbox \o fromDev, 0)
  <2>1. \A i \in DOMAIN inbox : i + 0 = i /\ i \in 1..Len(inbox) BY <1>1
  <2>2. \A i \in 1..Len(inbox) : i \in DOMAIN (inbox \o fromDev) /\ (inbox \o fromDev)[i] = inbox[i]
    BY <1>1, ConcatAt
  <2> QED BY <2>1, <2>2 DEF Agrees
<1>6. known' = Applied(known, inbox) /\ inbox' = <<>> BY DEF Flush, Learn
<1>7. Applied(known', inbox' \o fromDev')[c] = Applied(known, inbox \o fromDev)[c]
  BY <1>1, <1>2, <1>4, <1>5, <1>6, ReportedRead DEF TypeInv
<1> QED BY <1>7 DEF Reported

LEMMA NewsSend ==
  ASSUME TypeInv, TypeOK', NewsInv, Send
  PROVE  NewsInv'
<1> SUFFICES ASSUME alive PROVE ReadReported' /\ OwnReported' /\ PeeksUnsure'
  BY DEF NewsInv, Send, linkVars
<1> DEFINE s == Head(todo)
           r == [op |-> s.op, field |-> s.field, vals |-> PutVals(s), mine |-> TRUE]
           q == Disown(toDev)
<1>1. /\ s \in Steps /\ PutVals(s) \in [s.cells -> Values] /\ PutVals(s) \in Payloads
      /\ s.cells \subseteq CellsOf(s.field)
  BY PutValsType DEF Send, TypeInv, TypeOK
<1>2. r \in Requests BY <1>1 DEF Steps, Requests
<1>3. toDev \in Seq(Requests) /\ q \in Seq(Requests) /\ fromDev \in Seq(Messages)
  BY DisownRequests DEF TypeInv, TypeOK
<1>4. /\ toDev' = Append(q, r) /\ fromDev' = Disown(fromDev) /\ Flush
      /\ sure' = (IF LeavesDoubt(s) THEN sure \ {s.field} ELSE sure)
      /\ UNCHANGED <<device, todo>>
  BY DEF Send
<1>5. /\ r.op = s.op /\ r.field = s.field /\ r.vals = PutVals(s)
      /\ DOMAIN r.vals \subseteq CellsOf(s.field)
  BY <1>1
<1>6. \A i \in DOMAIN q : /\ i \in DOMAIN toDev /\ q[i].op = toDev[i].op /\ q[i].field = toDev[i].field
                          /\ q[i].vals = toDev[i].vals
  BY <1>3, DisownedRequests
<1>7. /\ DOMAIN fromDev' = DOMAIN fromDev /\ Len(fromDev') = Len(fromDev)
      /\ \A i \in DOMAIN fromDev : /\ fromDev'[i].kind = fromDev[i].kind
                                   /\ fromDev'[i].vals = fromDev[i].vals
                                   /\ fromDev'[i].mine = FALSE
  BY <1>3, <1>4, DisownedMessages
<1>8. PeeksUnsure' BY <1>4 DEF PeeksUnsure, LeavesDoubt
<1> HIDE DEF q, r, s
<1>9. \A i \in DOMAIN toDev' : (i \in DOMAIN q /\ toDev'[i] = q[i]) \/ toDev'[i] = r
  BY <1>2, <1>3, <1>4, AppendElements
<1>10. \A c \in Cells : Reported(c) => Reported(c)'
  BY <1>4, <1>7, NewsFlush
<1>11. ReadReported'
  <2> SUFFICES ASSUME NEW c \in Cells, FieldOf[c] \in sure' \ InOrder(Polled)
               PROVE  /\ Reported(c)'
                      /\ \A i \in DOMAIN toDev' : Mute(toDev'[i]) => c \notin DOMAIN toDev'[i].vals
    BY DEF ReadReported
  <2>1. FieldOf[c] \in sure \ InOrder(Polled) /\ (Mute(s) => FieldOf[c] # s.field)
    BY <1>4 DEF LeavesDoubt, Mute
  <2>2. Reported(c)' BY <1>10, <2>1 DEF NewsInv, ReadReported
  <2>3. Mute(r) => c \notin DOMAIN r.vals BY <1>5, <2>1 DEF CellsOf, Mute
  <2> QED BY <1>6, <1>9, <2>1, <2>2, <2>3 DEF NewsInv, ReadReported, Mute
<1>12. OwnReported' BY <1>7 DEF OwnReported
<1> QED BY <1>8, <1>11, <1>12

\* What is left of a read after its answer, and what is still on its way, is
\* what was on its way behind the answer.
LEMMA LeftElements ==
  ASSUME TypeInv, WireInv, mode = "wait", NEW n \in 0..Len(fromDev), NEW cut \in Cuts,
         RecvAnswer(n, cut)
  PROVE  LET ms == Buffered(n)
             j  == Min(Answers(ms))
             w  == inbox' \o fromDev'
         IN /\ Len(ms) = n /\ \A i \in DOMAIN ms : i \in DOMAIN fromDev /\ ms[i] = fromDev[i]
            /\ w \in Seq(Messages) /\ Len(fromDev) = j + Len(w)
            /\ Agrees(w, fromDev, j)
            /\ \A i \in DOMAIN fromDev' : Len(inbox') + i \in DOMAIN w /\ w[Len(inbox') + i] = fromDev'[i]
<1> DEFINE ms == Buffered(n)
           j  == Min(Answers(ms))
           w  == inbox' \o fromDev'
<1>1. ms \in Seq(Messages) /\ j \in 1..Len(ms) BY AnswerOnWire
<1>2. /\ fromDev \in Seq(Messages) /\ inbox = <<>> /\ n \in Nat /\ Len(fromDev) \in Nat
      /\ n <= Len(fromDev)
  BY DEF TypeInv, TypeOK, WireInv
<1>3. inbox \o fromDev = fromDev /\ Len(inbox) = 0 BY <1>2
<1>4. Len(ms) = n /\ \A i \in DOMAIN ms : i \in DOMAIN fromDev /\ ms[i] = fromDev[i]
  <2>1. Len(ms) = Len(inbox) + n
        /\ \A i \in DOMAIN ms : i \in DOMAIN (inbox \o fromDev) /\ ms[i] = (inbox \o fromDev)[i]
    BY BufferedElements DEF TypeInv
  <2> QED BY <1>2, <1>3, <2>1
<1>5. Arrives(n, cut) /\ inbox' = SubSeq(ms, j + 1, Len(ms)) BY DEF RecvAnswer
<1>6. /\ Len(fromDev') = Len(fromDev) - n /\ fromDev' \in Seq(Messages)
      /\ \A i \in DOMAIN fromDev' : i + n \in DOMAIN fromDev /\ fromDev'[i] = fromDev[i + n]
  BY <1>5, SuffixElements, ArrivesType DEF TypeInv
<1> HIDE DEF ms, j
<1>7. /\ inbox' \in Seq(Messages) /\ Len(inbox') = n - j
      /\ \A i \in 1..(n - j) : inbox'[i] = ms[j + i]
  <2>1. j \in Nat /\ 1 <= j /\ j <= n BY <1>1, <1>2, <1>4
  <2>2. \A i \in (j + 1)..Len(ms) : ms[i] \in Messages BY <1>1, <1>4, <2>1
  <2>3. /\ inbox' \in Seq(Messages)
        /\ Len(inbox') = IF j + 1 <= Len(ms) THEN Len(ms) - (j + 1) + 1 ELSE 0
        /\ \A i \in 1..(Len(ms) - (j + 1) + 1) : inbox'[i] = ms[(j + 1) + i - 1]
    BY <1>1, <1>4, <1>5, <2>1, <2>2, SubSeqProperties
  <2>4. Len(ms) - (j + 1) + 1 = n - j BY <1>2, <1>4, <2>1
  <2>5. \A i \in 1..(n - j) : (j + 1) + i - 1 = j + i BY <1>2, <2>1
  <2>6. Len(inbox') = n - j BY <1>2, <1>4, <2>1, <2>3
  <2> QED BY <2>3, <2>4, <2>5, <2>6
<1>8. /\ w \in Seq(Messages) /\ Len(w) = Len(inbox') + Len(fromDev')
      /\ DOMAIN w = 1..(Len(inbox') + Len(fromDev'))
      /\ \A i \in 1..Len(inbox') : w[i] = inbox'[i]
      /\ \A i \in 1..Len(fromDev') : w[Len(inbox') + i] = fromDev'[i]
      /\ \A i \in (Len(inbox') + 1)..(Len(inbox') + Len(fromDev')) :
            i - Len(inbox') \in 1..Len(fromDev') /\ w[i] = fromDev'[i - Len(inbox')]
  <2> DEFINE x == inbox'
             y == fromDev'
             z == x \o y
  <2>1. x \in Seq(Messages) /\ y \in Seq(Messages) BY <1>6, <1>7
  <2> HIDE DEF x, y
  <2>2. /\ z \in Seq(Messages) /\ Len(z) = Len(x) + Len(y)
        /\ DOMAIN z = 1..(Len(x) + Len(y))
        /\ \A i \in 1..Len(x) : z[i] = x[i]
        /\ \A i \in 1..Len(y) : z[Len(x) + i] = y[i]
        /\ \A i \in (Len(x) + 1)..(Len(x) + Len(y)) :
              i - Len(x) \in 1..Len(y) /\ z[i] = y[i - Len(x)]
    BY <2>1, ConcatAt
  <2> QED BY <2>2 DEF x, y
<1> HIDE DEF w
<1>9. j \in Nat /\ 1 <= j /\ j <= n BY <1>1, <1>2, <1>4
<1>10. Len(fromDev) = j + Len(w)
  <2>1. Len(w) = (n - j) + (Len(fromDev) - n) BY <1>6, <1>7, <1>8
  <2> QED BY <1>2, <1>9, <2>1
<1>11. ASSUME NEW i \in DOMAIN w PROVE i + j \in DOMAIN fromDev /\ w[i] = fromDev[i + j]
  <2>1. i \in 1..((n - j) + (Len(fromDev) - n)) BY <1>6, <1>7, <1>8
  <2>2. CASE i <= n - j
    <3>1. i \in 1..(n - j) BY <1>2, <1>9, <2>1, <2>2
    <3>2. j + i \in DOMAIN ms /\ i + j = j + i BY <1>1, <1>2, <1>4, <1>9, <3>1
    <3> QED BY <1>4, <1>7, <1>8, <3>1, <3>2
  <2>3. CASE ~(i <= n - j)
    <3>1. i \in ((n - j) + 1)..((n - j) + Len(fromDev')) BY <1>2, <1>6, <1>9, <2>1, <2>3
    <3>2. i - (n - j) \in DOMAIN fromDev' /\ w[i] = fromDev'[i - (n - j)] BY <1>6, <1>7, <1>8, <3>1
    <3>3. (i - (n - j)) + n = i + j BY <1>2, <1>9, <3>1
    <3> QED BY <1>6, <3>2, <3>3
  <2> QED BY <2>2, <2>3
<1>12. Agrees(w, fromDev, j) BY <1>11 DEF Agrees
<1>13. \A i \in DOMAIN fromDev' : Len(inbox') + i \in DOMAIN w /\ w[Len(inbox') + i] = fromDev'[i]
  <2>1. DOMAIN fromDev' = 1..Len(fromDev') /\ Len(inbox') \in Nat /\ Len(fromDev') \in Nat
    BY <1>6, <1>7
  <2> QED BY <1>8, <2>1
<1> QED BY <1>4, <1>8, <1>10, <1>12, <1>13 DEF ms, j, w

\* An exchange reads its answer: the handler that looks at it without applying
\* it (a peek) is not sure of the field.
LEMMA NewsAnswered ==
  ASSUME TypeInv, TypeOK', WireInv, NewsInv, RecvOwn
  PROVE  NewsInv'
<1> SUFFICES ASSUME alive PROVE ReadReported' /\ OwnReported' /\ PeeksUnsure'
  BY DEF NewsInv, RecvOwn, linkVars
<1>1. PICK n \in 0..Len(fromDev), cut \in Cuts : RecvAnswer(n, cut) BY DEF RecvOwn
<1> DEFINE ms == Buffered(n)
           j  == Min(Answers(ms))
           s  == Head(todo)
           a  == IF s.op = "peek" THEN j - 1 ELSE j
           u  == SubSeq(ms, 1, a)
           w  == inbox' \o fromDev'
<1>2. UNCHANGED <<toDev, device>> /\ mode = "wait" BY DEF RecvOwn
<1>3. /\ ms \in Seq(Messages) /\ j \in 1..Len(ms) /\ j \in DOMAIN fromDev
      /\ ms[j] = fromDev[j] /\ fromDev[j] \in Messages /\ ms[j].field = s.field
  BY <1>1, <1>2, AnswerOnWire
<1>4. /\ Len(ms) = n /\ \A i \in DOMAIN ms : i \in DOMAIN fromDev /\ ms[i] = fromDev[i]
      /\ w \in Seq(Messages) /\ Len(fromDev) = j + Len(w)
      /\ Agrees(w, fromDev, j)
      /\ \A i \in DOMAIN fromDev' : Len(inbox') + i \in DOMAIN w /\ w[Len(inbox') + i] = fromDev'[i]
  BY <1>1, <1>2, LeftElements
<1>5. known' = Applied(known, u) BY <1>1 DEF RecvAnswer, Learn
<1>6. sure' = sure \/ (s.op = "get" /\ ms[j].mine /\ sure' = sure \cup {s.field})
  BY <1>1 DEF RecvAnswer
<1>7. mode' # "wait" BY <1>1 DEF RecvAnswer, StepFails, GoOn
<1>8. fromDev \in Seq(Messages) /\ inbox = <<>> BY <1>2 DEF TypeInv, TypeOK, WireInv
<1>9. inbox \o fromDev = fromDev BY <1>8
<1> HIDE DEF ms, j, s, w
<1>10. /\ a \in Nat /\ j \in Nat /\ a <= j /\ j <= a + 1 /\ (s.op # "peek" => a = j)
       /\ a <= Len(ms) /\ Len(ms) \in Nat
  BY <1>3
<1>11. u \in Seq(Messages) /\ Len(u) = a /\ \A i \in 1..a : u[i] = ms[i]
  <2>1. \A i \in 1..a : ms[i] \in Messages BY <1>3, <1>10
  <2>2. /\ u \in Seq(Messages) /\ Len(u) = (IF 1 <= a THEN a - 1 + 1 ELSE 0)
        /\ \A i \in 1..(a - 1 + 1) : u[i] = ms[1 + i - 1]
    BY <1>3, <1>10, <2>1, SubSeqProperties
  <2>3. a - 1 + 1 = a /\ \A i \in 1..a : 1 + i - 1 = i BY <1>10
  <2>4. Len(u) = a BY <1>10, <2>2
  <2> QED BY <2>2, <2>3, <2>4
<1> HIDE DEF a, u
<1>12. Agrees(u, fromDev, 0)
  <2> SUFFICES ASSUME NEW i \in DOMAIN u PROVE i + 0 = i /\ i \in DOMAIN fromDev /\ u[i] = fromDev[i]
    BY DEF Agrees
  <2>1. i \in 1..a /\ i \in DOMAIN ms /\ i + 0 = i BY <1>3, <1>10, <1>11
  <2> QED BY <1>4, <1>11, <2>1
<1>13. ASSUME NEW c \in Cells, Reported(c),
              s.op # "peek" \/ c \notin DOMAIN fromDev[j].vals \/ Tells(w, c) # {}
       PROVE  Reported(c)'
  <2>1. (\A i \in Tells(fromDev, c) : i <= a \/ j < i) \/ Tells(w, c) # {}
    <3> SUFFICES ASSUME s.op # "peek" \/ c \notin DOMAIN fromDev[j].vals,
                        NEW i \in Tells(fromDev, c)
                 PROVE  i <= a \/ j < i
      BY <1>13
    <3>1. i \in Nat /\ c \in DOMAIN fromDev[i].vals BY <1>8 DEF Tells
    <3>2. i # j \/ a = j BY <1>10, <3>1
    <3> QED BY <1>10, <3>1, <3>2
  <2>2. Applied(Applied(known, u), w)[c] = Applied(known, fromDev)[c]
    BY <1>4, <1>8, <1>10, <1>11, <1>12, <2>1, AppliedSkip
  <2> QED BY <1>2, <1>5, <1>9, <1>13, <2>2 DEF Reported, w
<1>14. ReadReported'
  <2> SUFFICES ASSUME NEW c \in Cells, FieldOf[c] \in sure' \ InOrder(Polled)
               PROVE  /\ Reported(c)'
                      /\ \A i \in DOMAIN toDev' : Mute(toDev'[i]) => c \notin DOMAIN toDev'[i].vals
    BY DEF ReadReported
  <2>1. CASE FieldOf[c] \in sure
    <3>1. s.op = "peek" => FieldOf[c] # s.field
      BY <1>2, <2>1 DEF NewsInv, PeeksUnsure, s
    <3>2. s.op = "peek" => c \notin DOMAIN fromDev[j].vals BY <1>3, <3>1, ToldCells
    <3> QED BY <1>2, <1>13, <2>1, <3>2 DEF NewsInv, ReadReported
  <2>2. CASE FieldOf[c] \notin sure
    <3>1. s.op = "get" /\ fromDev[j].mine /\ FieldOf[c] = s.field /\ fromDev[j].kind = "status"
      <4>1. sure' # sure BY <2>2
      <4>2. ms[j].kind # "error" BY <1>1, <4>1 DEF RecvAnswer, ms, j
      <4> QED BY <1>3, <1>6, <2>2, <4>1, <4>2, MessageFacts
    <3>2. c \in DOMAIN fromDev[j].vals
      <4>1. fromDev[j].vals \in [CellsOf(s.field) -> Values] BY <1>3, <3>1, MessageFacts
      <4> QED BY <3>1, <4>1 DEF CellsOf
    <3>3. Reported(c) BY <1>3, <3>1, <3>2 DEF NewsInv, OwnReported
    <3>4. toDev = <<>> BY <1>3, <3>1 DEF WireInv
    <3>5. DOMAIN toDev' = {} BY <1>2, <3>4
    <3> QED BY <1>13, <3>1, <3>3, <3>5
  <2> QED BY <2>1, <2>2
<1>15. OwnReported'
  <2> SUFFICES ASSUME NEW i \in DOMAIN fromDev', fromDev'[i].mine, NEW c \in DOMAIN fromDev'[i].vals,
                      FieldOf[c] \notin InOrder(Polled)
               PROVE  Reported(c)'
    BY DEF OwnReported
  <2>1. fromDev'[i] \in Messages BY DEF TypeOK
  <2>2. c \in Cells /\ fromDev'[i].kind = "status" BY <2>1, ToldCells
  <2>3. Len(inbox') + i \in Tells(w, c) BY <1>4, <2>2 DEF Tells
  <2>4. n \in Nat /\ i + n \in DOMAIN fromDev /\ fromDev'[i] = fromDev[i + n]
    BY <1>1, SuffixElements DEF RecvAnswer, TypeInv
  <2>5. Reported(c) BY <2>4 DEF NewsInv, OwnReported
  <2> QED BY <1>13, <2>2, <2>3, <2>5
<1>16. PeeksUnsure' BY <1>7 DEF PeeksUnsure
<1> QED BY <1>14, <1>15, <1>16

\* The headset serves a request.
LEMMA NewsServed ==
  ASSUME TypeInv, TypeInv', WireInv, NewsInv, DeviceReads \/ DeviceSets \/ DeviceIgnores
  PROVE  NewsInv'
<1> DEFINE r == Head(toDev)
           m == Status(r.field, device', r.mine)
<1>1. Served /\ r \in Requests /\ UNCHANGED <<alive, known, inbox, mode, todo, sure>>
  BY ServedType DEF DeviceReads, DeviceSets, DeviceIgnores, linkVars, parseVars, TypeInv
<1> SUFFICES ASSUME alive PROVE ReadReported' /\ OwnReported' /\ PeeksUnsure'
  BY <1>1 DEF NewsInv
<1>2. Replies(r, device') /\ device' \in [Cells -> Values]
  BY DEF DeviceReads, DeviceSets, DeviceIgnores, TypeInv, TypeOK
<1>3. \A c \in Cells : device'[c] = device[c]
                       \/ (r.op = "put" /\ c \in DOMAIN r.vals /\ device'[c] = r.vals[c])
  BY DEF DeviceReads, DeviceSets, DeviceIgnores
<1>4. /\ m \in Messages /\ m.kind = "status" /\ m.mine = r.mine
      /\ \A c \in DOMAIN m.vals : m.vals[c] = device'[c]
  BY <1>1, <1>2, StatusType DEF Requests, Status
<1>5. fromDev' = Append(fromDev, m) \/ fromDev' = fromDev BY <1>2 DEF Replies
<1>6. /\ toDev \in Seq(Requests) /\ toDev # <<>> /\ r = toDev[1] /\ 1 \in DOMAIN toDev
      /\ \A i \in DOMAIN toDev' : i + 1 \in DOMAIN toDev /\ toDev'[i] = toDev[i + 1]
  <2>1. toDev \in Seq(Requests) /\ toDev # <<>> /\ toDev' = Tail(toDev)
    BY <1>1 DEF Served, TypeInv, TypeOK
  <2> QED BY <2>1, TailElements
<1> HIDE DEF m, r
<1>7. ASSUME NEW c \in Cells, Reported(c), device'[c] = device[c] PROVE Reported(c)'
  <2>1. CASE fromDev' = fromDev BY <1>1, <1>7, <2>1 DEF Reported
  <2>2. CASE fromDev' = Append(fromDev, m) /\ c \in DOMAIN m.vals
    BY <1>1, <1>4, <2>2, ReportedAppend DEF TypeInv
  <2>3. CASE fromDev' = Append(fromDev, m) /\ c \notin DOMAIN m.vals
    BY <1>1, <1>4, <1>7, <2>3, ReportedAppend DEF TypeInv
  <2> QED BY <1>5, <2>1, <2>2, <2>3
<1>8. ReadReported'
  <2> SUFFICES ASSUME NEW c \in Cells, FieldOf[c] \in sure \ InOrder(Polled)
               PROVE  /\ Reported(c)'
                      /\ \A i \in DOMAIN toDev' : Mute(toDev'[i]) => c \notin DOMAIN toDev'[i].vals
    BY <1>1 DEF ReadReported
  <2>1. Reported(c) /\ \A i \in DOMAIN toDev : Mute(toDev[i]) => c \notin DOMAIN toDev[i].vals
    BY DEF NewsInv, ReadReported
  <2>2. CASE device'[c] = device[c]
    <3>1. Reported(c)' BY <1>7, <2>1, <2>2
    <3> QED BY <1>6, <2>1, <3>1
  <2>3. CASE device'[c] # device[c]
    <3>1. r.op = "put" /\ c \in DOMAIN r.vals BY <1>3, <2>3
    <3>2. ~Mute(r) BY <1>6, <2>1, <3>1
    <3>3. fromDev' = Append(fromDev, m) BY <1>2, <3>1, <3>2 DEF Replies, Mute, m
    <3>4. c \in DOMAIN m.vals
      <4>1. DOMAIN r.vals \subseteq CellsOf(r.field) BY <1>6 DEF WireInv
      <4> QED BY <3>1, <4>1 DEF Status, m
    <3>5. Reported(c)' BY <1>1, <1>4, <3>3, <3>4, ReportedAppend DEF TypeInv
    <3> QED BY <1>6, <2>1, <3>5
  <2> QED BY <2>2, <2>3
<1>9. OwnReported'
  <2> SUFFICES ASSUME NEW i \in DOMAIN fromDev', fromDev'[i].mine, NEW c \in DOMAIN fromDev'[i].vals
               PROVE  Reported(c)'
    BY DEF OwnReported
  <2>1. \A k \in DOMAIN fromDev : ~fromDev[k].mine BY <1>6 DEF WireInv
  <2>2. fromDev' = Append(fromDev, m) /\ fromDev'[i] = m
    <3>1. fromDev' = Append(fromDev, m) BY <1>5, <2>1
    <3> QED BY <1>4, <2>1, <3>1, AppendElements DEF TypeInv, TypeOK
  <2>3. c \in Cells BY <1>4, <2>2, ToldCells
  <2> QED BY <1>1, <1>4, <2>2, <2>3, ReportedAppend DEF TypeInv
<1>10. PeeksUnsure' BY <1>1 DEF NewsInv, PeeksUnsure
<1> QED BY <1>8, <1>9, <1>10

\* Or refuses it.
LEMMA NewsRefused ==
  ASSUME TypeInv, TypeInv', WireInv, NewsInv, DeviceRefuses
  PROVE  NewsInv'
<1> DEFINE r == Head(toDev)
           m == [kind |-> "error", field |-> r.field, vals |-> Nothing, mine |-> r.mine]
<1>1. Served /\ r \in Requests /\ UNCHANGED <<alive, known, inbox, mode, todo, sure, device>>
  BY ServedType DEF DeviceRefuses, linkVars, parseVars, TypeInv
<1> SUFFICES ASSUME alive PROVE ReadReported' /\ OwnReported' /\ PeeksUnsure'
  BY <1>1 DEF NewsInv
<1>2. m \in Messages /\ m.kind = "error" /\ fromDev' = Append(fromDev, m) /\ DOMAIN m.vals = {}
  BY <1>1, NothingType DEF Requests, Messages, Errors, DeviceRefuses
<1>3. /\ toDev \in Seq(Requests) /\ toDev # <<>>
      /\ \A i \in DOMAIN toDev' : i + 1 \in DOMAIN toDev /\ toDev'[i] = toDev[i + 1]
  <2>1. toDev \in Seq(Requests) /\ toDev # <<>> /\ toDev' = Tail(toDev)
    BY <1>1 DEF Served, TypeInv, TypeOK
  <2> QED BY <2>1, TailElements
<1> HIDE DEF m, r
<1>4. ASSUME NEW c \in Cells, Reported(c) PROVE Reported(c)'
  BY <1>1, <1>2, <1>4, ReportedAppend DEF TypeInv
<1>5. ReadReported' BY <1>1, <1>3, <1>4 DEF NewsInv, ReadReported
<1>6. \A i \in DOMAIN fromDev : ~fromDev[i].mine
  <2>1. 1 \in DOMAIN toDev BY <1>3
  <2> QED BY <1>3 DEF WireInv
<1>7. \A i \in DOMAIN fromDev' : (i \in DOMAIN fromDev /\ fromDev'[i] = fromDev[i]) \/ fromDev'[i] = m
  BY <1>2, AppendElements DEF TypeInv, TypeOK
<1>8. OwnReported' BY <1>2, <1>6, <1>7 DEF OwnReported
<1>9. PeeksUnsure' BY <1>1 DEF NewsInv, PeeksUnsure
<1> QED BY <1>5, <1>8, <1>9

\* The headset changes: it says so, or the field is polled.
LEMMA NewsChanged ==
  ASSUME TypeInv, TypeInv', NewsInv, NEW c \in Cells, NEW v \in Values, DeviceChanges(c, v)
  PROVE  NewsInv'
<1> DEFINE m == Status(FieldOf[c], device', FALSE)
<1>1. UNCHANGED <<alive, known, inbox, mode, todo, sure, toDev>>
  BY DEF DeviceChanges, linkVars, parseVars
<1> SUFFICES ASSUME alive PROVE ReadReported' /\ OwnReported' /\ PeeksUnsure'
  BY <1>1 DEF NewsInv
<1>2. device' = [device EXCEPT ![c] = v] /\ device \in [Cells -> Values] /\ device' \in [Cells -> Values]
  BY DEF DeviceChanges, TypeInv, TypeOK
<1>3. /\ m \in Messages /\ m.kind = "status" /\ m.mine = FALSE
      /\ \A x \in DOMAIN m.vals : m.vals[x] = device'[x]
      /\ c \in DOMAIN m.vals
  <2>1. FieldOf[c] \in Fields BY SessionAssumption
  <2>2. m \in Messages BY <1>2, <2>1, StatusType
  <2>3. m.kind = "status" /\ m.mine = FALSE /\ m.vals = [x \in CellsOf(FieldOf[c]) |-> device'[x]]
    BY DEF Status
  <2>4. c \in CellsOf(FieldOf[c]) BY DEF CellsOf
  <2> HIDE DEF m
  <2> QED BY <2>2, <2>3, <2>4
<1>4. fromDev' = Append(fromDev, m) \/ (FieldOf[c] \in InOrder(Polled) /\ fromDev' = fromDev)
  BY DEF DeviceChanges
<1> HIDE DEF m
<1>5. ASSUME NEW x \in Cells, Reported(x), FieldOf[x] \notin InOrder(Polled) PROVE Reported(x)'
  <2>1. CASE fromDev' = Append(fromDev, m) /\ x \in DOMAIN m.vals
    BY <1>1, <1>3, <2>1, ReportedAppend DEF TypeInv
  <2>2. CASE fromDev' = Append(fromDev, m) /\ x \notin DOMAIN m.vals
    <3>1. device'[x] = device[x] BY <1>2, <1>3, <2>2
    <3> QED BY <1>1, <1>3, <1>5, <2>2, <3>1, ReportedAppend DEF TypeInv
  <2>3. CASE FieldOf[c] \in InOrder(Polled) /\ fromDev' = fromDev
    <3>1. x # c BY <1>5, <2>3
    <3>2. device'[x] = device[x] BY <1>2, <3>1
    <3> QED BY <1>1, <1>5, <2>3, <3>2 DEF Reported
  <2> QED BY <1>4, <2>1, <2>2, <2>3
<1>6. ReadReported' BY <1>1, <1>5 DEF NewsInv, ReadReported
<1>7. \A i \in DOMAIN fromDev' : (i \in DOMAIN fromDev /\ fromDev'[i] = fromDev[i]) \/ fromDev'[i] = m
  <2>1. CASE fromDev' = fromDev BY <2>1
  <2>2. CASE fromDev' = Append(fromDev, m)
    BY <1>3, <2>2, AppendElements DEF TypeInv, TypeOK
  <2> QED BY <1>4, <2>1, <2>2
<1>8. OwnReported'
  <2>1. \A i \in DOMAIN fromDev : DOMAIN fromDev[i].vals \subseteq Cells
    BY ToldCells DEF TypeInv, TypeOK
  <2> QED BY <1>3, <1>5, <1>7, <2>1 DEF NewsInv, OwnReported
<1>9. PeeksUnsure' BY <1>1 DEF NewsInv, PeeksUnsure
<1> QED BY <1>6, <1>8, <1>9

LEMMA NewsStep == TypeInv /\ WireInv /\ DownInv /\ NewsInv /\ [Next]_vars => NewsInv'
<1> SUFFICES ASSUME TypeInv, WireInv, DownInv, NewsInv, [Next]_vars PROVE NewsInv' OBVIOUS
<1>1. TypeInv' BY TypeStep
<1>2. CASE Connect
  <2>1. fromDev' = <<>> /\ sure' = {} BY <1>2 DEF Connect, DownInv, wireVars
  <2>2. DOMAIN fromDev' = {} BY <2>1
  <2>3. mode' # "wait" BY <1>2 DEF Connect, Begin, GoOn
  <2> QED BY <2>1, <2>2, <2>3 DEF NewsInv, ReadReported, OwnReported, PeeksUnsure
<1>3. CASE SendStalls
  <2>1. mode' # "wait" /\ Flush /\ UNCHANGED <<alive, fromDev, toDev, device, sure>>
    BY <1>3 DEF SendStalls, StepFails, GoOn, linkVars, wireVars
  <2>2. \A c \in Cells : Reported(c) => Reported(c)'
    BY <1>1, <2>1, NewsFlush DEF TypeInv
  <2>3. \A i \in DOMAIN fromDev : DOMAIN fromDev[i].vals \subseteq Cells
    BY ToldCells DEF TypeInv, TypeOK
  <2> QED BY <2>1, <2>2, <2>3 DEF NewsInv, ReadReported, OwnReported, PeeksUnsure
<1>4. CASE WriteTimesOut \/ ReadTimesOut \/ Refresh \/ WriteAny \/ Finish
  <2>1. mode' # "wait"
    BY <1>4 DEF WriteTimesOut, ReadTimesOut, StepFails, Refresh, WriteAny, Write, Begin, Finish, GoOn
  <2>2. UNCHANGED <<alive, known, inbox, fromDev, toDev, device, sure>>
    BY <1>4 DEF WriteTimesOut, ReadTimesOut, Refresh, WriteAny, Write, Finish, linkVars, wireVars,
       parseVars
  <2> QED BY <2>1, <2>2 DEF NewsInv, ReadReported, OwnReported, PeeksUnsure, Reported
<1>5. CASE LinkFails \/ LinkLost \/ Reconnect \/ SignalUsr1 \/ LinkDies
  BY <1>5 DEF LinkFails, LinkLost, Reconnect, SignalUsr1, LinkDies, Drop, NewsInv
<1>6. CASE UNCHANGED vars
  BY <1>6 DEF vars, linkVars, wireVars, parseVars, NewsInv, ReadReported, OwnReported,
     PeeksUnsure, Reported
<1>7. CASE Send BY <1>1, <1>7, NewsSend DEF TypeInv
<1>8. CASE Feed \/ RecvOthers BY <1>1, <1>8, NewsRead DEF TypeInv
<1>9. CASE RecvOwn BY <1>1, <1>9, NewsAnswered DEF TypeInv
<1>10. CASE DeviceReads \/ DeviceSets \/ DeviceIgnores BY <1>1, <1>10, NewsServed
<1>11. CASE DeviceRefuses BY <1>1, <1>11, NewsRefused
<1>12. ASSUME NEW c \in Cells, NEW v \in Values, DeviceChanges(c, v)
       PROVE  NewsInv'
  BY <1>1, <1>12, NewsChanged
<1> QED BY <1>2, <1>3, <1>4, <1>5, <1>6, <1>7, <1>8, <1>9, <1>10, <1>11, <1>12
        DEF Next, Exchange, Loop, Headset

\* With nothing under way, what StateEngine has of the fields that were read, and
\* are neither polled nor in doubt, is what the headset has, refused and unanswered
\* writes included.
THEOREM PublishedIsTrue == Spec => []SettingsTrueAtRest
<1>1. Init => DownInv /\ NewsInv BY DEF Init, DownInv, NewsInv
<1>2. TypeInv /\ WireInv /\ DownInv /\ NewsInv /\ [Next]_vars => DownInv' /\ NewsInv'
  BY DownStep, NewsStep
<1>3. TypeInv /\ NewsInv => SettingsTrueAtRest
  <2> SUFFICES ASSUME TypeInv, NewsInv, alive, fromDev = <<>>, inbox = <<>>,
                      NEW c \in Cells, FieldOf[c] \in sure \ InOrder(Polled)
               PROVE  known[c] = device[c]
    BY DEF SettingsTrueAtRest, AtRest
  <2>1. Applied(known, inbox \o fromDev)[c] = device[c] BY DEF NewsInv, ReadReported, Reported
  <2> DEFINE q == inbox \o fromDev
  <2>2. q = <<>> OBVIOUS
  <2> HIDE DEF q
  <2>3. DOMAIN q = {} BY <2>2
  <2>4. Tells(q, c) = {} BY <2>3 DEF Tells
  <2>5. Applied(known, q)[c] = known[c] BY <2>4, AppliedNone
  <2> QED BY <2>1, <2>5 DEF q
<1> QED BY <1>1, <1>2, <1>3, TypeAlways, WireAlways, PTL DEF Spec
=============================================================================
