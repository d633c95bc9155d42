-------------------------- MODULE BmapCodecProofs --------------------------
(* The framing of BMAP, for any messages and any way the stream is cut.    *)
EXTENDS BmapCodec, TLAPS, SequenceTheorems

LEMMA MessageParts ==
    ASSUME NEW m \in Messages
    PROVE  /\ m.fblock \in Byte /\ m.func \in Byte /\ m.op \in 0..15
           /\ m.payload \in Seq(Byte) /\ Len(m.payload) \in 0..255
           /\ DOMAIN m.payload = 1..Len(m.payload)
<1>1. m \in [fblock : Byte, func : Byte, op : 0..15, payload : Seq(Byte)]
      /\ Len(m.payload) <= 255
  BY DEF Messages
<1>2. m.payload \in Seq(Byte)
  BY <1>1
<1>3. Len(m.payload) \in Nat /\ DOMAIN m.payload = 1..Len(m.payload)
  BY <1>2, LenProperties
<1>5. m.fblock \in Byte /\ m.func \in Byte /\ m.op \in 0..15
  BY <1>1
<1>4. Len(m.payload) <= 255
  BY DEF Messages
<1>6. Len(m.payload) \in 0..255
  <2>1. \A n \in Nat : n <= 255 => n \in 0..255
    OBVIOUS
  <2> QED
    BY <1>3, <1>4, <2>1
<1> QED
  BY <1>2, <1>3, <1>5, <1>6

\* bytes that begin, after the first `at` of them, with the packet of m
Carries(b, at, m) ==
    /\ b[at + 1] = m.fblock /\ b[at + 2] = m.func
    /\ b[at + 3] % 16 = m.op /\ b[at + 4] = Len(m.payload)
    /\ \A k \in 1..Len(m.payload) : b[at + 4 + k] = m.payload[k]

LEMMA HeaderAndPayload ==
    ASSUME NEW h \in Seq(Byte), Len(h) = 4, NEW q \in Seq(Byte)
    PROVE  /\ h \o q \in Seq(Byte) /\ Len(h \o q) = 4 + Len(q)
           /\ (h \o q)[1] = h[1] /\ (h \o q)[2] = h[2]
           /\ (h \o q)[3] = h[3] /\ (h \o q)[4] = h[4]
           /\ \A k \in 1..Len(q) : (h \o q)[4 + k] = q[k]
<1>1. Len(q) \in Nat
  BY LenProperties
<1>2. /\ h \o q \in Seq(Byte) /\ Len(h \o q) = 4 + Len(q)
      /\ \A i \in 1..4 + Len(q) : (h \o q)[i] = IF i <= 4 THEN h[i] ELSE q[i - 4]
  <2>1. /\ h \o q \in Seq(Byte) /\ Len(h \o q) = Len(h) + Len(q)
        /\ \A i \in 1..Len(h) + Len(q) :
             (h \o q)[i] = IF i <= Len(h) THEN h[i] ELSE q[i - Len(h)]
    BY ConcatProperties
  <2> QED
    BY <2>1
<1>3. ASSUME NEW i \in 1..4 PROVE (h \o q)[i] = h[i]
  <2>1. i \in 1..4 + Len(q) /\ i <= 4
    BY <1>1
  <2> QED
    BY <1>2, <2>1
<1>4. ASSUME NEW k \in 1..Len(q) PROVE (h \o q)[4 + k] = q[k]
  <2>1. 4 + k \in 1..4 + Len(q) /\ ~(4 + k <= 4) /\ 4 + k - 4 = k
    BY <1>1
  <2> QED
    BY <1>2, <2>1
<1>5. 1 \in 1..4 /\ 2 \in 1..4 /\ 3 \in 1..4 /\ 4 \in 1..4
  OBVIOUS
<1> QED
  BY <1>2, <1>3, <1>4, <1>5

LEMMA PacketCarries ==
    ASSUME NEW m \in Messages, NEW port \in 0..15
    PROVE  /\ Packet(m, port) \in Seq(Byte)
           /\ Len(Packet(m, port)) = 4 + Len(m.payload)
           /\ Carries(Packet(m, port), 0, m)
<1> DEFINE h == <<m.fblock, m.func, 16 * port + m.op, Len(m.payload)>>
<1>0. \A p, o \in 0..15 : (16 * p + o) % 16 = o /\ 16 * p + o \in 0..255
  OBVIOUS
<1>1. h \in Seq(Byte) /\ Len(h) = 4
  <2>1. /\ m.fblock \in Byte /\ m.func \in Byte /\ Len(m.payload) \in Byte
        /\ 16 * port + m.op \in Byte
    <3>1. /\ m.fblock \in Byte /\ m.func \in Byte /\ m.op \in 0..15
          /\ Len(m.payload) \in 0..255
      BY MessageParts
    <3>2. 16 * port + m.op \in 0..255
      BY <1>0, <3>1
    <3> QED
      BY <3>1, <3>2 DEF Byte
  <2>2. \A p, q, r, t \in Byte : <<p, q, r, t>> \in Seq(Byte) /\ Len(<<p, q, r, t>>) = 4
    OBVIOUS
  <2> QED
    BY <2>1, <2>2
<1>2. /\ h[1] = m.fblock /\ h[2] = m.func /\ h[4] = Len(m.payload)
      /\ h[3] % 16 = m.op
  <2>1. (16 * port + m.op) % 16 = m.op
    <3>1. m.op \in 0..15
      BY MessageParts
    <3> QED
      BY <1>0, <3>1
  <2> QED
    BY <2>1
<1> HIDE DEF h
<1>3. m.payload \in Seq(Byte)
  BY MessageParts
<1>4. Packet(m, port) = h \o m.payload
  BY DEF Packet, h
<1>5. 0 + 1 = 1 /\ 0 + 2 = 2 /\ 0 + 3 = 3 /\ 0 + 4 = 4
  OBVIOUS
<1> DEFINE q == m.payload
           b == h \o q
<1>6. /\ b \in Seq(Byte) /\ Len(b) = 4 + Len(q)
      /\ b[1] = h[1] /\ b[2] = h[2] /\ b[3] = h[3] /\ b[4] = h[4]
      /\ \A k \in 1..Len(q) : b[4 + k] = q[k]
  BY <1>1, <1>3, HeaderAndPayload
<1>7. Packet(m, port) = b
  BY <1>4
<1>8. /\ h[1] = m.fblock /\ h[2] = m.func /\ h[4] = Len(q) /\ h[3] % 16 = m.op
  BY <1>2
<1> HIDE DEF b
<1>9. Carries(b, 0, m)
  BY <1>5, <1>6, <1>8 DEF Carries
<1> QED
  BY <1>6, <1>7, <1>9

\* The parser takes a message back from its bytes.
LEMMA FirstIsCarried ==
    ASSUME NEW b \in Seq(Byte), NEW m \in Messages, Carries(b, 0, m),
           4 + Len(m.payload) <= Len(b)
    PROVE  /\ Complete(b) /\ First(b) = m
           /\ Rest(b) \in Seq(Byte)
           /\ Len(Rest(b)) = Len(b) - 4 - Len(m.payload)
           /\ \A k \in 1..Len(Rest(b)) : Rest(b)[k] = b[4 + Len(m.payload) + k]
<1> DEFINE n == Len(m.payload)
<1>1. n \in Nat /\ Len(b) \in Nat /\ b[4] = n /\ b[1] = m.fblock
      /\ b[2] = m.func /\ b[3] % 16 = m.op /\ m.payload \in Seq(Byte)
      /\ \A k \in 1..n : b[4 + k] = m.payload[k]
  BY MessageParts, LenProperties DEF Carries
<1>2. \A i \in 1..Len(b) : b[i] \in Byte
  BY ElementOfSeq
<1>3. SubSeq(b, 5, 4 + n) = m.payload
  <2>1. /\ SubSeq(b, 5, 4 + n) \in Seq(Byte)
        /\ Len(SubSeq(b, 5, 4 + n)) = n
        /\ \A i \in 1..n : SubSeq(b, 5, 4 + n)[i] = b[4 + i]
    <3>1. \A i \in 5..4 + n : b[i] \in Byte
      BY <1>1, <1>2
    <3>2. /\ SubSeq(b, 5, 4 + n) \in Seq(Byte)
          /\ Len(SubSeq(b, 5, 4 + n)) = IF 5 <= 4 + n THEN 4 + n - 5 + 1 ELSE 0
          /\ \A i \in 1..4 + n - 5 + 1 : SubSeq(b, 5, 4 + n)[i] = b[5 + i - 1]
      BY <1>1, <3>1, SubSeqProperties
    <3> QED
      BY <1>1, <3>2
  <2> QED
    BY <1>1, <2>1, SeqEqual
<1>4. First(b) = m
  <2>1. First(b) = [fblock |-> m.fblock, func |-> m.func, op |-> m.op,
                    payload |-> m.payload]
    BY <1>1, <1>3 DEF First
  <2> QED
    BY <2>1 DEF Messages
<1>5. Complete(b)
  BY <1>1 DEF Complete
<1>6. /\ Rest(b) \in Seq(Byte) /\ Len(Rest(b)) = Len(b) - 4 - n
      /\ \A k \in 1..Len(Rest(b)) : Rest(b)[k] = b[4 + n + k]
  <2>1. \A i \in 5 + n..Len(b) : b[i] \in Byte
    BY <1>1, <1>2
  <2>2. /\ SubSeq(b, 5 + n, Len(b)) \in Seq(Byte)
        /\ Len(SubSeq(b, 5 + n, Len(b)))
             = IF 5 + n <= Len(b) THEN Len(b) - (5 + n) + 1 ELSE 0
        /\ \A i \in 1..Len(b) - (5 + n) + 1 :
             SubSeq(b, 5 + n, Len(b))[i] = b[5 + n + i - 1]
    <3>1. 5 + n \in Int /\ Len(b) \in Int
      BY <1>1
    <3> HIDE DEF n
    <3> QED
      BY <2>1, <3>1, SubSeqProperties
  <2>3. Rest(b) = SubSeq(b, 5 + n, Len(b))
    BY <1>1 DEF Rest
  <2>4. Len(b) - (5 + n) + 1 = Len(b) - 4 - n
    BY <1>1
  <2>5. Len(SubSeq(b, 5 + n, Len(b))) = Len(b) - 4 - n
    <3>1. Len(b) - (5 + n) + 1 = Len(b) - 4 - n
          /\ (~(5 + n <= Len(b)) => Len(b) - 4 - n = 0)
      BY <1>1
    <3> QED
      BY <2>2, <3>1
  <2>6. ASSUME NEW i \in 1..Len(Rest(b)) PROVE Rest(b)[i] = b[4 + n + i]
    <3>1. i \in 1..Len(b) - (5 + n) + 1 /\ 5 + n + i - 1 = 4 + n + i
      BY <1>1, <2>3, <2>4, <2>5
    <3> QED
      BY <2>2, <2>3, <3>1
  <2> QED
    BY <2>2, <2>3, <2>5, <2>6
<1> QED
  BY <1>4, <1>5, <1>6

-----------------------------------------------------------------------------
(* The stream *)

Size(m) == 4 + Len(m.payload)

\* where in the stream the parser is
Used == begins[Len(got) + 1]

Shape ==
    /\ buf \in Seq(Byte) /\ wire \in Seq(Byte) /\ total \in Seq(Byte)
    /\ sent \in Seq(Messages) /\ got \in Seq(Messages)
    /\ begins \in Seq(Nat) /\ Len(begins) = Len(sent) + 1

\* the messages of this connection are one behind the other in its bytes
Written ==
    /\ \A i \in 1..Len(sent) :
         /\ begins[i + 1] = begins[i] + Size(sent[i])
         /\ begins[i + 1] <= Len(total)
         /\ Carries(total, begins[i], sent[i])
    /\ Len(total) = begins[Len(sent) + 1]

\* those handed out are the first ones
Handed == Len(got) <= Len(sent) /\ \A i \in 1..Len(got) : got[i] = sent[i]

\* and the rest is in the buffer and behind it on the wire
Held ==
    /\ Used + Len(buf) + Len(wire) = Len(total)
    /\ \A k \in 1..Len(buf) : buf[k] = total[Used + k]
    /\ \A k \in 1..Len(wire) : wire[k] = total[Used + Len(buf) + k]

Stream == Shape /\ Written /\ Handed /\ Held

NoBytes ==
    /\ wire = <<>> /\ buf = <<>> /\ sent = <<>> /\ got = <<>> /\ total = <<>>
    /\ begins = <<0>>

LEMMA StreamStarts == NoBytes => Stream
<1> SUFFICES ASSUME NoBytes PROVE Stream
  OBVIOUS
<1>1. /\ <<>> \in Seq(Byte) /\ <<>> \in Seq(Messages) /\ Len(<<>>) = 0
      /\ <<0>> \in Seq(Nat) /\ Len(<<0>>) = 1
  OBVIOUS
<1>2. Shape
  BY <1>1 DEF Shape, NoBytes
<1>3. Used = 0
  BY <1>1 DEF Used, NoBytes
<1>4. Written /\ Handed /\ Held
  BY <1>1, <1>3 DEF Written, Handed, Held, NoBytes
<1> QED
  BY <1>2, <1>4 DEF Stream

\* What the lengths are.
LEMMA StreamNumbers ==
    ASSUME Shape, Handed
    PROVE  /\ Len(buf) \in Nat /\ Len(wire) \in Nat /\ Len(total) \in Nat
           /\ Len(sent) \in Nat /\ Len(got) \in Nat /\ Len(got) <= Len(sent)
           /\ \A i \in 1..Len(sent) + 1 : begins[i] \in Nat
           /\ \A i \in 1..Len(sent) : sent[i] \in Messages /\ begins[i + 1] \in Nat
           /\ Used \in Nat
<1>1. /\ Len(buf) \in Nat /\ Len(wire) \in Nat /\ Len(total) \in Nat
      /\ Len(sent) \in Nat /\ Len(got) \in Nat /\ Len(got) <= Len(sent)
  BY LenProperties DEF Shape, Handed
<1>2. \A i \in 1..Len(begins) : begins[i] \in Nat
  BY ElementOfSeq DEF Shape
<1>3. \A i \in 1..Len(sent) + 1 : begins[i] \in Nat
  BY <1>2 DEF Shape
<1>4. \A i \in 1..Len(sent) : sent[i] \in Messages
  BY ElementOfSeq DEF Shape
<1>5. \A i \in 1..Len(sent) : i + 1 \in 1..Len(sent) + 1
  BY <1>1
<1>6. Len(got) + 1 \in 1..Len(sent) + 1
  BY <1>1
<1> QED
  BY <1>1, <1>3, <1>4, <1>5, <1>6 DEF Used

\* As long as a message is owed, what the buffer holds begins with it.
LEMMA BufferHolds ==
    ASSUME Stream, Len(got) < Len(sent),
           NEW m, m = sent[Len(got) + 1]
    PROVE  /\ m \in Messages
           /\ Len(buf) >= 4 => buf[4] = Len(m.payload)
           /\ Len(buf) >= Size(m) => Carries(buf, 0, m)
           /\ Len(buf) + Len(wire) >= Size(m)
           /\ begins[Len(got) + 2] = Used + Size(m)
<1> DEFINE g == Len(got) + 1
<1>0. Shape /\ Written /\ Handed /\ Held
  BY DEF Stream
<1>1. /\ Len(buf) \in Nat /\ Len(wire) \in Nat /\ Len(total) \in Nat
      /\ Len(sent) \in Nat /\ Len(got) \in Nat /\ Used \in Nat
      /\ \A i \in 1..Len(sent) : sent[i] \in Messages /\ begins[i + 1] \in Nat
  BY <1>0, StreamNumbers
<1>2. g \in 1..Len(sent) /\ g + 1 = Len(got) + 2 /\ Used = begins[g]
  BY <1>1 DEF Used
<1>3. m \in Messages /\ begins[g + 1] \in Nat
  BY <1>1, <1>2
<1>4. Len(m.payload) \in 0..255 /\ Size(m) \in Nat /\ Size(m) = 4 + Len(m.payload)
  BY <1>3, MessageParts DEF Size
<1>5. /\ begins[g + 1] = Used + Size(m) /\ begins[g + 1] <= Len(total)
      /\ Carries(total, Used, m)
  BY <1>0, <1>2 DEF Written
<1>6. Len(buf) + Len(wire) >= Size(m)
  <2>1. Used + Len(buf) + Len(wire) = Len(total)
    BY <1>0 DEF Held
  <2> QED
    BY <1>1, <1>4, <1>5, <2>1
<1>7. \A k \in 1..Len(buf) : buf[k] = total[Used + k]
  BY <1>0 DEF Held
<1>8. ASSUME Len(buf) >= 4
      PROVE  /\ buf[1] = m.fblock /\ buf[2] = m.func /\ buf[3] % 16 = m.op
             /\ buf[4] = Len(m.payload)
  <2>1. 1 \in 1..Len(buf) /\ 2 \in 1..Len(buf) /\ 3 \in 1..Len(buf)
        /\ 4 \in 1..Len(buf)
    BY <1>1, <1>8
  <2> QED
    BY <1>5, <1>7, <2>1 DEF Carries
<1>9. ASSUME Len(buf) >= Size(m) PROVE Carries(buf, 0, m)
  <2>1. Len(buf) >= 4
    BY <1>1, <1>4, <1>9
  <2>2. ASSUME NEW k \in 1..Len(m.payload) PROVE buf[0 + 4 + k] = m.payload[k]
    <3>1. 4 + k \in 1..Len(buf) /\ Used + (4 + k) = Used + 4 + k /\ 0 + 4 + k = 4 + k
      BY <1>1, <1>4, <1>9
    <3>2. total[Used + 4 + k] = m.payload[k]
      BY <1>5 DEF Carries
    <3> QED
      BY <1>7, <3>1, <3>2
  <2>3. 0 + 1 = 1 /\ 0 + 2 = 2 /\ 0 + 3 = 3 /\ 0 + 4 = 4
    OBVIOUS
  <2> QED
    BY <1>8, <2>1, <2>2, <2>3 DEF Carries
<1> QED
  BY <1>2, <1>3, <1>5, <1>6, <1>8, <1>9

\* What is left when no message is owed.
LEMMA NothingOwed ==
    ASSUME Stream, ~(Len(got) < Len(sent))
    PROVE  Len(got) = Len(sent) /\ Len(buf) = 0 /\ Len(wire) = 0
<1>0. Shape /\ Written /\ Handed /\ Held
  BY DEF Stream
<1>1. /\ Len(buf) \in Nat /\ Len(wire) \in Nat /\ Len(total) \in Nat
      /\ Len(sent) \in Nat /\ Len(got) \in Nat /\ Len(got) <= Len(sent)
      /\ Used \in Nat
  BY <1>0, StreamNumbers
<1>2. Len(got) = Len(sent)
  BY <1>1
<1>3. Used = Len(total) /\ Used + Len(buf) + Len(wire) = Len(total)
  BY <1>0, <1>2 DEF Used, Written, Held
<1> QED
  BY <1>1, <1>2, <1>3

-----------------------------------------------------------------------------
(* The steps *)

LEMMA FeedStep ==
    ASSUME Stream, NEW n \in 1..Len(wire), Feed(n)
    PROVE  Stream'
<1>0. Shape /\ Written /\ Handed /\ Held
  BY DEF Stream
<1>1. /\ Len(buf) \in Nat /\ Len(wire) \in Nat /\ Len(total) \in Nat
      /\ Used \in Nat
  BY <1>0, StreamNumbers
<1>2. UNCHANGED <<sent, got, total, begins>>
  BY DEF Feed
<1>3. \A i \in 1..Len(wire) : wire[i] \in Byte
  BY <1>0, ElementOfSeq DEF Shape
<1> DEFINE head == SubSeq(wire, 1, n)
           tail == SubSeq(wire, n + 1, Len(wire))
<1>4. /\ head \in Seq(Byte) /\ Len(head) = n
      /\ \A i \in 1..n : head[i] = wire[i]
  <2>1. \A i \in 1..n : wire[i] \in Byte
    BY <1>1, <1>3
  <2>2. /\ head \in Seq(Byte)
        /\ Len(head) = IF 1 <= n THEN n - 1 + 1 ELSE 0
        /\ \A i \in 1..n - 1 + 1 : head[i] = wire[1 + i - 1]
    <3>1. 1 \in Int /\ n \in Int
      OBVIOUS
    <3> QED
      BY <1>0, <2>1, <3>1, SubSeqProperties DEF Shape
  <2> QED
    BY <1>1, <2>2
<1>5. /\ tail \in Seq(Byte) /\ Len(tail) = Len(wire) - n
      /\ \A i \in 1..Len(wire) - n : tail[i] = wire[n + i]
  <2>1. \A i \in n + 1..Len(wire) : wire[i] \in Byte
    BY <1>1, <1>3
  <2>2. /\ tail \in Seq(Byte)
        /\ Len(tail) = IF n + 1 <= Len(wire) THEN Len(wire) - (n + 1) + 1 ELSE 0
        /\ \A i \in 1..Len(wire) - (n + 1) + 1 : tail[i] = wire[n + 1 + i - 1]
    <3>1. n + 1 \in Int /\ Len(wire) \in Int
      BY <1>1
    <3> QED
      BY <1>0, <2>1, <3>1, SubSeqProperties DEF Shape
  <2>3. Len(wire) - (n + 1) + 1 = Len(wire) - n
        /\ (~(n + 1 <= Len(wire)) => Len(wire) - n = 0)
        /\ \A i \in 1..Len(wire) - n : n + 1 + i - 1 = n + i
    BY <1>1
  <2> HIDE DEF tail
  <2> QED
    BY <2>2, <2>3
<1> HIDE DEF head, tail
<1>6. buf' = buf \o head /\ wire' = tail
  BY DEF Feed, head, tail
<1>7. /\ buf' \in Seq(Byte) /\ Len(buf') = Len(buf) + n
      /\ \A i \in 1..Len(buf) + n :
           buf'[i] = IF i <= Len(buf) THEN buf[i] ELSE head[i - Len(buf)]
  <2>1. /\ buf \o head \in Seq(Byte)
        /\ Len(buf \o head) = Len(buf) + Len(head)
        /\ \A i \in 1..Len(buf) + Len(head) :
             (buf \o head)[i] = IF i <= Len(buf) THEN buf[i] ELSE head[i - Len(buf)]
    <3>1. buf \in Seq(Byte) /\ head \in Seq(Byte)
      BY <1>0, <1>4 DEF Shape
    <3> QED
      BY <3>1, ConcatProperties
  <2> QED
    BY <1>4, <1>6, <2>1
<1>8. Used' = Used
  BY <1>2 DEF Used
<1>9. Shape'
  BY <1>0, <1>2, <1>5, <1>6, <1>7 DEF Shape
<1>10. Written' /\ Handed'
  BY <1>0, <1>2 DEF Written, Handed
<1>11. Held'
  <2>1. Used' + Len(buf') + Len(wire') = Len(total')
    <3>1. Used + Len(buf) + Len(wire) = Len(total)
      BY <1>0 DEF Held
    <3>2. Len(wire') = Len(wire) - n /\ Len(total') = Len(total)
      BY <1>2, <1>5, <1>6
    <3>3. \A u, b, w, t, j \in Int : u + b + w = t => u + (b + j) + (w - j) = t
      OBVIOUS
    <3>4. Used + (Len(buf) + n) + (Len(wire) - n) = Len(total)
      BY <1>1, <3>1, <3>3
    <3> QED
      BY <1>7, <1>8, <3>2, <3>4
  <2>2. ASSUME NEW k \in 1..Len(buf') PROVE buf'[k] = total'[Used' + k]
    <3>1. CASE k <= Len(buf)
      <4>1. k \in 1..Len(buf) /\ k \in 1..Len(buf) + n
        BY <1>1, <1>7, <3>1
      <4>2. buf'[k] = buf[k]
        BY <1>7, <3>1, <4>1
      <4> QED
        BY <1>0, <1>2, <1>8, <4>1, <4>2 DEF Held
    <3>2. CASE ~(k <= Len(buf))
      <4>1. /\ k \in 1..Len(buf) + n /\ k - Len(buf) \in 1..n
            /\ k - Len(buf) \in 1..Len(wire)
            /\ Used + Len(buf) + (k - Len(buf)) = Used + k
        BY <1>1, <1>7, <3>2
      <4>2. buf'[k] = wire[k - Len(buf)]
        BY <1>4, <1>7, <3>2, <4>1
      <4>3. wire[k - Len(buf)] = total[Used + Len(buf) + (k - Len(buf))]
        BY <1>0, <4>1 DEF Held
      <4> QED
        BY <1>2, <1>8, <4>1, <4>2, <4>3
    <3> QED
      BY <3>1, <3>2
  <2>3. ASSUME NEW k \in 1..Len(wire')
        PROVE  wire'[k] = total'[Used' + Len(buf') + k]
    <3>1. /\ k \in 1..Len(wire) - n /\ n + k \in 1..Len(wire)
          /\ Used + Len(buf) + (n + k) = Used + (Len(buf) + n) + k
      BY <1>1, <1>5, <1>6
    <3>2. wire'[k] = wire[n + k]
      BY <1>5, <1>6, <3>1
    <3>3. wire[n + k] = total[Used + Len(buf) + (n + k)]
      BY <1>0, <3>1 DEF Held
    <3> QED
      BY <1>2, <1>7, <1>8, <3>1, <3>2, <3>3
  <2> QED
    BY <2>1, <2>2, <2>3 DEF Held
<1> QED
  BY <1>9, <1>10, <1>11 DEF Stream

LEMMA TakeStep ==
    ASSUME Stream, Take
    PROVE  Stream'
<1>0. Shape /\ Written /\ Handed /\ Held
  BY DEF Stream
<1>1. /\ Len(buf) \in Nat /\ Len(wire) \in Nat /\ Len(total) \in Nat
      /\ Len(sent) \in Nat /\ Len(got) \in Nat /\ Used \in Nat
  BY <1>0, StreamNumbers
<1>2. UNCHANGED <<wire, sent, total, begins>>
  BY DEF Take
<1>3. Len(buf) >= 4 /\ Len(buf) >= 4 + buf[4]
  BY DEF Take, Complete
<1>4. Len(got) < Len(sent)
  BY <1>1, <1>3, NothingOwed
<1> DEFINE m == sent[Len(got) + 1]
<1>5. /\ m \in Messages /\ buf[4] = Len(m.payload)
      /\ Len(buf) >= Size(m) => Carries(buf, 0, m)
      /\ begins[Len(got) + 2] = Used + Size(m)
  BY <1>3, <1>4, BufferHolds
<1> HIDE DEF m
<1>6. Len(m.payload) \in 0..255 /\ Size(m) = 4 + Len(m.payload) /\ Size(m) \in Nat
  BY <1>5, MessageParts DEF Size
<1>7. Carries(buf, 0, m) /\ 4 + Len(m.payload) <= Len(buf)
  BY <1>1, <1>3, <1>5, <1>6
<1>8. /\ First(buf) = m /\ Rest(buf) \in Seq(Byte)
      /\ Len(Rest(buf)) = Len(buf) - Size(m)
      /\ \A k \in 1..Len(Rest(buf)) : Rest(buf)[k] = buf[Size(m) + k]
  <2>1. /\ First(buf) = m /\ Rest(buf) \in Seq(Byte)
        /\ Len(Rest(buf)) = Len(buf) - 4 - Len(m.payload)
        /\ \A k \in 1..Len(Rest(buf)) : Rest(buf)[k] = buf[4 + Len(m.payload) + k]
    BY <1>0, <1>5, <1>7, FirstIsCarried DEF Shape
  <2>2. Len(buf) - 4 - Len(m.payload) = Len(buf) - Size(m)
    BY <1>1, <1>6
  <2> QED
    BY <1>6, <2>1, <2>2
<1>9. got' = Append(got, m) /\ buf' = Rest(buf)
  BY <1>8 DEF Take
<1>10. /\ got' \in Seq(Messages) /\ Len(got') = Len(got) + 1
       /\ \A i \in 1..Len(got) : got'[i] = got[i]
       /\ got'[Len(got) + 1] = m
  BY <1>0, <1>5, <1>9, AppendProperties DEF Shape
<1>11. Used' = Used + Size(m)
  <2>1. Len(got) + 1 + 1 = Len(got) + 2
    BY <1>1
  <2> QED
    BY <1>2, <1>5, <1>10, <2>1 DEF Used
<1>12. Shape'
  BY <1>0, <1>2, <1>8, <1>9, <1>10 DEF Shape
<1>13. Written'
  BY <1>0, <1>2 DEF Written
<1>14. Handed'
  <2>1. Len(got') <= Len(sent')
    BY <1>1, <1>2, <1>4, <1>10
  <2>2. ASSUME NEW i \in 1..Len(got') PROVE got'[i] = sent'[i]
    <3>1. i \in 1..Len(got) \/ i = Len(got) + 1
      BY <1>1, <1>10
    <3> QED
      BY <1>0, <1>2, <1>10, <3>1 DEF Handed, m
  <2> QED
    BY <2>1, <2>2 DEF Handed
<1>15. Held'
  <2>1. Used' + Len(buf') + Len(wire') = Len(total')
    <3>1. Used + Len(buf) + Len(wire) = Len(total)
      BY <1>0 DEF Held
    <3>2. Len(buf') = Len(buf) - Size(m) /\ Len(wire') = Len(wire)
          /\ Len(total') = Len(total)
      BY <1>2, <1>8, <1>9
    <3>3. \A u, b, w, t, j \in Int : u + b + w = t => u + j + (b - j) + w = t
      OBVIOUS
    <3>4. Used + Size(m) + (Len(buf) - Size(m)) + Len(wire) = Len(total)
      <4>1. Used \in Int /\ Len(buf) \in Int /\ Len(wire) \in Int
            /\ Len(total) \in Int /\ Size(m) \in Int
        BY <1>1, <1>6
      <4> QED
        BY <3>1, <3>3, <4>1
    <3> QED
      BY <1>11, <3>2, <3>4
  <2>2. ASSUME NEW k \in 1..Len(buf') PROVE buf'[k] = total'[Used' + k]
    <3>1. k \in 1..Len(Rest(buf)) /\ Size(m) + k \in 1..Len(buf)
          /\ Used + (Size(m) + k) = Used + Size(m) + k
      <4>1. \A b, j, u \in Nat : \A i \in 1..b - j :
                j + i \in 1..b /\ u + (j + i) = u + j + i
        OBVIOUS
      <4>2. k \in 1..Len(Rest(buf)) /\ k \in 1..Len(buf) - Size(m)
        BY <1>8, <1>9
      <4> QED
        BY <1>1, <1>6, <4>1, <4>2
    <3>2. buf[Size(m) + k] = total[Used + (Size(m) + k)]
      BY <1>0, <3>1 DEF Held
    <3> QED
      BY <1>2, <1>8, <1>9, <1>11, <3>1, <3>2
  <2>3. ASSUME NEW k \in 1..Len(wire')
        PROVE  wire'[k] = total'[Used' + Len(buf') + k]
    <3>1. k \in 1..Len(wire)
          /\ Used + Len(buf) + k = Used + Size(m) + (Len(buf) - Size(m)) + k
      <4>1. \A b, j, u, w \in Nat : \A i \in 1..w :
                u + b + i = u + j + (b - j) + i
        OBVIOUS
      <4>2. k \in 1..Len(wire) /\ Size(m) \in Nat
        BY <1>2, <1>6
      <4> QED
        BY <1>1, <4>1, <4>2
    <3>2. Len(buf') = Len(buf) - Size(m)
      BY <1>8, <1>9
    <3>3. wire[k] = total[Used + Len(buf) + k]
      BY <1>0, <3>1 DEF Held
    <3> QED
      BY <1>2, <1>11, <3>1, <3>2, <3>3
  <2> QED
    BY <2>1, <2>2, <2>3 DEF Held
<1> QED
  BY <1>12, <1>13, <1>14, <1>15 DEF Stream

\* What a concatenation is at each of its places.
LEMMA Joined ==
    ASSUME NEW a \in Seq(Byte), NEW q \in Seq(Byte)
    PROVE  /\ a \o q \in Seq(Byte) /\ Len(a \o q) = Len(a) + Len(q)
           /\ \A i \in 1..Len(a) : (a \o q)[i] = a[i]
           /\ \A i \in 1..Len(q) : (a \o q)[Len(a) + i] = q[i]
<1>1. Len(a) \in Nat /\ Len(q) \in Nat
  BY LenProperties
<1>2. /\ a \o q \in Seq(Byte) /\ Len(a \o q) = Len(a) + Len(q)
      /\ \A i \in 1..Len(a) + Len(q) :
           (a \o q)[i] = IF i <= Len(a) THEN a[i] ELSE q[i - Len(a)]
  BY ConcatProperties
<1>3. ASSUME NEW i \in 1..Len(a) PROVE (a \o q)[i] = a[i]
  <2>1. i \in 1..Len(a) + Len(q) /\ i <= Len(a)
    BY <1>1
  <2> QED
    BY <1>2, <2>1
<1>4. ASSUME NEW i \in 1..Len(q) PROVE (a \o q)[Len(a) + i] = q[i]
  <2>1. /\ Len(a) + i \in 1..Len(a) + Len(q) /\ ~(Len(a) + i <= Len(a))
        /\ Len(a) + i - Len(a) = i
    BY <1>1
  <2> QED
    BY <1>2, <2>1
<1> QED
  BY <1>2, <1>3, <1>4

\* Bytes that follow change nothing for a message that is in.
LEMMA CarriesOn ==
    ASSUME NEW a \in Seq(Byte), NEW q \in Seq(Byte), NEW at \in Nat,
           NEW m \in Messages, at + Size(m) <= Len(a)
    PROVE  Carries(a, at, m) => Carries(a \o q, at, m)
<1>1. Len(a) \in Nat /\ Len(m.payload) \in 0..255 /\ Size(m) = 4 + Len(m.payload)
  BY LenProperties, MessageParts DEF Size
<1>2. at + 4 + Len(m.payload) <= Len(a)
  <2>1. \A n \in 0..255 : at + (4 + n) = at + 4 + n
    OBVIOUS
  <2> QED
    BY <1>1, <2>1
<1>3. /\ at + 1 \in 1..Len(a) /\ at + 2 \in 1..Len(a) /\ at + 3 \in 1..Len(a)
      /\ at + 4 \in 1..Len(a)
      /\ \A k \in 1..Len(m.payload) : at + 4 + k \in 1..Len(a)
  BY <1>1, <1>2
<1> QED
  BY <1>3, Joined DEF Carries

\* A packet is carried wherever it is put.
LEMMA CarriesBehind ==
    ASSUME NEW a \in Seq(Byte), NEW q \in Seq(Byte), NEW m \in Messages,
           Len(q) = Size(m), Carries(q, 0, m)
    PROVE  Carries(a \o q, Len(a), m)
<1>1. /\ Len(a) \in Nat /\ Len(m.payload) \in 0..255
      /\ Len(q) = 4 + Len(m.payload)
  BY LenProperties, MessageParts DEF Size
<1>2. /\ 1 \in 1..Len(q) /\ 2 \in 1..Len(q) /\ 3 \in 1..Len(q) /\ 4 \in 1..Len(q)
      /\ \A k \in 1..Len(m.payload) :
           /\ 4 + k \in 1..Len(q) /\ 0 + 4 + k = 4 + k
           /\ Len(a) + 4 + k = Len(a) + (4 + k)
  <2>1. \A n \in 0..255, z \in Nat :
          /\ 1 \in 1..4 + n /\ 2 \in 1..4 + n /\ 3 \in 1..4 + n /\ 4 \in 1..4 + n
          /\ \A k \in 1..n : /\ 4 + k \in 1..4 + n /\ 0 + 4 + k = 4 + k
                              /\ z + 4 + k = z + (4 + k)
    OBVIOUS
  <2> QED
    BY <1>1, <2>1
<1>3. 0 + 1 = 1 /\ 0 + 2 = 2 /\ 0 + 3 = 3 /\ 0 + 4 = 4
  OBVIOUS
<1>4. /\ q[1] = m.fblock /\ q[2] = m.func /\ q[3] % 16 = m.op
      /\ q[4] = Len(m.payload)
      /\ \A k \in 1..Len(m.payload) : q[4 + k] = m.payload[k]
  BY <1>2, <1>3 DEF Carries
<1>5. \A i \in 1..Len(q) : (a \o q)[Len(a) + i] = q[i]
  BY Joined
<1> QED
  BY <1>2, <1>4, <1>5 DEF Carries

LEMMA EmitStep ==
    ASSUME Stream, NEW m \in Messages, NEW port \in 0..15, Emit(m, port)
    PROVE  Stream'
<1>0. Shape /\ Written /\ Handed /\ Held
  BY DEF Stream
<1>1. /\ Len(buf) \in Nat /\ Len(wire) \in Nat /\ Len(total) \in Nat
      /\ Len(sent) \in Nat /\ Len(got) \in Nat /\ Len(got) <= Len(sent)
      /\ Used \in Nat
      /\ \A i \in 1..Len(sent) + 1 : begins[i] \in Nat
      /\ \A i \in 1..Len(sent) : sent[i] \in Messages
  BY <1>0, StreamNumbers
<1>2. UNCHANGED <<buf, got>>
  BY DEF Emit
<1> DEFINE q == Packet(m, port)
<1>3. q \in Seq(Byte) /\ Len(q) = Size(m) /\ Carries(q, 0, m)
  BY PacketCarries DEF Size
<1>4. Size(m) \in Nat
  BY MessageParts DEF Size
<1>5. /\ total' = total \o q /\ wire' = wire \o q /\ sent' = Append(sent, m)
      /\ begins' = Append(begins, Len(total'))
  BY DEF Emit
<1> HIDE DEF q
<1>6. /\ total' \in Seq(Byte) /\ Len(total') = Len(total) + Size(m)
      /\ \A i \in 1..Len(total) : total'[i] = total[i]
      /\ \A i \in 1..Len(q) : total'[Len(total) + i] = q[i]
  <2>1. total \in Seq(Byte)
    BY <1>0 DEF Shape
  <2>2. /\ total \o q \in Seq(Byte) /\ Len(total \o q) = Len(total) + Len(q)
        /\ \A i \in 1..Len(total) : (total \o q)[i] = total[i]
        /\ \A i \in 1..Len(q) : (total \o q)[Len(total) + i] = q[i]
    BY <1>3, <2>1, Joined
  <2> QED
    BY <1>3, <1>5, <2>2
<1>7. /\ wire' \in Seq(Byte) /\ Len(wire') = Len(wire) + Size(m)
      /\ \A i \in 1..Len(wire) : wire'[i] = wire[i]
      /\ \A i \in 1..Len(q) : wire'[Len(wire) + i] = q[i]
  <2>1. wire \in Seq(Byte)
    BY <1>0 DEF Shape
  <2>2. /\ wire \o q \in Seq(Byte) /\ Len(wire \o q) = Len(wire) + Len(q)
        /\ \A i \in 1..Len(wire) : (wire \o q)[i] = wire[i]
        /\ \A i \in 1..Len(q) : (wire \o q)[Len(wire) + i] = q[i]
    BY <1>3, <2>1, Joined
  <2> QED
    BY <1>3, <1>5, <2>2
<1>8. /\ sent' \in Seq(Messages) /\ Len(sent') = Len(sent) + 1
      /\ \A i \in 1..Len(sent) : sent'[i] = sent[i]
      /\ sent'[Len(sent) + 1] = m
  BY <1>0, <1>5, AppendProperties DEF Shape
<1>9. /\ begins' \in Seq(Nat) /\ Len(begins') = Len(begins) + 1
      /\ \A i \in 1..Len(begins) : begins'[i] = begins[i]
      /\ begins'[Len(begins) + 1] = Len(total')
  <2>1. Len(total') \in Nat
    BY <1>6, LenProperties
  <2> QED
    BY <1>0, <1>5, <2>1, AppendProperties DEF Shape
<1>10. /\ \A i \in 1..Len(sent) + 1 : begins'[i] = begins[i]
       /\ begins'[Len(sent) + 2] = Len(total) + Size(m)
  <2>1. Len(begins) = Len(sent) + 1 /\ Len(begins) + 1 = Len(sent) + 2
    BY <1>0, <1>1 DEF Shape
  <2> QED
    BY <1>6, <1>9, <2>1
<1>11. Used' = Used
  <2>1. Len(got) + 1 \in 1..Len(sent) + 1
    BY <1>1
  <2> QED
    BY <1>2, <1>10, <2>1 DEF Used
<1>12. Shape'
  <2>1. Len(begins') = Len(sent') + 1
    BY <1>0, <1>8, <1>9 DEF Shape
  <2> QED
    BY <1>0, <1>2, <1>6, <1>7, <1>8, <1>9, <2>1 DEF Shape
<1>13. Written'
  <2>1. Len(total') = begins'[Len(sent') + 1]
    <3>1. Len(sent) + 1 + 1 = Len(sent) + 2
      BY <1>1
    <3> QED
      BY <1>6, <1>8, <1>10, <3>1
  <2>2. ASSUME NEW i \in 1..Len(sent)
        PROVE  /\ begins'[i + 1] = begins'[i] + Size(sent'[i])
               /\ begins'[i + 1] <= Len(total')
               /\ Carries(total', begins'[i], sent'[i])
    <3>1. i \in 1..Len(sent) + 1 /\ i + 1 \in 1..Len(sent) + 1
      BY <1>1
    <3>2. begins'[i] = begins[i] /\ begins'[i + 1] = begins[i + 1]
          /\ sent'[i] = sent[i]
      BY <1>8, <1>10, <3>1
    <3>3. /\ begins[i + 1] = begins[i] + Size(sent[i])
          /\ begins[i + 1] <= Len(total)
          /\ Carries(total, begins[i], sent[i])
      BY <1>0 DEF Written
    <3>4. begins[i] \in Nat /\ begins[i + 1] \in Nat /\ sent[i] \in Messages
      BY <1>1, <3>1
    <3>5. begins[i + 1] <= Len(total')
      BY <1>1, <1>4, <1>6, <3>3, <3>4
    <3>6. begins[i] + Size(sent[i]) <= Len(total)
      BY <3>3
    <3>7. Carries(total \o q, begins[i], sent[i])
      <4>1. total \in Seq(Byte)
        BY <1>0 DEF Shape
      <4> QED
        BY <1>3, <3>3, <3>4, <3>6, <4>1, CarriesOn
    <3> QED
      BY <1>5, <3>2, <3>3, <3>5, <3>7
  <2>3. LET i == Len(sent) + 1
        IN  /\ begins'[i + 1] = begins'[i] + Size(sent'[i])
            /\ begins'[i + 1] <= Len(total')
            /\ Carries(total', begins'[i], sent'[i])
    <3>1. Len(sent) + 1 + 1 = Len(sent) + 2 /\ Len(sent) + 1 \in 1..Len(sent) + 1
      BY <1>1
    <3>2. begins'[Len(sent) + 1] = Len(total)
      BY <1>0, <1>10, <3>1 DEF Written
    <3>3. begins'[Len(sent) + 2] = Len(total')
      BY <1>6, <1>10
    <3>4. Len(total') <= Len(total')
      BY <1>1, <1>4, <1>6
    <3>5. Carries(total \o q, Len(total), m)
      <4>1. total \in Seq(Byte)
        BY <1>0 DEF Shape
      <4> QED
        BY <1>3, <4>1, CarriesBehind
    <3> QED
      BY <1>5, <1>6, <1>8, <3>1, <3>2, <3>3, <3>4, <3>5
  <2>4. \A i \in 1..Len(sent') : i \in 1..Len(sent) \/ i = Len(sent) + 1
    BY <1>1, <1>8
  <2> QED
    BY <2>1, <2>2, <2>3, <2>4 DEF Written
<1>14. Handed'
  <2>1. Len(got') <= Len(sent')
    BY <1>1, <1>2, <1>8
  <2>2. \A i \in 1..Len(got) : i \in 1..Len(sent)
    BY <1>1
  <2> QED
    BY <1>0, <1>2, <1>8, <2>1, <2>2 DEF Handed
<1>15. Held'
  <2>1. Used + Len(buf) + Len(wire) = Len(total)
    BY <1>0 DEF Held
  <2>2. Used' + Len(buf') + Len(wire') = Len(total')
    <3>1. \A u, b, w, t, j \in Nat : u + b + w = t => u + b + (w + j) = t + j
      OBVIOUS
    <3>2. Used + Len(buf) + (Len(wire) + Size(m)) = Len(total) + Size(m)
      <4>1. /\ Used \in Nat /\ Len(buf) \in Nat /\ Len(wire) \in Nat
            /\ Len(total) \in Nat /\ Size(m) \in Nat
        BY <1>1, <1>4
      <4> QED
        BY <2>1, <3>1, <4>1
    <3> QED
      BY <1>2, <1>6, <1>7, <1>11, <3>2
  <2>3. ASSUME NEW k \in 1..Len(buf') PROVE buf'[k] = total'[Used' + k]
    <3>1. k \in 1..Len(buf) /\ Used + k \in 1..Len(total)
      BY <1>1, <1>2, <2>1
    <3>2. buf[k] = total[Used + k]
      BY <1>0, <3>1 DEF Held
    <3> QED
      BY <1>2, <1>6, <1>11, <3>1, <3>2
  <2>4. ASSUME NEW k \in 1..Len(wire')
        PROVE  wire'[k] = total'[Used' + Len(buf') + k]
    <3>1. CASE k \in 1..Len(wire)
      <4>1. Used + Len(buf) + k \in 1..Len(total)
        BY <1>1, <2>1, <3>1
      <4>2. wire[k] = total[Used + Len(buf) + k]
        BY <1>0, <3>1 DEF Held
      <4> QED
        BY <1>2, <1>6, <1>7, <1>11, <3>1, <4>1, <4>2
    <3>2. CASE k \notin 1..Len(wire)
      <4> DEFINE j == k - Len(wire)
      <4>1. /\ j \in 1..Size(m) /\ k = Len(wire) + j
            /\ Used + Len(buf) + k = Len(total) + j
        <5>1. \A u, b, w, t, z \in Nat : \A i \in 1..w + z :
                u + b + w = t /\ i \notin 1..w =>
                  /\ i - w \in 1..z /\ i = w + (i - w)
                  /\ u + b + i = t + (i - w)
          OBVIOUS
        <5>2. k \in 1..Len(wire) + Size(m)
          BY <1>7
        <5> QED
          BY <1>1, <1>4, <2>1, <3>2, <5>1, <5>2
      <4> HIDE DEF j
      <4>2. wire'[k] = q[j] /\ total'[Len(total) + j] = q[j]
        BY <1>3, <1>6, <1>7, <4>1
      <4> QED
        BY <1>2, <1>11, <4>1, <4>2
    <3> QED
      BY <3>1, <3>2
  <2> QED
    BY <2>2, <2>3, <2>4 DEF Held
<1> QED
  BY <1>12, <1>13, <1>14, <1>15 DEF Stream

-----------------------------------------------------------------------------
(* What is sent *)

\* the headset's registers
Kept ==
    /\ device \in [Registers -> Byte]
    /\ \A k \in Registers : device[k] \in Holds(k)

LEMMA ShortPayloads ==
    /\ \A a \in Byte : <<a>> \in Seq(Byte) /\ Len(<<a>>) = 1
    /\ \A a, b \in Byte : <<a, b>> \in Seq(Byte) /\ Len(<<a, b>>) = 2
    /\ \A a, b, c \in Byte : <<a, b, c>> \in Seq(Byte) /\ Len(<<a, b, c>>) = 3
    /\ \A a, b, c, d, e \in Byte :
         <<a, b, c, d, e>> \in Seq(Byte) /\ Len(<<a, b, c, d, e>>) = 5
    /\ \A a, b, c, d, e, f, g, h, i, j, k, l \in Byte :
         /\ <<a, b, c, d, e, f, g, h, i, j, k, l>> \in Seq(Byte)
         /\ Len(<<a, b, c, d, e, f, g, h, i, j, k, l>>) = 12
OBVIOUS

LEMMA Addresses ==
    /\ \A f \in Fields : Fblock(f) \in Byte /\ Func(f) \in Byte
    /\ \A f, g \in Fields : Fblock(f) = Fblock(g) /\ Func(f) = Func(g) => f = g
<1>1. /\ Func("battery") = 2 /\ Func("prompts") = 3 /\ Func("cnc") = 5
      /\ Func("eq") = 7 /\ Func("multipoint") = 10 /\ Func("sidetone") = 11
  BY DEF Func
<1>2. \A f \in Fields : Fblock(f) \in {1, 2}
  BY DEF Fblock
<1>3. \A f \in Fields : Func(f) \in {2, 3, 5, 7, 10, 11}
  BY <1>1 DEF Fields
<1>4. \A f, g \in Fields : Func(f) = Func(g) => f = g
  BY <1>1 DEF Fields
<1>5. {1, 2} \subseteq Byte /\ {2, 3, 5, 7, 10, 11} \subseteq Byte
  BY DEF Byte
<1> QED
  BY <1>2, <1>3, <1>4, <1>5

LEMMA MessageIs ==
    ASSUME NEW fb \in Byte, NEW fn \in Byte, NEW op \in 0..15,
           NEW p \in Seq(Byte), Len(p) <= 255
    PROVE  [fblock |-> fb, func |-> fn, op |-> op, payload |-> p] \in Messages
BY DEF Messages

LEMMA StatusIsMessage ==
    ASSUME Kept, NEW f \in Fields
    PROVE  StatusMessage(f) \in Messages
<1>1. \A k \in Registers : device[k] \in Byte
  BY DEF Kept
<1>2. /\ device.battery \in Byte /\ device.cnc \in Byte /\ device.bass \in Byte
      /\ device.mid \in Byte /\ device.treble \in Byte
      /\ device.sidetone \in Byte /\ device.prompts \in Byte
      /\ device.multipoint \in Byte
  BY <1>1 DEF Registers
<1>3. /\ 0 \in Byte /\ 1 \in Byte /\ 2 \in Byte /\ 10 \in Byte /\ 11 \in Byte
      /\ 15 \in Byte /\ 94 \in Byte /\ 129 \in Byte /\ 246 \in Byte
  BY DEF Byte
<1>4. Payload(f) \in Seq(Byte) /\ Len(Payload(f)) <= 255
  <2>1. CASE f = "battery"
    BY <1>2, <2>1, ShortPayloads DEF Payload
  <2>2. CASE f = "cnc"
    BY <1>2, <1>3, <2>2, ShortPayloads DEF Payload
  <2>3. CASE f = "eq"
    BY <1>2, <1>3, <2>3, ShortPayloads DEF Payload
  <2>4. CASE f = "sidetone"
    BY <1>2, <1>3, <2>4, ShortPayloads DEF Payload
  <2>5. CASE f = "prompts"
    BY <1>2, <1>3, <2>5, ShortPayloads DEF Payload
  <2>6. CASE f = "multipoint"
    BY <1>2, <2>6, ShortPayloads DEF Payload
  <2> QED
    BY <2>1, <2>2, <2>3, <2>4, <2>5, <2>6 DEF Fields
<1>5. Status \in 0..15
  BY DEF Status
<1> QED
  BY <1>4, <1>5, Addresses, MessageIs DEF StatusMessage

\* What a builder makes of a value, by the setting.
LEMMA Built ==
    ASSUME Kept, NEW k \in Registers, NEW v \in Choices(k)
    PROVE  /\ k = "cnc" => v \in 0..10 /\ Build(k, v) = <<10 - v, 1>>
           /\ k = "bass" => v \in -10..10 /\ Build(k, v) = <<v % 256, 0>>
           /\ k = "mid" => v \in -10..10 /\ Build(k, v) = <<v % 256, 1>>
           /\ k = "treble" => v \in -10..10 /\ Build(k, v) = <<v % 256, 2>>
           /\ k = "sidetone" =>
                \E i \in 0..3 : SidetoneName[i + 1] = v /\ Build(k, v) = <<1, i>>
           /\ k = "prompts" =>
                /\ v \in BOOLEAN
                /\ Build(k, v) = <<(IF v THEN 32 ELSE 0) + (device.prompts % 32)>>
           /\ k = "multipoint" =>
                v \in BOOLEAN /\ Build(k, v) = <<IF v THEN 1 ELSE 0>>
           /\ k \in {"cnc", "bass", "mid", "treble", "sidetone", "prompts",
                     "multipoint"}
<1>1. k \in {"cnc", "bass", "mid", "treble", "sidetone", "prompts", "multipoint"}
  BY DEF Registers, Choices
<1>2. ASSUME k = "cnc"
      PROVE  v \in 0..10 /\ Build(k, v) = <<10 - v, 1>>
  <2>1. v \in 0..10
    BY <1>2 DEF Choices
  <2>2. ~(v > 10)
    BY <2>1
  <2> QED
    BY <1>2, <2>1, <2>2 DEF Build
<1>3. ASSUME k = "bass"
      PROVE  v \in -10..10 /\ Build(k, v) = <<v % 256, 0>>
  BY <1>3 DEF Choices, Build, Unsigned
<1>4. ASSUME k = "mid"
      PROVE  v \in -10..10 /\ Build(k, v) = <<v % 256, 1>>
  BY <1>4 DEF Choices, Build, Unsigned
<1>5. ASSUME k = "treble"
      PROVE  v \in -10..10 /\ Build(k, v) = <<v % 256, 2>>
  BY <1>5 DEF Choices, Build, Unsigned
<1>6. ASSUME k = "sidetone"
      PROVE  \E i \in 0..3 : SidetoneName[i + 1] = v /\ Build(k, v) = <<1, i>>
  <2>1. v \in {"off", "high", "medium", "low"}
    BY <1>6 DEF Choices
  <2>2. \E i \in 0..3 : SidetoneName[i + 1] = v
    <3>1. /\ SidetoneName[0 + 1] = "off" /\ SidetoneName[1 + 1] = "high"
          /\ SidetoneName[2 + 1] = "medium" /\ SidetoneName[3 + 1] = "low"
      BY DEF SidetoneName
    <3>2. 0 \in 0..3 /\ 1 \in 0..3 /\ 2 \in 0..3 /\ 3 \in 0..3
      OBVIOUS
    <3> QED
      BY <2>1, <3>1, <3>2
  <2>3. SidetoneId(v) \in 0..3 /\ SidetoneName[SidetoneId(v) + 1] = v
    BY <2>2 DEF SidetoneId
  <2>4. Build(k, v) = <<1, SidetoneId(v)>>
    BY <1>6 DEF Build
  <2> QED
    BY <2>3, <2>4
<1>7. ASSUME k = "prompts"
      PROVE  /\ v \in BOOLEAN
             /\ Build(k, v) = <<(IF v THEN 32 ELSE 0) + (device.prompts % 32)>>
  BY <1>7 DEF Choices, Build
<1>8. ASSUME k = "multipoint"
      PROVE  v \in BOOLEAN /\ Build(k, v) = <<IF v THEN 1 ELSE 0>>
  BY <1>8 DEF Choices, Build
<1> QED
  BY <1>1, <1>2, <1>3, <1>4, <1>5, <1>6, <1>7, <1>8
LEMMA RequestIsMessage ==
    ASSUME Kept, NEW k \in Registers, NEW v \in Choices(k)
    PROVE  Request(k, v) \in Messages
<1>1. device.prompts \in 0..255
  BY DEF Kept, Registers, Byte
<1>2. /\ \A n \in 0..10 : 10 - n \in Byte
      /\ \A n \in -10..10 : n % 256 \in Byte
      /\ \A n \in 0..255 : n % 32 \in Byte /\ 32 + (n % 32) \in Byte
      /\ \A n \in 0..255 : 0 + (n % 32) = n % 32
      /\ 0 \in Byte /\ 1 \in Byte /\ 2 \in Byte /\ \A i \in 0..3 : i \in Byte
  <2>1. \A n \in 0..10 : 10 - n \in 0..255
    OBVIOUS
  <2>2. \A n \in -10..10 : n % 256 \in 0..255
    OBVIOUS
  <2>3. \A n \in 0..255 : n % 32 \in 0..31
    OBVIOUS
  <2>4. \A n \in 0..31 : n \in 0..255 /\ 32 + n \in 0..255 /\ 0 + n = n
    OBVIOUS
  <2> QED
    BY <2>1, <2>2, <2>3, <2>4 DEF Byte
<1>3. Build(k, v) \in Seq(Byte) /\ Len(Build(k, v)) <= 255
  <2>1. CASE k = "cnc"
    <3>1. v \in 0..10 /\ Build(k, v) = <<10 - v, 1>>
      BY <2>1, Built
    <3>2. 10 - v \in Byte /\ 1 \in Byte
      BY <1>2, <3>1
    <3>3. <<10 - v, 1>> \in Seq(Byte) /\ Len(<<10 - v, 1>>) = 2
      BY <3>2, ShortPayloads
    <3> QED
      BY <3>1, <3>3
  <2>2. CASE k \in {"bass", "mid", "treble"}
    <3>1. v \in -10..10 /\ \E i \in {0, 1, 2} : Build(k, v) = <<v % 256, i>>
      BY <2>2, Built
    <3>2. PICK i \in {0, 1, 2} : Build(k, v) = <<v % 256, i>>
      BY <3>1
    <3>3. v % 256 \in Byte /\ i \in Byte
      BY <1>2, <3>1
    <3>4. <<v % 256, i>> \in Seq(Byte) /\ Len(<<v % 256, i>>) = 2
      BY <3>3, ShortPayloads
    <3> QED
      BY <3>2, <3>4
  <2>3. CASE k = "sidetone"
    <3>1. PICK i \in 0..3 : Build(k, v) = <<1, i>>
      BY <2>3, Built
    <3>2. i \in Byte /\ 1 \in Byte
      BY <1>2
    <3>3. <<1, i>> \in Seq(Byte) /\ Len(<<1, i>>) = 2
      BY <3>2, ShortPayloads
    <3> QED
      BY <3>1, <3>3
  <2>4. CASE k = "prompts"
    <3>1. PICK a \in {0, 32} : Build(k, v) = <<a + (device.prompts % 32)>>
      BY <2>4, Built
    <3>2. a + (device.prompts % 32) \in Byte
      BY <1>1, <1>2
    <3>3. /\ <<a + (device.prompts % 32)>> \in Seq(Byte)
          /\ Len(<<a + (device.prompts % 32)>>) = 1
      BY <3>2, ShortPayloads
    <3> QED
      BY <3>1, <3>3
  <2>5. CASE k = "multipoint"
    <3>1. PICK a \in {0, 1} : Build(k, v) = <<a>>
      BY <2>5, Built
    <3>2. <<a>> \in Seq(Byte) /\ Len(<<a>>) = 1
      BY <1>2, ShortPayloads
    <3> QED
      BY <3>1, <3>2
  <2> QED
    BY <2>1, <2>2, <2>3, <2>4, <2>5, Built
<1>4. FieldOf(k) \in Fields
  BY DEF FieldOf, RegisterOf, Registers, Fields
<1>5. SetGet \in 0..15
  BY DEF SetGet
<1> QED
  BY <1>3, <1>4, <1>5, Addresses, MessageIs DEF Request

\* The headset takes a request for the register it is about.
LEMMA RegisterOfRequest ==
    ASSUME Kept, NEW k \in Registers, NEW v \in Choices(k)
    PROVE  Register(Request(k, v)) = k
<1> DEFINE m == Request(k, v)
           About(r) == /\ Addressed(m, FieldOf(r))
                       /\ FieldOf(r) = "eq" => Bands[m.payload[2] + 1] = r
<1>1. \A r \in Registers : FieldOf(r) \in Fields
  BY DEF FieldOf, RegisterOf, Registers, Fields
<1>2. \A r \in Registers : Addressed(m, FieldOf(r)) <=> FieldOf(r) = FieldOf(k)
  <2>1. m.fblock = Fblock(FieldOf(k)) /\ m.func = Func(FieldOf(k))
    BY DEF Request
  <2> HIDE DEF m
  <2> QED
    BY <1>1, <2>1, Addresses DEF Addressed
<1>3. ASSUME FieldOf(k) = "eq" PROVE Bands[m.payload[2] + 1] = k
  <2>1. k \in {"bass", "mid", "treble"}
    BY <1>3 DEF FieldOf, RegisterOf, Registers
  <2>2. m.payload = Build(k, v)
    BY DEF Request
  <2> HIDE DEF m
  <2>3. \/ k = "bass" /\ m.payload[2] = 0
        \/ k = "mid" /\ m.payload[2] = 1
        \/ k = "treble" /\ m.payload[2] = 2
    BY <2>1, <2>2, Built
  <2>4. Bands[0 + 1] = "bass" /\ Bands[1 + 1] = "mid" /\ Bands[2 + 1] = "treble"
    BY DEF Bands
  <2> QED
    BY <2>3, <2>4
<1>4. About(k)
  BY <1>2, <1>3
<1>5. ASSUME NEW r \in Registers, About(r) PROVE r = k
  <2>1. FieldOf(r) = FieldOf(k)
    BY <1>2, <1>5
  <2>2. CASE FieldOf(k) = "eq"
    BY <1>3, <1>5, <2>1, <2>2
  <2>3. CASE FieldOf(k) # "eq"
    <3>1. FieldOf(k) = k
      BY <2>3 DEF FieldOf, RegisterOf, Registers
    <3>2. FieldOf(r) = r
      BY <2>1, <2>3 DEF FieldOf, RegisterOf, Registers
    <3> QED
      BY <2>1, <3>1, <3>2
  <2> QED
    BY <2>2, <2>3
<1>6. Register(m) = CHOOSE r \in Registers : About(r)
  BY DEF Register
<1> HIDE DEF m, About
<1>7. (CHOOSE r \in Registers : About(r)) = k
  BY <1>4, <1>5
<1> QED
  BY <1>6, <1>7 DEF m

\* How a headset that has taken a request keeps its register.
LEMMA RequestTaken ==
    ASSUME Kept, NEW k \in Registers, NEW v \in Choices(k), Command(k, v)
    PROVE  device' = [device EXCEPT ![k] = Taken(k, Build(k, v))]
<1> DEFINE m == First(Packet(Request(k, v), 0))
<1>1. Request(k, v) \in Messages
  BY RequestIsMessage
<1>2. m = Request(k, v)
  <2>1. /\ Packet(Request(k, v), 0) \in Seq(Byte)
        /\ Len(Packet(Request(k, v), 0)) = 4 + Len(Request(k, v).payload)
        /\ Carries(Packet(Request(k, v), 0), 0, Request(k, v))
    BY <1>1, 0 \in 0..15, PacketCarries
  <2>2. Len(Request(k, v).payload) \in 0..255
    BY <1>1, MessageParts
  <2>3. \A n \in 0..255 : 4 + n <= 4 + n
    OBVIOUS
  <2>4. 4 + Len(Request(k, v).payload) <= Len(Packet(Request(k, v), 0))
    BY <2>1, <2>2, <2>3
  <2> QED
    BY <1>1, <2>1, <2>4, FirstIsCarried
<1>3. device' = [device EXCEPT ![Register(m)] = Taken(Register(m), m.payload)]
  BY DEF Command
<1>4. Register(m) = k
  BY <1>2, RegisterOfRequest
<1>5. m.payload = Build(k, v)
  BY <1>2 DEF Request
<1> QED
  BY <1>3, <1>4, <1>5

-----------------------------------------------------------------------------
(* What is published *)

Known == known = [s \in Settings |-> known[s]]

\* A message that tells a field tells no other one.
LEMMA TellsOne ==
    ASSUME NEW m, NEW f \in Fields, Told(m, f)
    PROVE  \A g \in Fields : Told(m, g) => g = f
<1>1. ASSUME NEW g \in Fields, Told(m, g) PROVE g = f
  <2>1. Fblock(g) = Fblock(f) /\ Func(g) = Func(f)
    BY <1>1 DEF Told, Addressed
  <2> QED
    BY <2>1, Addresses
<1> QED
  BY <1>1

LEMMA AppliedIs ==
    ASSUME NEW m, NEW f \in Fields, Told(m, f)
    PROVE  /\ f = "battery" => Applied(m) = [known EXCEPT !.battery = m.payload[1]]
           /\ f = "cnc" => Applied(m) = [known EXCEPT !.cnc = CncLevel(m.payload),
                                                      !.cncMax = CncMax(m.payload)]
           /\ f = "eq" => Applied(m) = [known EXCEPT !.bass = Band(m.payload, 0, 3, 0),
                                                     !.mid = Band(m.payload, 1, 3, 0),
                                                     !.treble = Band(m.payload, 2, 3, 0),
                                                     !.eqMin = Band(m.payload, 0, 1, -10),
                                                     !.eqMax = Band(m.payload, 0, 2, 10)]
           /\ f = "sidetone" => Applied(m) = [known EXCEPT !.sidetone = SidetoneOf(m.payload)]
           /\ f = "prompts" => Applied(m) = [known EXCEPT
                                               !.prompts = (m.payload[1] \div 32) % 2 = 1,
                                               !.language = m.payload[1] % 32]
           /\ f = "multipoint" => Applied(m) = [known EXCEPT !.multipoint = m.payload[1] % 2 = 1]
<1>1. /\ "battery" \in Fields /\ "cnc" \in Fields /\ "eq" \in Fields
      /\ "sidetone" \in Fields /\ "prompts" \in Fields /\ "multipoint" \in Fields
  BY DEF Fields
<1>2. /\ Told(m, "battery") => f = "battery"
      /\ Told(m, "cnc") => f = "cnc"
      /\ Told(m, "eq") => f = "eq"
      /\ Told(m, "sidetone") => f = "sidetone"
      /\ Told(m, "prompts") => f = "prompts"
      /\ Told(m, "multipoint") => f = "multipoint"
  BY <1>1, TellsOne
<1>3. CASE f = "battery"
  BY <1>2, <1>3 DEF Applied
<1>4. CASE f = "cnc"
  BY <1>2, <1>4 DEF Applied
<1>5. CASE f = "eq"
  BY <1>2, <1>5 DEF Applied
<1>6. CASE f = "sidetone"
  BY <1>2, <1>6 DEF Applied
<1>7. CASE f = "prompts"
  BY <1>2, <1>7 DEF Applied
<1>8. CASE f = "multipoint"
  BY <1>2, <1>8 DEF Applied
<1> QED
  BY <1>3, <1>4, <1>5, <1>6, <1>7, <1>8 DEF Fields

\* What is not told is left as it was.
LEMMA AppliedLeaves ==
    ASSUME Known, NEW m, NEW s \in Settings, ~Told(m, FieldOf(s))
    PROVE  Applied(m)[s] = known[s]
<1>1. CASE \E f \in Fields : Told(m, f)
  <2>1. PICK f \in Fields : Told(m, f)
    BY <1>1
  <2>2. f # FieldOf(s)
    BY <2>1
  <2>3. CASE f = "battery"
    <3>1. s # "battery"
      BY <2>2, <2>3 DEF FieldOf, RegisterOf, Settings, Registers
    <3>2. Applied(m) = [known EXCEPT !.battery = m.payload[1]]
      BY <2>1, <2>3, AppliedIs
    <3> QED
      BY <3>1, <3>2 DEF Known
  <2>4. CASE f = "cnc"
    <3>1. s \notin {"cnc", "cncMax"}
      BY <2>2, <2>4 DEF FieldOf, RegisterOf, Settings, Registers
    <3>2. Applied(m) = [known EXCEPT !.cnc = CncLevel(m.payload), !.cncMax = CncMax(m.payload)]
      BY <2>1, <2>4, AppliedIs
    <3> QED
      BY <3>1, <3>2 DEF Known
  <2>5. CASE f = "eq"
    <3>1. s \notin {"bass", "mid", "treble", "eqMin", "eqMax"}
      BY <2>2, <2>5 DEF FieldOf, RegisterOf, Settings, Registers
    <3>2. Applied(m) = [known EXCEPT !.bass = Band(m.payload, 0, 3, 0),
                                     !.mid = Band(m.payload, 1, 3, 0),
                                     !.treble = Band(m.payload, 2, 3, 0),
                                     !.eqMin = Band(m.payload, 0, 1, -10),
                                     !.eqMax = Band(m.payload, 0, 2, 10)]
      BY <2>1, <2>5, AppliedIs
    <3> QED
      BY <3>1, <3>2 DEF Known
  <2>6. CASE f = "sidetone"
    <3>1. s # "sidetone"
      BY <2>2, <2>6 DEF FieldOf, RegisterOf, Settings, Registers
    <3>2. Applied(m) = [known EXCEPT !.sidetone = SidetoneOf(m.payload)]
      BY <2>1, <2>6, AppliedIs
    <3> QED
      BY <3>1, <3>2 DEF Known
  <2>7. CASE f = "prompts"
    <3>1. s \notin {"prompts", "language"}
      BY <2>2, <2>7 DEF FieldOf, RegisterOf, Settings, Registers
    <3>2. Applied(m) = [known EXCEPT !.prompts = (m.payload[1] \div 32) % 2 = 1,
                                     !.language = m.payload[1] % 32]
      BY <2>1, <2>7, AppliedIs
    <3> QED
      BY <3>1, <3>2 DEF Known
  <2>8. CASE f = "multipoint"
    <3>1. s # "multipoint"
      BY <2>2, <2>8 DEF FieldOf, RegisterOf, Settings, Registers
    <3>2. Applied(m) = [known EXCEPT !.multipoint = m.payload[1] % 2 = 1]
      BY <2>1, <2>8, AppliedIs
    <3> QED
      BY <3>1, <3>2 DEF Known
  <2> QED
    BY <2>3, <2>4, <2>5, <2>6, <2>7, <2>8 DEF Fields
<1>2. CASE \A f \in Fields : ~Told(m, f)
  BY <1>2 DEF Applied, Fields
<1> QED
  BY <1>1, <1>2

LEMMA AppliedKnown ==
    ASSUME Known, NEW m
    PROVE  Applied(m) = [s \in Settings |-> Applied(m)[s]]
<1>1. CASE \E f \in Fields : Told(m, f)
  <2>1. PICK f \in Fields : Told(m, f)
    BY <1>1
  <2>2. \/ Applied(m) = [known EXCEPT !.battery = m.payload[1]]
        \/ Applied(m) = [known EXCEPT !.cnc = CncLevel(m.payload), !.cncMax = CncMax(m.payload)]
        \/ Applied(m) = [known EXCEPT !.bass = Band(m.payload, 0, 3, 0),
                                      !.mid = Band(m.payload, 1, 3, 0),
                                      !.treble = Band(m.payload, 2, 3, 0),
                                      !.eqMin = Band(m.payload, 0, 1, -10),
                                      !.eqMax = Band(m.payload, 0, 2, 10)]
        \/ Applied(m) = [known EXCEPT !.sidetone = SidetoneOf(m.payload)]
        \/ Applied(m) = [known EXCEPT !.prompts = (m.payload[1] \div 32) % 2 = 1,
                                      !.language = m.payload[1] % 32]
        \/ Applied(m) = [known EXCEPT !.multipoint = m.payload[1] % 2 = 1]
    <3>1. f \in {"battery", "cnc", "eq", "sidetone", "prompts", "multipoint"}
      BY DEF Fields
    <3> QED
      BY <2>1, <3>1, AppliedIs, Zenon
  <2> QED
    BY <2>2 DEF Known
<1>2. CASE \A f \in Fields : ~Told(m, f)
  BY <1>2 DEF Applied, Fields, Known
<1> QED
  BY <1>1, <1>2

\* What is told of a register is what it means.
LEMMA ShownByte ==
    /\ \A b \in Byte : (b \div 32) % 2 = 1 <=> b % 64 >= 32
    /\ \A b \in 0..10 : CncLevel(<<11, b, 1>>) = 10 - b /\ CncMax(<<11, b, 1>>) = 10
    /\ \A b \in 0..3 : SidetoneOf(<<1, b, 15>>) = SidetoneName[b + 1]
    /\ Signed(246) = -10 /\ Signed(10) = 10
<1>1. \A b \in Byte : (b \div 32) % 2 = 1 <=> b % 64 >= 32
  BY DEF Byte
<1>2. ASSUME NEW b \in 0..10
      PROVE  CncLevel(<<11, b, 1>>) = 10 - b /\ CncMax(<<11, b, 1>>) = 10
  <2>1. CncMax(<<11, b, 1>>) = 10
    BY DEF CncMax, Unsigned
  <2> QED
    BY <2>1 DEF CncLevel
<1>3. ASSUME NEW b \in 0..3 PROVE SidetoneOf(<<1, b, 15>>) = SidetoneName[b + 1]
  BY DEF SidetoneOf
<1>4. Signed(246) = -10 /\ Signed(10) = 10
  BY DEF Signed
<1> QED
  BY <1>1, <1>2, <1>3, <1>4

LEMMA ShownBands ==
    ASSUME NEW a \in Byte, NEW b \in Byte, NEW c \in Byte,
           NEW p, p = <<246, 10, a, 0, 246, 10, b, 1, 246, 10, c, 2>>,
           NEW other
    PROVE  /\ Band(p, 0, 3, other) = Signed(a) /\ Band(p, 1, 3, other) = Signed(b)
           /\ Band(p, 2, 3, other) = Signed(c) /\ Band(p, 0, 1, other) = Signed(246)
           /\ Band(p, 0, 2, other) = Signed(10)
<1>1. /\ p[1] = 246 /\ p[2] = 10 /\ p[3] = a /\ p[4] = 0
      /\ p[7] = b /\ p[8] = 1 /\ p[11] = c /\ p[12] = 2 /\ Len(p) = 12
  OBVIOUS
<1>2. Groups(p) = {1, 2, 3}
  <2>1. 12 \div 4 = 3 /\ 1..3 = {1, 2, 3}
    OBVIOUS
  <2> QED
    BY <1>1, <2>1 DEF Groups
<1>3. /\ p[4 * 1] = 0 /\ p[4 * 2] = 1 /\ p[4 * 3] = 2
  BY <1>1
<1>4. GroupsOf(p, 0) = {1} /\ GroupsOf(p, 1) = {2} /\ GroupsOf(p, 2) = {3}
  BY <1>2, <1>3 DEF GroupsOf
<1>5. ASSUME NEW i \in {1, 2, 3}
      PROVE  (CHOOSE x \in {i} : \A j \in {i} : j <= x) = i
  <2>1. i \in {i} /\ \A j \in {i} : j <= i
    OBVIOUS
  <2>2. (CHOOSE x \in {i} : \A j \in {i} : j <= x) \in {i}
    BY <2>1
  <2> QED
    BY <2>2
<1>6. ASSUME NEW id, NEW i \in {1, 2, 3}, NEW off \in 1..3, GroupsOf(p, id) = {i}
      PROVE  Band(p, id, off, other) = Signed(p[4 * i - 4 + off])
  <2> DEFINE last == CHOOSE x \in GroupsOf(p, id) : \A j \in GroupsOf(p, id) : j <= x
  <2>1. last = i
    BY <1>5, <1>6
  <2>2. Band(p, id, off, other)
          = IF GroupsOf(p, id) = {} THEN other ELSE Signed(p[4 * last - 4 + off])
    BY DEF Band
  <2>3. GroupsOf(p, id) # {}
    BY <1>6
  <2> HIDE DEF last
  <2> QED
    BY <2>1, <2>2, <2>3
<1>7. /\ 4 * 1 - 4 + 3 = 3 /\ 4 * 2 - 4 + 3 = 7 /\ 4 * 3 - 4 + 3 = 11
      /\ 4 * 1 - 4 + 1 = 1 /\ 4 * 1 - 4 + 2 = 2
      /\ 1 \in 1..3 /\ 2 \in 1..3 /\ 3 \in 1..3
  OBVIOUS
<1> QED
  BY <1>1, <1>4, <1>6, <1>7

LEMMA StatusTold ==
    ASSUME NEW f \in Fields
    PROVE  Told(StatusMessage(f), f) /\ StatusMessage(f).payload = Payload(f)
<1>1. /\ StatusMessage(f).payload = Payload(f)
      /\ StatusMessage(f).fblock = Fblock(f) /\ StatusMessage(f).func = Func(f)
  BY DEF StatusMessage
<1>2. Len(Payload(f)) >= Least(f)
  <2>1. CASE f = "battery"
    BY <2>1 DEF Payload, Least
  <2>2. CASE f = "cnc"
    BY <2>2 DEF Payload, Least
  <2>3. CASE f = "eq"
    BY <2>3 DEF Payload, Least
  <2>4. CASE f = "sidetone"
    BY <2>4 DEF Payload, Least
  <2>5. CASE f = "prompts"
    BY <2>5 DEF Payload, Least
  <2>6. CASE f = "multipoint"
    BY <2>6 DEF Payload, Least
  <2> QED
    BY <2>1, <2>2, <2>3, <2>4, <2>5, <2>6 DEF Fields
<1> QED
  BY <1>1, <1>2 DEF Told, Addressed

LEMMA Shown ==
    ASSUME Kept, Known, NEW s \in Settings
    PROVE  Applied(StatusMessage(FieldOf(s)))[s] = Means(s, device[RegisterOf(s)])
<1> DEFINE f == FieldOf(s)
           m == StatusMessage(f)
           p == Payload(f)
<1>1. f \in Fields
  BY DEF FieldOf, RegisterOf, Registers, Fields, Settings
<1>2. Told(m, f) /\ m.payload = p
  BY <1>1, StatusTold
<1>3. \A k \in Registers : device[k] \in Byte /\ device[k] \in Holds(k)
  BY DEF Kept
<1> HIDE DEF m
<1>5. CASE s = "battery"
  <2>1. f = "battery" /\ RegisterOf(s) = "battery"
    BY <1>5 DEF FieldOf, RegisterOf
  <2>2. Applied(m) = [known EXCEPT !.battery = p[1]]
    BY <1>1, <1>2, <2>1, AppliedIs
  <2>3. p[1] = device.battery
    BY <2>1 DEF Payload
  <2> QED
    BY <1>5, <2>1, <2>2, <2>3 DEF Known, Means, m
<1>6. CASE s \in {"cnc", "cncMax"}
  <2>1. f = "cnc" /\ RegisterOf(s) = "cnc"
    BY <1>6 DEF FieldOf, RegisterOf
  <2>2. Applied(m) = [known EXCEPT !.cnc = CncLevel(p), !.cncMax = CncMax(p)]
    BY <1>1, <1>2, <2>1, AppliedIs
  <2>3. p = <<11, device.cnc, 1>>
    BY <2>1 DEF Payload
  <2>4. device.cnc \in 0..10
    BY <1>3 DEF Registers, Holds
  <2>5. CncLevel(p) = 10 - device.cnc /\ CncMax(p) = 10
    BY <2>3, <2>4, ShownByte
  <2>6. Applied(m)[s] = IF s = "cnc" THEN 10 - device.cnc ELSE 10
    BY <1>6, <2>2, <2>5 DEF Known
  <2>7. Means(s, device.cnc) = IF s = "cnc" THEN 10 - device.cnc ELSE 10
    BY <1>6 DEF Means
  <2> QED
    BY <2>1, <2>6, <2>7 DEF m
<1>7. CASE s \in {"bass", "mid", "treble", "eqMin", "eqMax"}
  <2>1. f = "eq"
    BY <1>7 DEF FieldOf, RegisterOf
  <2>2. Applied(m) = [known EXCEPT !.bass = Band(p, 0, 3, 0),
                                   !.mid = Band(p, 1, 3, 0),
                                   !.treble = Band(p, 2, 3, 0),
                                   !.eqMin = Band(p, 0, 1, -10),
                                   !.eqMax = Band(p, 0, 2, 10)]
    BY <1>1, <1>2, <2>1, AppliedIs
  <2>3. p = <<246, 10, device.bass, 0, 246, 10, device.mid, 1,
              246, 10, device.treble, 2>>
    BY <2>1 DEF Payload
  <2>4. device.bass \in Byte /\ device.mid \in Byte /\ device.treble \in Byte
    BY <1>3 DEF Registers
  <2> HIDE DEF p
  <2>5. /\ Band(p, 0, 3, 0) = Signed(device.bass)
        /\ Band(p, 1, 3, 0) = Signed(device.mid)
        /\ Band(p, 2, 3, 0) = Signed(device.treble)
        /\ Band(p, 0, 1, -10) = -10
        /\ Band(p, 0, 2, 10) = 10
    BY <2>3, <2>4, ShownBands, ShownByte
  <2>6. Applied(m)[s] = CASE s = "bass" -> Signed(device.bass)
                          [] s = "mid" -> Signed(device.mid)
                          [] s = "treble" -> Signed(device.treble)
                          [] s = "eqMin" -> -10
                          [] OTHER -> 10
    BY <1>7, <2>2, <2>5 DEF Known
  <2>7. Means(s, device[RegisterOf(s)])
          = CASE s = "bass" -> Signed(device.bass)
              [] s = "mid" -> Signed(device.mid)
              [] s = "treble" -> Signed(device.treble)
              [] s = "eqMin" -> -10
              [] OTHER -> 10
    BY <1>7 DEF Means, RegisterOf, Signed
  <2> QED
    BY <2>6, <2>7 DEF m
<1>8. CASE s = "sidetone"
  <2>1. f = "sidetone" /\ RegisterOf(s) = "sidetone"
    BY <1>8 DEF FieldOf, RegisterOf
  <2>2. Applied(m) = [known EXCEPT !.sidetone = SidetoneOf(p)]
    BY <1>1, <1>2, <2>1, AppliedIs
  <2>3. p = <<1, device.sidetone, 15>>
    BY <2>1 DEF Payload
  <2>4. device.sidetone \in 0..3
    BY <1>3 DEF Registers, Holds
  <2>5. SidetoneOf(p) = SidetoneName[device.sidetone + 1]
    BY <2>3, <2>4, ShownByte
  <2>6. Means(s, device.sidetone) = SidetoneName[device.sidetone + 1]
    BY <1>8 DEF Means, SidetoneName
  <2> QED
    BY <1>8, <2>1, <2>2, <2>5, <2>6 DEF Known, m
<1>9. CASE s \in {"prompts", "language"}
  <2>1. f = "prompts" /\ RegisterOf(s) = "prompts"
    BY <1>9 DEF FieldOf, RegisterOf
  <2>2. Applied(m) = [known EXCEPT !.prompts = (m.payload[1] \div 32) % 2 = 1,
                                   !.language = m.payload[1] % 32]
    BY <1>1, <1>2, <2>1, AppliedIs
  <2>3. p[1] = device.prompts
    BY <2>1 DEF Payload
  <2>4. device.prompts \in Byte
    BY <1>3 DEF Registers
  <2>5. ((p[1] \div 32) % 2 = 1) = (device.prompts % 64 >= 32)
    BY <2>3, <2>4, ShownByte
  <2>6. CASE s = "prompts"
    <3>1. Applied(m)[s] = ((m.payload[1] \div 32) % 2 = 1)
      BY <2>2, <2>6 DEF Known
    <3>2. Means(s, device.prompts) = (device.prompts % 64 >= 32)
      BY <2>6 DEF Means
    <3> QED
      BY <1>2, <2>1, <2>5, <3>1, <3>2 DEF m
  <2>7. CASE s = "language"
    <3>1. Applied(m)[s] = m.payload[1] % 32
      BY <2>2, <2>7 DEF Known
    <3>2. Means(s, device.prompts) = device.prompts % 32
      BY <2>7 DEF Means
    <3> QED
      BY <1>2, <2>1, <2>3, <3>1, <3>2 DEF m
  <2> QED
    BY <1>9, <2>6, <2>7
<1>10. CASE s = "multipoint"
  <2>1. f = "multipoint" /\ RegisterOf(s) = "multipoint"
    BY <1>10 DEF FieldOf, RegisterOf
  <2>2. Applied(m) = [known EXCEPT !.multipoint = m.payload[1] % 2 = 1]
    BY <1>1, <1>2, <2>1, AppliedIs
  <2>3. p[1] = device.multipoint
    BY <2>1 DEF Payload
  <2>4. Applied(m)[s] = (device.multipoint % 2 = 1)
    BY <1>2, <1>10, <2>2, <2>3 DEF Known
  <2>5. Means(s, device.multipoint) = (device.multipoint % 2 = 1)
    BY <1>10 DEF Means
  <2> QED
    BY <2>1, <2>4, <2>5 DEF m
<1> QED
  BY <1>5, <1>6, <1>7, <1>8, <1>9, <1>10 DEF Settings, Registers

-----------------------------------------------------------------------------
(* What was asked for *)

\* each setting was set to what its register means
Agrees == asked = [s \in Settings |-> Means(s, device[RegisterOf(s)])]

\* what the headset makes of the bit a, by the byte d it had
Mixed(d, a) == 64 * (d \div 64) + ((a + (d % 32)) % 64)
Shows(b, d, a) ==
    b \in 0..255 /\ (b % 64 >= 32 <=> a = 32) /\ b % 32 = d % 32

LEMMA PromptBits ==
    ASSUME NEW d \in 0..255, NEW a \in {0, 32}
    PROVE  Shows(Mixed(d, a), d, a)
<1>1. d \div 64 \in 0..3 /\ d % 32 \in 0..31
  OBVIOUS
<1>2. \A q \in 0..3, x \in 0..63 :
        x % 64 = x /\ (64 * q + x) % 64 = x /\ 64 * q + x \in 0..255
  OBVIOUS
<1>3. \A q \in 0..3, r \in 0..31 :
        (64 * q + r) % 32 = r /\ (64 * q + (32 + r)) % 32 = r
  OBVIOUS
<1>4. \A r \in 0..31 : 0 + r = r /\ r \in 0..63 /\ 32 + r \in 0..63
                       /\ 32 + r >= 32 /\ ~(r >= 32)
  OBVIOUS
<1> DEFINE q == d \div 64
           r == d % 32
           b == Mixed(d, a)
<1> HIDE DEF q, r, b
<1>5. q \in 0..3 /\ r \in 0..31 /\ b = 64 * q + ((a + r) % 64)
  BY <1>1 DEF q, r, b, Mixed
<1>6. CASE a = 0
  <2>1. b = 64 * q + r
    BY <1>2, <1>4, <1>5, <1>6
  <2> QED
    BY <1>2, <1>3, <1>4, <1>5, <1>6, <2>1 DEF r, b, Shows
<1>7. CASE a = 32
  <2>1. b = 64 * q + (32 + r)
    BY <1>2, <1>4, <1>5, <1>7
  <2> QED
    BY <1>2, <1>3, <1>4, <1>5, <1>7, <2>1 DEF r, b, Shows
<1> QED
  BY <1>6, <1>7

LEMMA RequestMeans ==
    ASSUME Kept, NEW k \in Registers, NEW v \in Choices(k),
           NEW b, b = Taken(k, Build(k, v))
    PROVE  /\ b \in Byte /\ b \in Holds(k) /\ Means(k, b) = v
           /\ k = "prompts" => b % 32 = device.prompts % 32
<1>1. CASE k = "cnc"
  <2>1. v \in 0..10 /\ b = 10 - v
    <3>1. v \in 0..10 /\ Build(k, v) = <<10 - v, 1>>
      BY <1>1, Built
    <3>2. b = Build(k, v)[1]
      BY <1>1 DEF Taken
    <3> QED
      BY <3>1, <3>2
  <2>2. b \in 0..10 /\ b \in Byte /\ 10 - b = v
    BY <2>1 DEF Byte
  <2>3. Means(k, b) = 10 - b /\ Holds(k) = 0..10
    BY <1>1 DEF Means, Holds
  <2> QED
    BY <1>1, <2>2, <2>3
<1>2. CASE k \in {"bass", "mid", "treble"}
  <2>1. v \in -10..10 /\ b = v % 256
    <3>1. v \in -10..10 /\ \E i : Build(k, v) = <<v % 256, i>>
      BY <1>2, Built
    <3>2. b = Build(k, v)[1]
      BY <1>2 DEF Taken
    <3> QED
      BY <3>1, <3>2
  <2>2. \A n \in -10..10 : /\ n % 256 \in 0..255
                           /\ (IF n % 256 < 128 THEN n % 256
                             ELSE (n % 256) - 256) = n
    <3>1. \A n \in 0..10 : n % 256 = n
      OBVIOUS
    <3>2. \A n \in -10..-1 : n % 256 = n + 256
      OBVIOUS
    <3> QED
      BY <3>1, <3>2
  <2>3. Means(k, b) = (IF b < 128 THEN b ELSE b - 256) /\ Holds(k) = Byte
    BY <1>2 DEF Means, Holds
  <2> QED
    BY <1>2, <2>1, <2>2, <2>3 DEF Byte
<1>3. CASE k = "sidetone"
  <2>1. PICK i \in 0..3 : SidetoneName[i + 1] = v /\ Build(k, v) = <<1, i>>
    BY <1>3, Built
  <2>2. b = i
    BY <1>3, <2>1 DEF Taken
  <2>3. Means(k, b) = SidetoneName[b + 1] /\ Holds(k) = 0..3
    BY <1>3 DEF Means, Holds, SidetoneName
  <2>4. i \in Byte
    BY DEF Byte
  <2> QED
    BY <1>3, <2>1, <2>2, <2>3, <2>4
<1>4. CASE k = "prompts"
  <2> DEFINE a == IF v THEN 32 ELSE 0
  <2>1. v \in BOOLEAN /\ Build(k, v) = <<a + (device.prompts % 32)>>
    BY <1>4, Built
  <2>2. device.prompts \in 0..255
    BY DEF Kept, Registers, Byte
  <2>3. a \in {0, 32} /\ (a = 32 <=> v)
    BY <2>1
  <2>4. b = 64 * (device.prompts \div 64) + (Build(k, v)[1] % 64)
    BY <1>4 DEF Taken
  <2>5. Build(k, v)[1] = a + (device.prompts % 32)
    BY <2>1
  <2> HIDE DEF a
  <2>6. b \in 0..255 /\ (b % 64 >= 32 <=> a = 32) /\ b % 32 = device.prompts % 32
    <3>1. b = Mixed(device.prompts, a)
      BY <2>4, <2>5 DEF Mixed
    <3>2. a \in {0, 32}
      BY <2>3
    <3>3. Shows(Mixed(device.prompts, a), device.prompts, a)
      BY <2>2, <3>2, PromptBits
    <3> QED
      BY <3>1, <3>3 DEF Shows
  <2>7. Means(k, b) = (b % 64 >= 32) /\ Holds(k) = Byte
    BY <1>4 DEF Means, Holds
  <2>8. (b % 64 >= 32) = v
    BY <2>1, <2>3, <2>6
  <2> QED
    BY <2>6, <2>7, <2>8 DEF Byte
<1>5. CASE k = "multipoint"
  <2>1. v \in BOOLEAN /\ Build(k, v) = <<IF v THEN 1 ELSE 0>>
    BY <1>5, Built
  <2>2. b = 2 + ((IF v THEN 1 ELSE 0) % 2)
    BY <1>5, <2>1 DEF Taken
  <2>3. b = (IF v THEN 3 ELSE 2)
    BY <2>2
  <2>4. 3 % 2 = 1 /\ 2 % 2 = 0
    OBVIOUS
  <2>5. Means(k, b) = (b % 2 = 1) /\ Holds(k) = Byte
    BY <1>5 DEF Means, Holds
  <2>6. (b % 2 = 1) = v
    BY <2>1, <2>3, <2>4
  <2>7. b \in Byte
    BY <2>3 DEF Byte
  <2> QED
    BY <1>5, <2>5, <2>6, <2>7
<1> QED
  BY <1>1, <1>2, <1>3, <1>4, <1>5, Built

\* What one register is told of does not show another.
LEMMA OtherFields ==
    ASSUME Kept, NEW k \in Registers, NEW b, device' = [device EXCEPT ![k] = b],
           NEW f \in Fields, f # FieldOf(k)
    PROVE  StatusMessage(f)' = StatusMessage(f)
<1>1. device = [r \in Registers |-> device[r]]
  BY DEF Kept
<1>2. \A r \in Registers : r # k => device'[r] = device[r]
  BY <1>1
<1>3. /\ f = "battery" => device'.battery = device.battery
      /\ f = "cnc" => device'.cnc = device.cnc
      /\ f = "eq" => /\ device'.bass = device.bass /\ device'.mid = device.mid
                     /\ device'.treble = device.treble
      /\ f = "sidetone" => device'.sidetone = device.sidetone
      /\ f = "prompts" => device'.prompts = device.prompts
      /\ f = "multipoint" => device'.multipoint = device.multipoint
  BY <1>2 DEF FieldOf, RegisterOf, Registers
<1>4. Payload(f)' = Payload(f)
  <2>1. CASE f = "battery"
    BY <1>3, <2>1 DEF Payload
  <2>2. CASE f = "cnc"
    BY <1>3, <2>2 DEF Payload
  <2>3. CASE f = "eq"
    BY <1>3, <2>3 DEF Payload
  <2>4. CASE f = "sidetone"
    BY <1>3, <2>4 DEF Payload
  <2>5. CASE f = "prompts"
    BY <1>3, <2>5 DEF Payload
  <2>6. CASE f = "multipoint"
    BY <1>3, <2>6 DEF Payload
  <2> QED
    BY <2>1, <2>2, <2>3, <2>4, <2>5, <2>6 DEF Fields
<1> QED
  BY <1>4 DEF StatusMessage

LEMMA CommandStep ==
    ASSUME Kept, Agrees, NEW k \in Registers, NEW v \in Choices(k), Command(k, v)
    PROVE  /\ Kept' /\ Agrees'
           /\ \A s \in Settings : FieldOf(s) # FieldOf(k) => asked'[s] = asked[s]
           /\ \A f \in Fields : f # FieldOf(k) => StatusMessage(f)' = StatusMessage(f)
<1> DEFINE b == Taken(k, Build(k, v))
<1>1. device' = [device EXCEPT ![k] = b]
  BY RequestTaken
<1>2. /\ b \in Byte /\ b \in Holds(k) /\ Means(k, b) = v
      /\ k = "prompts" => b % 32 = device.prompts % 32
  BY RequestMeans
<1> HIDE DEF b
<1>3. asked' = [asked EXCEPT ![k] = v]
  BY DEF Command
<1>4. device' \in [Registers -> Byte] /\ device'[k] = b
      /\ \A r \in Registers : r # k => device'[r] = device[r]
  BY <1>1, <1>2 DEF Kept
<1>5. Kept'
  BY <1>2, <1>4 DEF Kept
<1>6. \A s \in Settings : RegisterOf(s) \in Registers
  BY DEF Settings, Registers, RegisterOf
<1>7. ASSUME NEW s \in Settings
      PROVE  (IF s = k THEN v ELSE Means(s, device[RegisterOf(s)]))
               = Means(s, device'[RegisterOf(s)])
  <2>1. CASE s = k
    <3>1. RegisterOf(s) = k
      BY <2>1 DEF RegisterOf, Registers
    <3> QED
      BY <1>2, <1>4, <2>1, <3>1
  <2>2. CASE s # k /\ RegisterOf(s) # k
    BY <1>4, <1>6, <2>2
  <2>3. CASE s # k /\ RegisterOf(s) = k
    <3>1. s \in {"language", "cncMax", "eqMin", "eqMax"}
      BY <2>3 DEF RegisterOf
    <3>2. CASE s = "language"
      <4>1. k = "prompts"
        BY <2>3, <3>2 DEF RegisterOf
      <4>2. Means(s, b) = b % 32 /\ Means(s, device.prompts) = device.prompts % 32
        BY <3>2 DEF Means
      <4> QED
        BY <1>2, <1>4, <2>3, <4>1, <4>2
    <3>3. CASE s \in {"cncMax", "eqMin", "eqMax"}
      BY <2>3, <3>3 DEF Means
    <3> QED
      BY <3>1, <3>2, <3>3
  <2> QED
    BY <2>1, <2>2, <2>3
<1>8. asked' = [s \in Settings |-> IF s = k THEN v
                                   ELSE Means(s, device[RegisterOf(s)])]
  BY <1>3 DEF Agrees, Settings
<1>9. Agrees'
  BY <1>7, <1>8 DEF Agrees
<1>10. ASSUME NEW s \in Settings, FieldOf(s) # FieldOf(k)
       PROVE  asked'[s] = asked[s]
  BY <1>3, <1>10 DEF Agrees
<1> QED
  BY <1>1, <1>5, <1>9, <1>10, OtherFields

LEMMA TouchStep ==
    ASSUME Kept, Agrees, NEW k \in Registers, NEW b \in Holds(k), Touch(k, b)
    PROVE  /\ Kept' /\ Agrees'
           /\ \A s \in Settings : FieldOf(s) # FieldOf(k) => asked'[s] = asked[s]
           /\ \A f \in Fields : f # FieldOf(k) => StatusMessage(f)' = StatusMessage(f)
<1>1. device' = [device EXCEPT ![k] = b]
  BY DEF Touch
<1>2. b \in Byte
  BY DEF Holds, Byte
<1>3. asked' = [s \in Settings |-> IF RegisterOf(s) = k THEN Means(s, b)
                                   ELSE asked[s]]
  BY DEF Touch
<1>4. device' \in [Registers -> Byte] /\ device'[k] = b
      /\ \A r \in Registers : r # k => device'[r] = device[r]
  BY <1>1, <1>2 DEF Kept
<1>5. Kept'
  BY <1>4 DEF Kept
<1>6. \A s \in Settings : RegisterOf(s) \in Registers
  BY DEF Settings, Registers, RegisterOf
<1>7. ASSUME NEW s \in Settings
      PROVE  (IF RegisterOf(s) = k THEN Means(s, b) ELSE asked[s])
               = Means(s, device'[RegisterOf(s)])
  BY <1>4, <1>6 DEF Agrees
<1>8. Agrees'
  BY <1>3, <1>7 DEF Agrees
<1>9. ASSUME NEW s \in Settings, FieldOf(s) # FieldOf(k)
      PROVE  asked'[s] = asked[s]
  <2>1. RegisterOf(s) # k
    BY <1>9 DEF FieldOf, RegisterOf, Registers
  <2> QED
    BY <1>3, <2>1
<1> QED
  BY <1>1, <1>5, <1>8, <1>9, OtherFields

-----------------------------------------------------------------------------
(* The invariant *)

\* the last that was told of a field is what its registers hold, and once the
\* parser has handed it out it is published
ToldOf(f) ==
    \E i \in 1..Len(sent) :
        /\ sent[i] = StatusMessage(f)
        /\ \A j \in 1..Len(sent) :
             j > i /\ sent[j].op = Status /\ Told(sent[j], f) =>
               sent[j] = StatusMessage(f)
        /\ i <= Len(got) =>
             \A s \in Settings : FieldOf(s) = f => known[s] = asked[s]

AllTold == told \subseteq Fields /\ \A f \in told : ToldOf(f)

CodecInv == Stream /\ Kept /\ Agrees /\ Known /\ AllTold

LEMMA Start == Init => CodecInv
<1> SUFFICES ASSUME Init PROVE CodecInv
  OBVIOUS
<1>1. Stream
  BY StreamStarts DEF Init, NoTraffic, NoBytes
<1>2. /\ device = [battery |-> 88, cnc |-> 0, bass |-> 0, mid |-> 246,
                   treble |-> 10, sidetone |-> 2, prompts |-> 130,
                   multipoint |-> 3]
      /\ asked = [battery |-> 88, cnc |-> 10, bass |-> 0, mid |-> -10,
                  treble |-> 10, sidetone |-> "medium", prompts |-> FALSE,
                  language |-> 2, multipoint |-> TRUE,
                  cncMax |-> 10, eqMin |-> -10, eqMax |-> 10]
  BY DEF Init
<1>3. Kept
  <2>1. device = [r \in Registers |-> device[r]]
    BY <1>2 DEF Registers
  <2>2. \A r \in Registers : device[r] \in 0..255
    BY <1>2 DEF Registers
  <2>3. \A r \in Registers : device[r] \in Holds(r)
    <3>1. device.cnc \in 0..10 /\ device.sidetone \in 0..3
      BY <1>2
    <3>2. \A r \in Registers : device[r] \in Byte
      BY <2>2 DEF Byte
    <3> QED
      BY <3>1, <3>2 DEF Holds
  <2> QED
    BY <2>1, <2>2, <2>3 DEF Kept, Byte
<1>4. Agrees
  <2>1. asked = [s \in Settings |-> asked[s]]
    BY <1>2 DEF Settings, Registers
  <2>2. ASSUME NEW s \in Settings
        PROVE  asked[s] = Means(s, device[RegisterOf(s)])
    <3>1. CASE s \in {"battery", "cnc", "bass", "mid", "treble"}
      BY <1>2, <3>1 DEF Means, RegisterOf
    <3>2. CASE s \in {"cncMax", "eqMin", "eqMax"}
      BY <1>2, <3>2 DEF Means, RegisterOf
    <3>3. CASE s = "sidetone"
      BY <1>2, <3>3 DEF Means, RegisterOf
    <3>4. CASE s \in {"prompts", "language"}
      <4>1. RegisterOf(s) = "prompts" /\ device.prompts = 130
        BY <1>2, <3>4 DEF RegisterOf
      <4>2. 130 % 64 = 2 /\ 130 % 32 = 2 /\ ~(2 >= 32)
        OBVIOUS
      <4>3. CASE s = "prompts"
        <5>1. Means(s, 130) = (130 % 64 >= 32)
          BY <4>3 DEF Means
        <5>2. (130 % 64 >= 32) = FALSE
          BY <4>2
        <5> QED
          BY <1>2, <4>1, <4>3, <5>1, <5>2
      <4>4. CASE s = "language"
        BY <1>2, <4>1, <4>2, <4>4 DEF Means
      <4> QED
        BY <3>4, <4>3, <4>4
    <3>5. CASE s = "multipoint"
      <4>1. 3 % 2 = 1
        OBVIOUS
      <4> QED
        BY <1>2, <3>5, <4>1 DEF Means, RegisterOf
    <3> QED
      BY <3>1, <3>2, <3>3, <3>4, <3>5 DEF Settings, Registers
  <2> QED
    BY <2>1, <2>2 DEF Agrees
<1>5. Known
  BY DEF Init, Known
<1>6. AllTold
  BY DEF Init, NoTraffic, AllTold
<1> QED
  BY <1>1, <1>3, <1>4, <1>5, <1>6 DEF CodecInv

\* A field that is not touched is still told of.
LEMMA StillTold ==
    ASSUME NEW k \in Registers, UNCHANGED <<sent, got, known>>,
           \A s \in Settings : FieldOf(s) # FieldOf(k) => asked'[s] = asked[s],
           \A f \in Fields : f # FieldOf(k) => StatusMessage(f)' = StatusMessage(f),
           told' = told \ {FieldOf(k)}, AllTold
    PROVE  AllTold'
<1>1. ASSUME NEW f \in told' PROVE ToldOf(f)'
  <2>1. f \in told /\ f \in Fields /\ f # FieldOf(k)
    BY DEF AllTold
  <2>2. PICK i \in 1..Len(sent) :
          /\ sent[i] = StatusMessage(f)
          /\ \A j \in 1..Len(sent) :
               j > i /\ sent[j].op = Status /\ Told(sent[j], f) =>
                 sent[j] = StatusMessage(f)
          /\ i <= Len(got) =>
               \A s \in Settings : FieldOf(s) = f => known[s] = asked[s]
    BY <2>1 DEF AllTold, ToldOf
  <2>3. StatusMessage(f)' = StatusMessage(f)
    BY <2>1
  <2>4. ASSUME i <= Len(got), NEW s \in Settings, FieldOf(s) = f
        PROVE  known'[s] = asked'[s]
    BY <2>1, <2>2, <2>4
  <2> QED
    BY <2>2, <2>3, <2>4 DEF ToldOf, Told
<1> QED
  BY <1>1 DEF AllTold

LEMMA Untouched ==
    ASSUME AllTold, UNCHANGED <<device, known, asked, told, sent, got>>
    PROVE  AllTold'
<1>1. \A f : StatusMessage(f)' = StatusMessage(f)
  BY DEF StatusMessage, Payload
<1>2. \A f : ToldOf(f) => ToldOf(f)'
  BY <1>1 DEF ToldOf, Told
<1> QED
  BY <1>2 DEF AllTold

\* What is sent tells nothing, or what a field's registers hold.
LEMMA SentTold ==
    ASSUME Stream, AllTold, NEW m \in Messages, sent' = Append(sent, m),
           UNCHANGED <<device, got, known, asked>>,
           NEW f \in told,
           m.op = Status /\ Told(m, f) => m = StatusMessage(f)
    PROVE  ToldOf(f)'
<1>1. /\ sent \in Seq(Messages) /\ Len(sent) \in Nat
  BY LenProperties DEF Stream, Shape
<1>2. /\ Len(sent') = Len(sent) + 1 /\ sent'[Len(sent) + 1] = m
      /\ \A i \in 1..Len(sent) : sent'[i] = sent[i]
  BY <1>1, AppendProperties
<1>3. PICK i \in 1..Len(sent) :
        /\ sent[i] = StatusMessage(f)
        /\ \A j \in 1..Len(sent) :
             j > i /\ sent[j].op = Status /\ Told(sent[j], f) =>
               sent[j] = StatusMessage(f)
        /\ i <= Len(got) =>
             \A s \in Settings : FieldOf(s) = f => known[s] = asked[s]
  BY DEF AllTold, ToldOf
<1>4. StatusMessage(f)' = StatusMessage(f)
  BY DEF StatusMessage, Payload
<1>5. i \in 1..Len(sent') /\ sent'[i] = StatusMessage(f)'
  BY <1>1, <1>2, <1>3, <1>4
<1>6. ASSUME NEW j \in 1..Len(sent'), j > i, sent'[j].op = Status, Told(sent'[j], f)
      PROVE  sent'[j] = StatusMessage(f)'
  <2>1. j \in 1..Len(sent) \/ j = Len(sent) + 1
    BY <1>1, <1>2
  <2> QED
    BY <1>2, <1>3, <1>4, <1>6, <2>1
<1>7. i <= Len(got') =>
        \A s \in Settings : FieldOf(s) = f => known'[s] = asked'[s]
  BY <1>3
<1> QED
  BY <1>5, <1>6, <1>7 DEF ToldOf, Told

\* What a message does to what is known of a field.
LEMMA AppliedTells ==
    ASSUME Kept, Agrees, Known, NEW m, NEW s \in Settings,
           Told(m, FieldOf(s)) => m = StatusMessage(FieldOf(s))
    PROVE  /\ m = StatusMessage(FieldOf(s)) => Applied(m)[s] = asked[s]
           /\ known[s] = asked[s] => Applied(m)[s] = asked[s]
<1>1. asked[s] = Means(s, device[RegisterOf(s)])
  BY DEF Agrees
<1>2. m = StatusMessage(FieldOf(s)) => Applied(m)[s] = asked[s]
  BY <1>1, Shown
<1>3. ASSUME known[s] = asked[s], ~Told(m, FieldOf(s))
      PROVE  Applied(m)[s] = asked[s]
  BY <1>3, AppliedLeaves
<1> QED
  BY <1>2, <1>3

LEMMA TakeTold ==
    ASSUME CodecInv, Take
    PROVE  AllTold' /\ Known'
<1>0. Shape /\ Handed /\ Stream /\ Kept /\ Agrees /\ Known /\ AllTold
  BY DEF CodecInv, Stream
<1>1. Len(got) \in Nat /\ Len(sent) \in Nat
  BY <1>0, StreamNumbers
<1>2. UNCHANGED <<device, asked, told, sent>>
  BY DEF Take
<1>3. Stream' /\ Handed'
  BY <1>0, TakeStep DEF Stream
<1> DEFINE m == First(buf)
           g == Len(got) + 1
<1>4. got' = Append(got, m)
      /\ known' = IF m.op = Status THEN Applied(m) ELSE known
  BY DEF Take
<1> HIDE DEF m
<1>5. Len(got') = g /\ got'[g] = m /\ g \in 1..Len(sent)
  <2>1. got \in Seq(Messages)
    BY <1>0 DEF Shape
  <2>2. got' \in Seq(Messages)
    BY <1>3 DEF Stream, Shape
  <2>3. Len(got') = g /\ got'[g] = m
    BY <1>4, <2>1, AppendProperties
  <2>4. Len(got') <= Len(sent)
    BY <1>2, <1>3 DEF Handed
  <2> QED
    BY <1>1, <2>3, <2>4
<1>6. m = sent[g]
  <2>1. g \in 1..Len(got')
    BY <1>1, <1>5
  <2> QED
    BY <1>2, <1>3, <1>5, <2>1 DEF Handed
<1>7. Known'
  BY <1>0, <1>4, AppliedKnown DEF Known
<1>8. ASSUME NEW f \in told PROVE ToldOf(f)'
  <2>1. PICK i \in 1..Len(sent) :
          /\ sent[i] = StatusMessage(f)
          /\ \A j \in 1..Len(sent) :
               j > i /\ sent[j].op = Status /\ Told(sent[j], f) =>
                 sent[j] = StatusMessage(f)
          /\ i <= Len(got) =>
               \A s \in Settings : FieldOf(s) = f => known[s] = asked[s]
    BY <1>0, <1>8 DEF AllTold, ToldOf
  <2>2. StatusMessage(f)' = StatusMessage(f)
    BY <1>2 DEF StatusMessage, Payload
  <2>3. ASSUME i <= Len(got'), NEW s \in Settings, FieldOf(s) = f
        PROVE  known'[s] = asked'[s]
    <3>1. i <= Len(got) \/ i = g
      BY <1>1, <1>5, <2>3
    <3>2. CASE m.op # Status
      <4>1. i # g
        <5>1. StatusMessage(f).op = Status
          BY DEF StatusMessage
        <5> QED
          BY <1>6, <2>1, <3>2, <5>1
      <4>2. known[s] = asked[s]
        BY <2>1, <2>3, <3>1, <4>1
      <4> QED
        BY <1>2, <1>4, <3>2, <4>2
    <3>3. CASE m.op = Status
      <4>1. known'[s] = Applied(m)[s] /\ asked'[s] = asked[s]
        BY <1>2, <1>4, <3>3
      <4>2. CASE i = g
        <5>1. m = StatusMessage(FieldOf(s))
          BY <1>6, <2>1, <2>3, <4>2
        <5> QED
          BY <1>0, <4>1, <5>1, AppliedTells
      <4>3. CASE i <= Len(got)
        <5>1. g > i
          BY <1>1, <4>3
        <5>2. Told(m, FieldOf(s)) => m = StatusMessage(FieldOf(s))
          BY <1>5, <1>6, <2>1, <2>3, <3>3, <5>1
        <5>3. known[s] = asked[s]
          BY <2>1, <2>3, <4>3
        <5> QED
          BY <1>0, <4>1, <5>2, <5>3, AppliedTells
      <4> QED
        BY <3>1, <4>2, <4>3
    <3> QED
      BY <3>2, <3>3
  <2> QED
    BY <1>2, <2>1, <2>2, <2>3 DEF ToldOf, Told
<1>9. AllTold'
  BY <1>0, <1>2, <1>8 DEF AllTold
<1> QED
  BY <1>7, <1>9

LEMMA TellStep ==
    ASSUME CodecInv, NEW f \in Fields, NEW port \in Ports, Tell(f, port)
    PROVE  CodecInv'
<1>0. Stream /\ Shape /\ Handed /\ Kept /\ Agrees /\ Known /\ AllTold
  BY DEF CodecInv, Stream
<1> DEFINE m == StatusMessage(f)
<1>1. m \in Messages
  BY <1>0, StatusIsMessage
<1>2. Emit(m, port) /\ told' = told \cup {f} /\ port \in 0..15
  BY CodecAssumption DEF Tell
<1> HIDE DEF m
<1>3. UNCHANGED <<device, buf, known, asked, got>> /\ sent' = Append(sent, m)
  BY <1>2 DEF Emit
<1>4. Stream'
  BY <1>0, <1>1, <1>2, EmitStep
<1>5. Kept' /\ Agrees' /\ Known'
  BY <1>0, <1>3 DEF Kept, Agrees, Known
<1>6. ASSUME NEW h \in told, h # f PROVE ToldOf(h)'
  <2>1. ~Told(m, h)
    <3>1. h \in Fields
      BY <1>0 DEF AllTold
    <3> QED
      BY <1>6, <3>1, TellsOne, StatusTold DEF m
  <2> QED
    BY <1>0, <1>1, <1>3, <2>1, SentTold
<1>7. ToldOf(f)'
  <2>1. sent \in Seq(Messages) /\ Len(sent) \in Nat /\ Len(got) <= Len(sent)
        /\ Len(got) \in Nat
    BY <1>0, StreamNumbers DEF Shape
  <2>2. Len(sent') = Len(sent) + 1 /\ sent'[Len(sent) + 1] = m
    BY <1>1, <1>3, <2>1, AppendProperties
  <2>3. StatusMessage(f)' = m
    BY <1>3 DEF StatusMessage, Payload, m
  <2>4. /\ Len(sent) + 1 \in 1..Len(sent')
        /\ ~(Len(sent) + 1 <= Len(got'))
        /\ \A j \in 1..Len(sent') : ~(j > Len(sent) + 1)
    BY <1>3, <2>1, <2>2
  <2> QED
    BY <2>2, <2>3, <2>4 DEF ToldOf
<1>8. AllTold'
  BY <1>0, <1>2, <1>6, <1>7 DEF AllTold
<1> QED
  BY <1>4, <1>5, <1>8 DEF CodecInv

LEMMA TellOtherStep ==
    ASSUME CodecInv, NEW m \in Others, NEW port \in Ports, TellOther(m, port)
    PROVE  CodecInv'
<1>0. Stream /\ Kept /\ Agrees /\ Known /\ AllTold
  BY DEF CodecInv
<1>1. m \in Messages /\ port \in 0..15
  BY CodecAssumption
<1>2. Emit(m, port) /\ told' = told
  BY DEF TellOther
<1>3. UNCHANGED <<device, buf, known, asked, got>> /\ sent' = Append(sent, m)
  BY <1>2 DEF Emit
<1>4. Stream'
  BY <1>0, <1>1, <1>2, EmitStep
<1>5. Kept' /\ Agrees' /\ Known'
  BY <1>0, <1>3 DEF Kept, Agrees, Known
<1>6. ASSUME NEW f \in told PROVE ToldOf(f)'
  <2>1. f \in Fields
    BY <1>0 DEF AllTold
  <2>2. ASSUME m.op = Status, Told(m, f) PROVE FALSE
    <3>0. m.op # Error
      BY <2>2 DEF Status, Error
    <3>1. Len(m.payload) >= Least(f) /\ Len(m.payload) < Least(f)
      BY <2>1, <2>2, <3>0, InputsAssumption DEF Told
    <3>2. Len(m.payload) \in Nat /\ Least(f) \in Nat
      <4>1. Len(m.payload) \in 0..255
        BY <1>1, MessageParts
      <4> QED
        BY <4>1 DEF Least
    <3> QED
      BY <3>1, <3>2
  <2> QED
    BY <1>0, <1>1, <1>3, <2>2, SentTold
<1>7. AllTold'
  BY <1>0, <1>2, <1>6 DEF AllTold
<1> QED
  BY <1>4, <1>5, <1>7 DEF CodecInv

LEMMA CodecStep == CodecInv /\ [Next]_vars => CodecInv'
<1> SUFFICES ASSUME CodecInv, [Next]_vars PROVE CodecInv'
  OBVIOUS
<1>0. Stream /\ Kept /\ Agrees /\ Known /\ AllTold
  BY DEF CodecInv
<1>1. ASSUME NEW k \in Registers, Kept', Agrees',
             UNCHANGED <<wire, buf, known, sent, got, total, begins>>,
             \A s \in Settings : FieldOf(s) # FieldOf(k) => asked'[s] = asked[s],
             \A f \in Fields :
               f # FieldOf(k) => StatusMessage(f)' = StatusMessage(f),
             told' = told \ {FieldOf(k)}
      PROVE  CodecInv'
  <2>1. Stream'
    BY <1>0, <1>1 DEF Stream, Shape, Written, Handed, Held, Used
  <2>2. Known' /\ AllTold'
    BY <1>0, <1>1, StillTold DEF Known
  <2> QED
    BY <1>1, <2>1, <2>2 DEF CodecInv
<1>2. ASSUME NEW c \in Commands, Command(c.knob, c.value) PROVE CodecInv'
  <2>1. c.knob \in Registers /\ c.value \in Choices(c.knob)
    BY InputsAssumption
  <2>2. UNCHANGED <<wire, buf, known, sent, got, total, begins>>
        /\ told' = told \ {FieldOf(c.knob)}
    BY <1>2 DEF Command
  <2> QED
    BY <1>0, <1>1, <1>2, <2>1, <2>2, CommandStep
<1>3. ASSUME NEW t \in Touches, Touch(t.knob, t.byte) PROVE CodecInv'
  <2>1. t.knob \in Registers /\ t.byte \in Holds(t.knob)
    BY InputsAssumption
  <2>2. UNCHANGED <<wire, buf, known, sent, got, total, begins>>
        /\ told' = told \ {FieldOf(t.knob)}
    BY <1>3 DEF Touch
  <2> QED
    BY <1>0, <1>1, <1>3, <2>1, <2>2, TouchStep
<1>4. ASSUME NEW n \in 1..Len(wire), Feed(n) PROVE CodecInv'
  <2>1. UNCHANGED <<device, known, asked, told, sent, got>>
    BY <1>4 DEF Feed
  <2>2. Stream'
    BY <1>0, <1>4, FeedStep
  <2>3. AllTold'
    BY <1>0, <2>1, Untouched
  <2> QED
    BY <1>0, <2>1, <2>2, <2>3 DEF CodecInv, Kept, Agrees, Known
<1>5. ASSUME Take PROVE CodecInv'
  <2>1. UNCHANGED <<device, asked>>
    BY <1>5 DEF Take
  <2>2. Stream' /\ AllTold' /\ Known'
    BY <1>0, <1>5, TakeStep, TakeTold
  <2> QED
    BY <1>0, <2>1, <2>2 DEF CodecInv, Kept, Agrees
<1>6. ASSUME Reconnect PROVE CodecInv'
  <2>1. /\ wire' = <<>> /\ buf' = <<>> /\ told' = {} /\ sent' = <<>>
        /\ got' = <<>> /\ total' = <<>> /\ begins' = <<0>>
        /\ UNCHANGED <<device, known, asked>>
    BY <1>6 DEF Reconnect
  <2>2. Stream'
    <3>1. NoBytes' => Stream'
      BY StreamStarts, PTL
    <3> QED
      BY <2>1, <3>1 DEF NoBytes
  <2>3. AllTold'
    BY <2>1 DEF AllTold
  <2> QED
    BY <1>0, <2>1, <2>2, <2>3 DEF CodecInv, Kept, Agrees, Known
<1>7. CASE UNCHANGED vars
  <2>1. UNCHANGED <<device, wire, buf, known, asked, told, sent, got, total, begins>>
    BY <1>7 DEF vars
  <2>2. Stream'
    BY <1>0, <2>1 DEF Stream, Shape, Written, Handed, Held, Used
  <2>3. AllTold'
    BY <1>0, <2>1, Untouched
  <2> QED
    BY <1>0, <2>1, <2>2, <2>3 DEF CodecInv, Kept, Agrees, Known
<1> QED
  BY <1>2, <1>3, <1>4, <1>5, <1>6, <1>7, TellStep, TellOtherStep DEF Next

LEMMA CodecInvariant == Spec => []CodecInv
BY Start, CodecStep, PTL DEF Spec

\* However a stream is cut into pieces, whatever messages it carries and at
\* whatever point the connection is dropped, the parser hands out the messages
\* of this connection whole and in order, and all of them once all bytes are in.
THEOREM FramingIsSound == Spec => []MessagesAsSent
<1>1. CodecInv => MessagesAsSent
  <2> SUFFICES ASSUME CodecInv PROVE MessagesAsSent
    OBVIOUS
  <2>0. Stream /\ Shape /\ Handed
    BY DEF CodecInv, Stream
  <2>1. /\ Len(got) \in Nat /\ Len(sent) \in Nat /\ Len(got) <= Len(sent)
        /\ Len(buf) \in Nat /\ Len(wire) \in Nat
    BY <2>0, StreamNumbers
  <2>2. \A i \in DOMAIN got : got[i] = sent[i]
    <3>1. DOMAIN got = 1..Len(got)
      BY <2>0, LenProperties DEF Shape
    <3> QED
      BY <2>0, <3>1 DEF Handed
  <2>3. ASSUME wire = <<>>, ~Complete(buf) PROVE buf = <<>> /\ Len(got) = Len(sent)
    <3>1. Len(wire) = 0
      BY <2>3
    <3>2. ASSUME Len(got) < Len(sent) PROVE FALSE
      <4> DEFINE m == sent[Len(got) + 1]
      <4>1. /\ m \in Messages
            /\ Len(buf) >= 4 => buf[4] = Len(m.payload)
            /\ Len(buf) + Len(wire) >= Size(m)
        BY <2>0, <3>2, BufferHolds
      <4> HIDE DEF m
      <4>2. Len(m.payload) \in 0..255 /\ Size(m) = 4 + Len(m.payload)
        BY <4>1, MessageParts DEF Size
      <4>3. Len(buf) >= 4 /\ Len(buf) >= 4 + Len(m.payload)
        BY <2>1, <3>1, <4>1, <4>2
      <4>4. Complete(buf)
        BY <4>1, <4>3 DEF Complete
      <4> QED
        BY <2>3, <4>4
    <3>3. Len(got) = Len(sent) /\ Len(buf) = 0
      BY <2>0, <3>2, NothingOwed
    <3>4. buf = <<>>
      BY <2>0, <3>3, EmptySeq DEF Shape
    <3> QED
      BY <3>3, <3>4
  <2> QED
    BY <2>1, <2>2, <2>3 DEF MessagesAsSent
<1> QED
  BY <1>1, CodecInvariant, PTL

\* What clients set, at either end of a range or between, is what is published
\* when the headset has told it, and the language survives the voice prompts.
THEOREM SettingsSurvive == Spec => []PublishedAsAsked
<1>1. CodecInv => PublishedAsAsked
  <2> SUFFICES ASSUME CodecInv, wire = <<>>, buf = <<>>,
                      NEW s \in Settings, FieldOf(s) \in told
               PROVE  known[s] = asked[s]
    BY DEF PublishedAsAsked
  <2>0. Stream /\ Shape /\ Handed /\ AllTold
    BY DEF CodecInv, Stream
  <2>1. /\ Len(got) \in Nat /\ Len(sent) \in Nat /\ Len(got) <= Len(sent)
    BY <2>0, StreamNumbers
  <2>2. Len(got) = Len(sent)
    <3>1. ASSUME Len(got) < Len(sent) PROVE FALSE
      <4> DEFINE m == sent[Len(got) + 1]
      <4>1. m \in Messages /\ Len(buf) + Len(wire) >= Size(m)
        BY <2>0, <3>1, BufferHolds
      <4> HIDE DEF m
      <4>2. Len(m.payload) \in 0..255 /\ Size(m) = 4 + Len(m.payload)
        BY <4>1, MessageParts DEF Size
      <4>3. Len(buf) = 0 /\ Len(wire) = 0
        OBVIOUS
      <4> QED
        BY <4>1, <4>2, <4>3
    <3> QED
      BY <2>0, <3>1, NothingOwed
  <2>3. PICK i \in 1..Len(sent) :
          i <= Len(got) =>
            \A r \in Settings : FieldOf(r) = FieldOf(s) => known[r] = asked[r]
    BY <2>0 DEF AllTold, ToldOf
  <2>4. i <= Len(got)
    BY <2>1, <2>2
  <2> QED
    BY <2>3, <2>4
<1> QED
  BY <1>1, CodecInvariant, PTL
=============================================================================
