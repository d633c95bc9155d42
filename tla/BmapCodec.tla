------------------------------ MODULE BmapCodec ------------------------------
(***************************************************************************)
(* BmapProtocol.hpp: the bytes of BMAP, from the command of a client to    *)
(* what is published of the headset's answer.                              *)
(*                                                                         *)
(* The headset is external: it applies each request at once and sends the  *)
(* status of the field, now or later, and messages of its own.  RFCOMM     *)
(* hands its bytes over in pieces of any length, several messages in one   *)
(* or one in several; a message is taken from the buffer when whoever      *)
(* waits asks for one.                                                     *)
(***************************************************************************)
EXTENDS Integers, Sequences, FiniteSets

CONSTANTS
    Commands,   \* [knob, value] records: what clients ask for
    Touches,    \* [knob, byte] records: what is changed at the headset
    Others,     \* other messages it may send, which tell no setting
    Ports,      \* what it may put above the operator in the third byte
    Unset,      \* a setting not known
    MaxSent,    \* bound on the messages of a connection
    MaxAsked    \* bound on commands and changes

Byte == 0..255
Messages == {m \in [fblock : Byte, func : Byte, op : 0..15,
                    payload : Seq(Byte)] : Len(m.payload) <= 255}

ASSUME CodecAssumption ==
    /\ Others \subseteq Messages /\ Ports \subseteq 0..15
    /\ MaxSent \in Nat /\ MaxAsked \in Nat

SetGet == 2
Status == 3
Error == 4

Fields == {"battery", "cnc", "eq", "sidetone", "prompts", "multipoint"}
Fblock(f) == IF f = "battery" THEN 2 ELSE 1
Func(f) ==
    CASE f = "battery" -> 2 [] f = "prompts" -> 3 [] f = "cnc" -> 5
      [] f = "eq" -> 7 [] f = "multipoint" -> 10 [] f = "sidetone" -> 11

Bands == <<"bass", "mid", "treble">>        \* by band id, less one
Registers == {"battery", "cnc", "bass", "mid", "treble", "sidetone", "prompts",
              "multipoint"}
Settings == Registers \cup {"language", "cncMax", "eqMin", "eqMax"}
RegisterOf(k) ==
    CASE k \in {"eqMin", "eqMax"} -> "bass"
      [] k = "language" -> "prompts"
      [] k = "cncMax"   -> "cnc"
      [] OTHER          -> k
FieldOf(k) == IF RegisterOf(k) \in {"bass", "mid", "treble"} THEN "eq"
              ELSE RegisterOf(k)

\* what the commands of IpcServer let through
Choices(k) ==
    CASE k = "cnc" -> 0..10
      [] k \in {"bass", "mid", "treble"} -> -10..10
      [] k = "sidetone" -> {"off", "high", "medium", "low"}
      [] k \in {"prompts", "multipoint"} -> BOOLEAN
      [] OTHER -> {}

\* what the byte of a register means for a setting
Means(k, b) ==
    CASE k = "cnc"        -> 10 - b     \* its strength, the axis is inverted
      [] k \in {"bass", "mid", "treble"} -> IF b < 128 THEN b ELSE b - 256
      [] k = "sidetone"   -> <<"off", "high", "medium", "low">>[b + 1]
      [] k = "prompts"    -> b % 64 >= 32
      [] k = "language"   -> b % 32
      [] k = "multipoint" -> b % 2 = 1
      [] k = "battery"    -> b
      [] k = "eqMin"      -> -10
      [] OTHER            -> 10

\* what a register may hold, and what a payload must have to be applied
Holds(k) == CASE k = "cnc" -> 0..10 [] k = "sidetone" -> 0..3 [] OTHER -> Byte
Least(f) == CASE f = "cnc" -> 3 [] f = "eq" -> 4 [] f = "sidetone" -> 2
              [] OTHER -> 1

Addressed(m, f) == m.fblock = Fblock(f) /\ m.func = Func(f)

ASSUME InputsAssumption ==
    /\ \A c \in Commands : c.knob \in Registers /\ c.value \in Choices(c.knob)
    /\ \A t \in Touches : t.knob \in Registers /\ t.byte \in Holds(t.knob)
    /\ \A m \in Others : m.op # Error =>
         \A f \in Fields : Addressed(m, f) => Len(m.payload) < Least(f)

VARIABLES
    device,     \* the headset's registers, a byte each
    wire,       \* bytes on their way
    buf,        \* StreamParser::buf_
    known,      \* the settings of BoseState
    asked,      \* history: what each setting was set to
    told,       \* history: fields whose status was sent since they changed
    sent, got,  \* history: the messages of this connection
    total,      \* history: all their bytes,
    begins,     \* and where in them each one begins
    inputs      \* bound

vars == <<device, wire, buf, known, asked, told, sent, got, total, begins,
          inputs>>

-----------------------------------------------------------------------------
(* Packets *)

\* bmap_packet; the headset may use the rest of the third byte
Packet(m, port) ==
    <<m.fblock, m.func, 16 * port + m.op, Len(m.payload)>> \o m.payload

Complete(b) == Len(b) >= 4 /\ Len(b) >= 4 + b[4]

First(b) == [fblock  |-> b[1], func |-> b[2], op |-> b[3] % 16,
             payload |-> SubSeq(b, 5, 4 + b[4])]

Rest(b) == SubSeq(b, 5 + b[4], Len(b))

-----------------------------------------------------------------------------
(* Payloads *)

Signed(b)   == IF b < 128 THEN b ELSE b - 256      \* int8_t
Unsigned(v) == v % 256                             \* uint8_t

SidetoneName == <<"off", "high", "medium", "low">>
SidetoneId(name) == CHOOSE i \in 0..3 : SidetoneName[i + 1] = name

\* parse_cnc: the axis of the wire is inverted
CncMax(p) == Unsigned(p[1] - 1)
CncLevel(p) == IF p[2] > CncMax(p) THEN 0 ELSE CncMax(p) - p[2]

\* parse_eq, and the loop over its bands: the last of each id counts
Groups(p) == 1..(Len(p) \div 4)
GroupsOf(p, id) == {i \in Groups(p) : p[4 * i] = id}
Band(p, id, offset, otherwise) ==
    IF GroupsOf(p, id) = {} THEN otherwise
    ELSE LET last == CHOOSE i \in GroupsOf(p, id) :
                        \A j \in GroupsOf(p, id) : j <= i
         IN Signed(p[4 * last - 4 + offset])

SidetoneOf(p) == IF p[2] \in 0..3 THEN SidetoneName[p[2] + 1] ELSE "off"

\* mutant: the level is sent as it is
BuildUninverted(k, v) ==
    CASE k = "cnc"        -> <<v, 1>>
      [] k = "bass"       -> <<Unsigned(v), 0>>
      [] k = "mid"        -> <<Unsigned(v), 1>>
      [] k = "treble"     -> <<Unsigned(v), 2>>
      [] k = "sidetone"   -> <<1, SidetoneId(v)>>
      [] k = "prompts"    -> <<(IF v THEN 32 ELSE 0) + (device.prompts % 32)>>
      [] k = "multipoint" -> <<IF v THEN 1 ELSE 0>>

\* the builders; voice prompts go with the language that was just read
Build(k, v) ==
    CASE k = "cnc"        -> <<IF v > 10 THEN 0 ELSE 10 - v, 1>>
      [] k = "bass"       -> <<Unsigned(v), 0>>
      [] k = "mid"        -> <<Unsigned(v), 1>>
      [] k = "treble"     -> <<Unsigned(v), 2>>
      [] k = "sidetone"   -> <<1, SidetoneId(v)>>
      [] k = "prompts"    -> <<(IF v THEN 32 ELSE 0) + (device.prompts % 32)>>
      [] k = "multipoint" -> <<IF v THEN 1 ELSE 0>>

\* applyPayload of a field that has this address
Told(m, f) == Addressed(m, f) /\ Len(m.payload) >= Least(f)
Applied(m) ==
    LET p == m.payload
    IN CASE Told(m, "battery") ->
              [known EXCEPT !.battery = p[1]]
         [] Told(m, "cnc") ->
              [known EXCEPT !.cnc = CncLevel(p), !.cncMax = CncMax(p)]
         [] Told(m, "eq") ->
              [known EXCEPT !.bass = Band(p, 0, 3, 0),
                            !.mid = Band(p, 1, 3, 0),
                            !.treble = Band(p, 2, 3, 0),
                            !.eqMin = Band(p, 0, 1, -10),
                            !.eqMax = Band(p, 0, 2, 10)]
         [] Told(m, "sidetone") ->
              [known EXCEPT !.sidetone = SidetoneOf(p)]
         [] Told(m, "prompts") ->
              [known EXCEPT !.prompts = (p[1] \div 32) % 2 = 1,
                            !.language = p[1] % 32]
         [] Told(m, "multipoint") ->
              [known EXCEPT !.multipoint = p[1] % 2 = 1]
         [] OTHER -> known

-----------------------------------------------------------------------------
(* The headset *)

\* what it tells of a field
Payload(f) ==
    CASE f = "battery"    -> <<device.battery>>
      [] f = "cnc"        -> <<11, device.cnc, 1>>
      [] f = "eq"         -> <<246, 10, device.bass, 0, 246, 10, device.mid, 1,
                               246, 10, device.treble, 2>>
      [] f = "sidetone"   -> <<1, device.sidetone, 15>>
      [] f = "prompts"    -> <<device.prompts, 0, 1, 129, 94>>
      [] f = "multipoint" -> <<device.multipoint>>

StatusMessage(f) ==
    [fblock |-> Fblock(f), func |-> Func(f), op |-> Status,
     payload |-> Payload(f)]

\* how it takes the payload p of a request: bit 7 of the prompts and bit 1 of
\* multipoint are its own
Taken(k, p) ==
    CASE k = "sidetone"   -> p[2]
      [] k = "prompts"    -> 64 * (device.prompts \div 64) + (p[1] % 64)
      [] k = "multipoint" -> 2 + (p[1] % 2)
      [] OTHER            -> p[1]

\* the register a request is about
Register(m) ==
    CHOOSE k \in Registers :
        /\ Addressed(m, FieldOf(k))
        /\ FieldOf(k) = "eq" => Bands[m.payload[2] + 1] = k

-----------------------------------------------------------------------------
NoTraffic ==
    /\ wire = <<>> /\ buf = <<>> /\ told = {}
    /\ sent = <<>> /\ got = <<>> /\ total = <<>> /\ begins = <<0>>

Init ==
    /\ device = [battery |-> 88, cnc |-> 0, bass |-> 0, mid |-> 246,
                 treble |-> 10, sidetone |-> 2, prompts |-> 130,
                 multipoint |-> 3]
    /\ known = [k \in Settings |-> Unset]
    /\ asked = [battery |-> 88, cnc |-> 10, bass |-> 0, mid |-> -10,
                treble |-> 10, sidetone |-> "medium", prompts |-> FALSE,
                language |-> 2, multipoint |-> TRUE,
                cncMax |-> 10, eqMin |-> -10, eqMax |-> 10]
    /\ NoTraffic
    /\ inputs = 0

Request(k, v) ==
    [fblock |-> Fblock(FieldOf(k)), func |-> Func(FieldOf(k)),
     op |-> SetGet, payload |-> Build(k, v)]

\* a client's setting, sent as a request and applied by the headset
Command(k, v) ==
    LET m == First(Packet(Request(k, v), 0))
    IN /\ inputs < MaxAsked /\ inputs' = inputs + 1
       /\ device' = [device EXCEPT ![Register(m)] = Taken(Register(m), m.payload)]
       /\ asked' = [asked EXCEPT ![k] = v]
       /\ told' = told \ {FieldOf(k)}
       /\ UNCHANGED <<wire, buf, known, sent, got, total, begins>>

\* a button, another app
Touch(k, b) ==
    /\ inputs < MaxAsked /\ inputs' = inputs + 1
    /\ device' = [device EXCEPT ![k] = b]
    /\ asked' = [s \in Settings |-> IF RegisterOf(s) = k THEN Means(s, b)
                                   ELSE asked[s]]
    /\ told' = told \ {FieldOf(k)}
    /\ UNCHANGED <<wire, buf, known, sent, got, total, begins>>

Emit(m, port) ==
    /\ Len(sent) < MaxSent
    /\ sent' = Append(sent, m)
    /\ wire' = wire \o Packet(m, port)
    /\ total' = total \o Packet(m, port)
    /\ begins' = Append(begins, Len(total'))
    /\ UNCHANGED <<device, buf, known, asked, got, inputs>>

\* the answer to a GET or SETGET, or a notification; not the answer to the
\* first GET of ipcCb.setPrompts, which is read and not applied
Tell(f, port) == Emit(StatusMessage(f), port) /\ told' = told \cup {f}

TellOther(m, port) == Emit(m, port) /\ UNCHANGED told

-----------------------------------------------------------------------------
(* The daemon *)

\* one recv and StreamParser::feed
Feed(n) ==
    /\ n \in 1..Len(wire)
    /\ buf' = buf \o SubSeq(wire, 1, n)
    /\ wire' = SubSeq(wire, n + 1, Len(wire))
    /\ UNCHANGED <<device, known, asked, told, sent, got, total, begins,
                   inputs>>

\* StreamParser::next, and the payload of a status is applied, be it awaited
\* or not; of an error nothing is
Take ==
    /\ Complete(buf)
    /\ got' = Append(got, First(buf))
    /\ buf' = Rest(buf)
    /\ known' = IF First(buf).op = Status THEN Applied(First(buf)) ELSE known
    /\ UNCHANGED <<device, wire, asked, told, sent, total, begins, inputs>>

\* mutant: the parser is not reset
ReconnectKeepsBytes ==
    /\ sent # <<>>
    /\ wire' = <<>> /\ told' = {}
    /\ sent' = <<>> /\ got' = <<>> /\ total' = <<>> /\ begins' = <<0>>
    /\ UNCHANGED <<device, buf, known, asked, inputs>>

\* the connection ends and another begins, BmapLink::reset
Reconnect ==
    /\ sent # <<>>
    /\ wire' = <<>> /\ buf' = <<>> /\ told' = {}
    /\ sent' = <<>> /\ got' = <<>> /\ total' = <<>> /\ begins' = <<0>>
    /\ UNCHANGED <<device, known, asked, inputs>>

Next ==
    \/ \E c \in Commands : Command(c.knob, c.value)
    \/ \E t \in Touches : Touch(t.knob, t.byte)
    \/ \E f \in Fields, port \in Ports : Tell(f, port)
    \/ \E m \in Others, port \in Ports : TellOther(m, port)
    \/ \E n \in 1..Len(wire) : Feed(n)
    \/ Take
    \/ Reconnect

Spec == Init /\ [][Next]_vars

-----------------------------------------------------------------------------
(* Properties *)

(* However the stream is cut, the parser hands out the messages the headset*)
(* sent on this connection, whole and in order, and when all bytes are in  *)
(* and none of them makes a message, it has handed out all of them.        *)
MessagesAsSent ==
    /\ Len(got) <= Len(sent)
    /\ \A i \in DOMAIN got : got[i] = sent[i]
    /\ wire = <<>> /\ ~Complete(buf) => buf = <<>> /\ Len(got) = Len(sent)

(* What a client asked for is what is published once the headset has told  *)
(* it: inverted levels, signed bands, names and bits survive the way there *)
(* and back, and the language the change of the prompts next to it.        *)
PublishedAsAsked ==
    wire = <<>> /\ buf = <<>> =>
        \A k \in Settings :
            FieldOf(k) \in told => known[k] = asked[k]
=============================================================================
