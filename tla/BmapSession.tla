---------------------------- MODULE BmapSession ----------------------------
(***************************************************************************)
(* What bose-700-daemon and the headset say to each other while the link   *)
(* is up: BmapLink's blocking request/answer exchange, the handlers of     *)
(* main.cpp that are built from it (the sync of onConnected, the commands  *)
(* of the IPC clients, the 60 s refresh), the stream parser, and the       *)
(* settings StateEngine publishes.                                         *)
(*                                                                         *)
(* BMAP has no sequence numbers: an answer is known by its address alone.  *)
(* The headset may answer after the daemon has given up, report a change   *)
(* of its own, refuse a write, take it without a word, or vanish.          *)
(*                                                                         *)
(* A handler is a list of steps (todo), each a GET or a SETGET of one      *)
(* field; the thread blocks between sending a request and its answer, and  *)
(* what the daemon does between two blocking points is one action.  Bytes  *)
(* are abstract: a message is read whole, or it is cut and its first part  *)
(* waits in the parser (partial).  How the link is made is LinkManager's   *)
(* subject; here Connect just happens.                                     *)
(***************************************************************************)
EXTENDS Naturals, Sequences, FiniteSetsExt

CONSTANTS
    Fields,     \* what one BMAP address holds: "eq", "cnc", ...
    Cells,      \* the values in them: the three bands of "eq", ...
    FieldOf,    \* the field of each cell
    Asked,      \* the cells a command gives a value for
    Values,
    Starts,     \* the values the headset may have at first
    NoValue,    \* "unknown" in StateEngine
    Silent,     \* fields whose SETGET is not answered (CNC, voice prompts)
    Peeked,     \* fields written by read-modify-write (voice prompts)
    Polled,     \* the order of the refresh; these drift without notice
    SyncOrder,  \* the order of the reads in onConnected
    PutOrder,   \* the cells each SETGET of a field carries, in order
    Cuts,       \* TRUE in it: a read may end inside a message
    MaxWrites,  \* bound on the commands that write
    MaxOdd      \* bound on late answers, refusals, changes and lost links

InOrder(s) == {s[i] : i \in DOMAIN s}

ASSUME SessionAssumption ==
    /\ FieldOf \in [Cells -> Fields]
    /\ Asked \subseteq Cells
    /\ Starts \subseteq Values /\ NoValue \notin Values
    /\ Silent \subseteq Fields /\ Peeked \subseteq Fields
    /\ Polled \in Seq(Fields) /\ SyncOrder \in Seq(Fields)
    /\ PutOrder \in [Fields -> Seq(SUBSET Cells)]
    /\ \A f \in Fields : \A i \in DOMAIN PutOrder[f] : \A c \in PutOrder[f][i] :
          FieldOf[c] = f /\ (f \in Peeked \/ c \in Asked)
    /\ Cuts \subseteq BOOLEAN
    /\ MaxWrites \in Nat /\ MaxOdd \in Nat

VARIABLES
    \* the link
    conn,       \* the manager is CONNECTED
    alive,      \* the socket still works
    toDev,      \* requests on their way to the headset
    fromDev,    \* messages on their way from it, or in the kernel's buffer
    device,     \* the headset's settings
    \* BmapLink's StreamParser
    inbox,      \* whole messages in it
    partial,    \* "this", "old": a first part, of this connection or another
    \* StateEngine
    known,
    \* the running handler
    mode,       \* "idle", about to "send", "wait"ing for an answer, "done"
    todo,       \* its steps, the current one first
    kind,
    want,       \* the values a command asks for
    base,       \* the payload read before a write
    failed,
    \* history, read by the properties only
    heard,      \* fields a message of this connection told
    sure,       \* fields whose last read succeeded, and nothing since leaves in doubt
    clean,      \* the command's answers were its own, nothing else was touched
    had,        \* the headset has had what the command wants
    \* bounds
    writes,
    odd

linkVars  == <<conn, alive>>
wireVars  == <<toDev, fromDev>>
parseVars == <<inbox, partial>>
taskVars  == <<kind, want, base>>
boundVars == <<writes, odd>>
vars == <<linkVars, wireVars, device, parseVars, known, mode, todo, taskVars,
          failed, heard, sure, clean, had, boundVars>>

CellsOf(f) == {c \in Cells : FieldOf[c] = f}
Payloads == UNION {[S -> Values] : S \in SUBSET Cells}
Nothing == [c \in {} |-> NoValue]
Steps == [op : {"get", "peek", "put"}, field : Fields, cells : SUBSET Cells]
Requests == [op : {"get", "peek", "put"}, field : Fields, vals : Payloads,
             mine : BOOLEAN]
Statuses(f) == [kind : {"status"}, field : {f}, vals : [CellsOf(f) -> Values],
                mine : BOOLEAN]
Errors == [kind : {"error"}, field : Fields, vals : {Nothing}, mine : BOOLEAN]
Messages == Errors \cup UNION {Statuses(f) : f \in Fields}

TypeOK ==
    /\ conn \in BOOLEAN /\ alive \in BOOLEAN
    /\ toDev \in Seq(Requests) /\ fromDev \in Seq(Messages)
    /\ device \in [Cells -> Values]
    /\ inbox \in Seq(Messages) /\ partial \in {"none", "this", "old"}
    /\ known \in [Cells -> Values \cup {NoValue}]
    /\ mode \in {"idle", "send", "wait", "done"}
    /\ todo \in Seq(Steps) /\ (mode \in {"send", "wait"} <=> todo # <<>>)
    /\ kind \in {"none", "sync", "refresh", "write"} /\ (kind = "none" <=> mode = "idle")
    /\ want \in Payloads /\ base \in Payloads /\ failed \in BOOLEAN
    /\ heard \subseteq Fields /\ sure \subseteq Fields
    /\ clean \in BOOLEAN /\ had \in BOOLEAN
    /\ writes \in 0..MaxWrites /\ odd \in 0..MaxOdd

Init ==
    /\ conn = FALSE /\ alive = FALSE
    /\ toDev = <<>> /\ fromDev = <<>>
    /\ device \in [Cells -> Starts]
    /\ inbox = <<>> /\ partial = "none"
    /\ known = [c \in Cells |-> NoValue]
    /\ mode = "idle" /\ todo = <<>>
    /\ kind = "none" /\ want = Nothing /\ base = Nothing /\ failed = FALSE
    /\ heard = {} /\ sure = {} /\ clean = TRUE /\ had = FALSE
    /\ writes = 0 /\ odd = 0

----------------------------------------------------------------------------
(* What the handlers are made of.                                          *)

Step(op, f, cells) == [op |-> op, field |-> f, cells |-> cells]

\* One refreshField after the other.
Reads(fs) == [i \in DOMAIN fs |-> Step("get", fs[i], {})]

\* A command: the read of read-modify-write, one SETGET for each part of the
\* field, and the read-back.
WriteSteps(f) ==
    (IF f \in Peeked THEN <<Step("peek", f, {})>> ELSE <<>>)
        \o [i \in DOMAIN PutOrder[f] |-> Step("put", f, PutOrder[f][i])]
        \o <<Step("get", f, {})>>

\* applyPayload of each status among the messages ms, in their order.
Applied(k, ms) ==
    [c \in Cells |->
        LET told == {i \in DOMAIN ms : ms[i].kind = "status" /\ c \in DOMAIN ms[i].vals}
        IN IF told = {} THEN k[c] ELSE ms[Max(told)].vals[c]]

Learn(ms) ==
    /\ known' = Applied(known, ms)
    /\ heard' = heard \cup {ms[i].field : i \in {j \in DOMAIN ms : ms[j].kind = "status"}}

Disturb == odd < MaxOdd /\ odd' = odd + 1

\* History: a request makes everything under way an answer to something else.
Disown(q) == [i \in DOMAIN q |-> [q[i] EXCEPT !.mine = FALSE]]

\* The handler goes on with its next step, or returns.
\* Mutation: the end of the list is not noticed.
GoOnBlindly(steps) == todo' = steps /\ mode' = "send"

GoOn(steps) ==
    /\ todo' = steps
    /\ mode' = IF steps = <<>> THEN "done" ELSE "send"

\* A step that fails: reads of a sync go on with the next field, a command
\* gives up, but after a band of the equalizer it reads the field once more.
StepFails ==
    /\ failed' = TRUE
    /\ LET s == Head(todo) IN
       GoOn(IF kind # "write" THEN Tail(todo)
            ELSE IF s.op = "put" /\ Len(PutOrder[s.field]) > 1
            THEN <<Step("get", s.field, {})>>
            ELSE <<>>)

\* onDisconnected, and the socket is closed.
Drop ==
    /\ conn' = FALSE /\ alive' = FALSE
    /\ toDev' = <<>> /\ fromDev' = <<>>
    /\ inbox' = <<>> /\ partial' = "none"

----------------------------------------------------------------------------
(* The event loop starts a handler.                                        *)

Idle == mode = "idle" /\ conn

Begin(k, steps) ==
    /\ kind' = k
    /\ GoOn(steps)

\* Mutation: the parser is not reset for the new connection.
ConnectKeepsBytes ==
    /\ mode = "idle" /\ ~conn
    /\ conn' = TRUE /\ alive' = TRUE
    /\ heard' = {} /\ sure' = {}
    /\ Begin("sync", Reads(SyncOrder))
    /\ UNCHANGED <<wireVars, parseVars, device, known, want, base, failed, clean,
                   had, boundVars>>

\* onConnected: a new socket, a parser without leftovers, then the sync.
Connect ==
    /\ mode = "idle" /\ ~conn
    /\ conn' = TRUE /\ alive' = TRUE
    /\ inbox' = <<>> /\ partial' = "none"
    /\ heard' = {} /\ sure' = {}
    /\ Begin("sync", Reads(SyncOrder))
    /\ UNCHANGED <<wireVars, device, known, want, base, failed, clean, had,
                   boundVars>>

Refresh ==
    /\ Idle
    /\ Begin("refresh", Reads(Polled))
    /\ UNCHANGED <<linkVars, wireVars, device, parseVars, known, want, base,
                   failed, heard, sure, clean, had, boundVars>>

\* setCnc, setEq, setSidetone, setPrompts, setMultipoint.
Write(f, v) ==
    /\ Idle
    /\ writes < MaxWrites /\ writes' = writes + 1
    /\ want' = v
    /\ had' = \A c \in DOMAIN v : device[c] = v[c]
    /\ Begin("write", WriteSteps(f))
    /\ UNCHANGED <<linkVars, wireVars, device, parseVars, known, base, failed,
                   heard, sure, clean, odd>>

WriteAny ==
    \E f \in {g \in Fields : PutOrder[g] # <<>>} :
        \E v \in [CellsOf(f) \cap Asked -> Values] : Write(f, v)

\* The handler returns to the loop.
ConfirmedUnread == ~failed    \* mutation: the read-back is not compared
Confirmed == ~failed /\ \A c \in DOMAIN want : known[c] = want[c]

Finish ==
    /\ mode = "done"
    /\ mode' = "idle"
    /\ kind' = "none" /\ want' = Nothing /\ base' = Nothing /\ failed' = FALSE
    /\ clean' = TRUE /\ had' = FALSE
    /\ UNCHANGED <<linkVars, wireVars, device, parseVars, known, todo, heard,
                   sure, boundVars>>

----------------------------------------------------------------------------
(* BmapLink::transact and waitForResponse.                                 *)

\* What a SETGET carries: the values asked for, the others as they were read.
PutValsBlank(s) ==         \* mutation: the payload that was read is not used
    [c \in s.cells |-> IF c \in DOMAIN want THEN want[c] ELSE CHOOSE v \in Starts : TRUE]
PutVals(s) == [c \in s.cells |-> IF c \in DOMAIN want THEN want[c] ELSE base[c]]

\* Whole messages in the parser are handed out first, then the request goes.
\* Mutation: they are thrown away.
FlushDiscards == inbox' = <<>> /\ UNCHANGED <<known, heard>>
Flush == inbox' = <<>> /\ Learn(inbox)

\* History: a SETGET that nothing answers, and a read whose answer is not applied.
LeavesDoubt(s) == s.op = "peek" \/ (s.op = "put" /\ s.field \in Silent)

Send ==
    /\ mode = "send" /\ alive
    /\ Flush
    /\ LET s == Head(todo) IN
       /\ toDev' = Append(Disown(toDev), [op |-> s.op, field |-> s.field,
                                          vals |-> PutVals(s), mine |-> TRUE])
       /\ sure' = IF LeavesDoubt(s) THEN sure \ {s.field} ELSE sure
    /\ fromDev' = Disown(fromDev)
    /\ mode' = "wait"
    /\ UNCHANGED <<linkVars, device, partial, todo, taskVars, failed, clean, had,
                   boundVars>>

\* "send timeout": the socket takes nothing, the link stays.
SendStalls ==
    /\ mode = "send" /\ alive
    /\ Disturb
    /\ Flush
    /\ StepFails
    /\ UNCHANGED <<linkVars, wireVars, device, partial, taskVars, sure, clean,
                   had, writes>>

\* A read brings n whole messages and perhaps the first part of the next.
Arrives(n, cut) ==
    /\ n \in 0..Len(fromDev)
    /\ cut => n < Len(fromDev)
    /\ n > 0 \/ (cut /\ partial = "none")
    /\ fromDev' = SubSeq(fromDev, n + 1, Len(fromDev))
    /\ partial' = IF cut THEN "this" ELSE "none"

\* The messages the parser then holds, and those that pass for the answer.
Buffered(n) == inbox \o SubSeq(fromDev, 1, n)
Answers(ms) == {i \in DOMAIN ms : ms[i].field = Head(todo).field}

\* Nothing of it is the answer: it goes to the unsolicited handler.
\* Mutation: it goes nowhere.
RecvOthersDrops ==
    /\ mode = "wait" /\ alive
    /\ \E n \in 0..Len(fromDev), cut \in Cuts :
          Arrives(n, cut) /\ Answers(Buffered(n)) = {}
    /\ inbox' = <<>>
    /\ UNCHANGED <<linkVars, toDev, device, known, heard, mode, todo, taskVars,
                   failed, sure, clean, had, boundVars>>

RecvOthers ==
    /\ mode = "wait" /\ alive
    /\ \E n \in 0..Len(fromDev), cut \in Cuts :
          /\ Arrives(n, cut)
          /\ Answers(Buffered(n)) = {}
          /\ Learn(Buffered(n))
    /\ inbox' = <<>>
    /\ UNCHANGED <<linkVars, toDev, device, mode, todo, taskVars, failed, sure,
                   clean, had, boundVars>>

\* The first message from the requested address is the answer; what follows it
\* stays in the parser.
RecvAnswer(n, cut) ==
    LET ms == Buffered(n)
        j  == Min(Answers(ms))
        s  == Head(todo)
    IN
    /\ Arrives(n, cut)
    /\ Answers(ms) # {}
    /\ inbox' = SubSeq(ms, j + 1, Len(ms))
    /\ Learn(SubSeq(ms, 1, IF s.op = "peek" THEN j - 1 ELSE j))
    /\ IF ms[j].kind = "error"
       THEN StepFails /\ UNCHANGED <<base, sure>>
       ELSE /\ GoOn(Tail(todo))
            /\ base' = IF s.op = "peek" THEN ms[j].vals ELSE base
            /\ sure' = IF s.op = "get" /\ ms[j].mine THEN sure \cup {s.field} ELSE sure
            /\ UNCHANGED failed
    /\ clean' = (clean /\ ms[j].mine)

RecvOwn ==
    /\ mode = "wait" /\ alive
    /\ \E n \in 0..Len(fromDev), cut \in Cuts : RecvAnswer(n, cut)
    /\ UNCHANGED <<linkVars, toDev, device, kind, want, had, boundVars>>

\* No answer in time.  With nothing under way this is a SETGET the headset
\* never answers; otherwise the answer is late.
InTime == IF toDev = <<>> /\ fromDev = <<>> THEN UNCHANGED odd ELSE Disturb

WriteTimesOutRetries ==    \* mutation: the SETGET is sent again
    /\ mode = "wait" /\ alive /\ Head(todo).op = "put"
    /\ InTime
    /\ mode' = "send"
    /\ UNCHANGED <<linkVars, wireVars, device, parseVars, known, todo, taskVars,
                   failed, heard, sure, clean, had, writes>>

WriteTimesOut ==
    /\ mode = "wait" /\ alive /\ Head(todo).op = "put"
    /\ InTime
    /\ GoOn(Tail(todo))
    /\ UNCHANGED <<linkVars, wireVars, device, parseVars, known, taskVars, failed,
                   heard, sure, clean, had, writes>>

ReadTimesOut ==
    /\ mode = "wait" /\ alive /\ Head(todo).op # "put"
    /\ InTime
    /\ StepFails
    /\ UNCHANGED <<linkVars, wireVars, device, parseVars, known, taskVars, heard,
                   sure, clean, had, writes>>

\* send, poll or recv says that the link is gone: dropLink, and every further
\* step of the handler fails at once.
LinkFails ==
    /\ mode \in {"send", "wait"} /\ ~alive
    /\ Learn(IF mode = "send" THEN inbox ELSE <<>>)
    /\ Drop
    /\ failed' = TRUE
    /\ todo' = <<>> /\ mode' = "done"
    /\ UNCHANGED <<device, taskVars, sure, clean, had, boundVars>>

----------------------------------------------------------------------------
(* The event loop reads the link, or loses it.                             *)

\* handleConnectedRead: one read, and all that is whole is handed out.
Feed ==
    /\ Idle /\ alive
    /\ \E n \in 0..Len(fromDev), cut \in Cuts :
          Arrives(n, cut) /\ Learn(Buffered(n))
    /\ inbox' = <<>>
    /\ UNCHANGED <<linkVars, toDev, device, mode, todo, taskVars, failed, sure,
                   clean, had, boundVars>>

LinkLost ==
    /\ Idle /\ ~alive
    /\ Drop
    /\ UNCHANGED <<device, known, mode, todo, taskVars, failed, heard, sure, clean,
                   had, boundVars>>

\* The IPC command "reconnect".
Reconnect ==
    /\ Idle /\ odd < MaxOdd /\ odd' = odd + 1
    /\ Drop
    /\ UNCHANGED <<device, known, mode, todo, taskVars, failed, heard, sure, clean,
                   had, writes>>

\* SIGUSR1 closes the socket and leaves the parser as it is.
SignalUsr1 ==
    /\ Idle /\ odd < MaxOdd /\ odd' = odd + 1
    /\ conn' = FALSE /\ alive' = FALSE
    /\ toDev' = <<>> /\ fromDev' = <<>>
    /\ partial' = IF partial = "none" THEN "none" ELSE "old"
    /\ UNCHANGED <<device, inbox, known, mode, todo, taskVars, failed, heard, sure,
                   clean, had, writes>>

----------------------------------------------------------------------------
(* The headset.                                                            *)

Status(f, d, own) ==
    [kind |-> "status", field |-> f, vals |-> [c \in CellsOf(f) |-> d[c]], mine |-> own]

Served == alive /\ toDev # <<>> /\ toDev' = Tail(toDev)

Has(d) == \A c \in DOMAIN want : d[c] = want[c]

Replies(r, d) ==
    fromDev' = IF r.op = "put" /\ r.field \in Silent THEN fromDev
               ELSE Append(fromDev, Status(r.field, d, r.mine))

DeviceReads ==
    /\ Served /\ Head(toDev).op # "put"
    /\ Replies(Head(toDev), device)
    /\ UNCHANGED <<linkVars, device, parseVars, known, mode, todo, taskVars, failed,
                   heard, sure, clean, had, boundVars>>

DeviceSets ==
    /\ Served /\ Head(toDev).op = "put"
    /\ LET r == Head(toDev) IN
       /\ device' = [c \in Cells |-> IF c \in DOMAIN r.vals THEN r.vals[c] ELSE device[c]]
       /\ Replies(r, device')
    /\ had' = (had \/ Has(device'))
    /\ UNCHANGED <<linkVars, parseVars, known, mode, todo, taskVars, failed, heard,
                   sure, clean, boundVars>>

\* "headset did not apply ...": the value in effect stays what it was.
DeviceIgnores ==
    /\ Served /\ Head(toDev).op = "put"
    /\ Disturb
    /\ Replies(Head(toDev), device)
    /\ UNCHANGED <<linkVars, device, parseVars, known, mode, todo, taskVars, failed,
                   heard, sure, clean, had, writes>>

DeviceRefuses ==
    /\ Served
    /\ Disturb
    /\ fromDev' = Append(fromDev, [kind |-> "error", field |-> Head(toDev).field,
                                   vals |-> Nothing, mine |-> Head(toDev).mine])
    /\ UNCHANGED <<linkVars, device, parseVars, known, mode, todo, taskVars, failed,
                   heard, sure, clean, had, writes>>

\* A button, another app, or the battery.  Polled fields may change unsaid.
DeviceChanges(c, v) ==
    /\ device[c] # v
    /\ Disturb
    /\ device' = [device EXCEPT ![c] = v]
    /\ \/ alive /\ fromDev' = Append(fromDev, Status(FieldOf[c], device', FALSE))
       \/ (alive => FieldOf[c] \in InOrder(Polled)) /\ UNCHANGED fromDev
    /\ clean' = (clean /\ (kind = "write" => c \in Asked))
    /\ had' = (had \/ (kind = "write" /\ Has(device')))
    /\ UNCHANGED <<linkVars, toDev, parseVars, known, mode, todo, taskVars, failed,
                   heard, sure, writes>>

LinkDies ==
    /\ alive
    /\ Disturb
    /\ alive' = FALSE
    /\ toDev' = <<>> /\ fromDev' = <<>>
    /\ UNCHANGED <<conn, device, parseVars, known, mode, todo, taskVars, failed,
                   heard, sure, clean, had, writes>>

----------------------------------------------------------------------------
Exchange == Send \/ RecvOthers \/ RecvOwn \/ WriteTimesOut \/ ReadTimesOut
                \/ LinkFails \/ Finish
Loop == Feed \/ LinkLost
Headset == DeviceReads \/ DeviceSets

Next ==
    \/ Exchange \/ Loop \/ Headset
    \/ Connect \/ Refresh \/ WriteAny \/ SendStalls \/ Reconnect \/ SignalUsr1
    \/ DeviceIgnores \/ DeviceRefuses \/ LinkDies
    \/ \E c \in Cells, v \in Values : DeviceChanges(c, v)

Spec == Init /\ [][Next]_vars

\* The thread runs and its waits have deadlines, the loop reads what arrives
\* and refreshes every minute, and a headset that is there serves requests.
Fairness == WF_vars(Exchange) /\ WF_vars(Loop) /\ WF_vars(Headset) /\ WF_vars(Refresh)

FairSpec == Spec /\ Fairness

----------------------------------------------------------------------------
(* Safety.                                                                 *)

\* The parser of a connection starts at the first byte of a message: bytes of
\* an earlier connection would shift every later message (onConnected).
FramesIntact == conn => partial # "old"

\* Nothing is under way between the daemon and the headset.
AtRest == mode = "idle" /\ alive /\ toDev = <<>> /\ fromDev = <<>> /\ inbox = <<>>

\* At rest, StateEngine has what the headset has, in every field that was read
\* from it and that it reports changes of: no report is lost between the loop's
\* reads, the flush before a request, and the reads of an exchange about another
\* field; and when a band of the equalizer is refused or its SETGET times out,
\* the bands in effect are published, read-back or not (setEq).
SettingsTrueAtRest ==
    AtRest
        => \A c \in Cells :
              FieldOf[c] \in sure \ InOrder(Polled) => known[c] = device[c]

\* A command whose answers were its own reports success only if the headset
\* has had, at some moment since the command began, all the values asked for.
ConfirmedByOwnAnswers ==
    mode = "done" /\ kind = "write" /\ Confirmed /\ clean => had

\* A command that got its own answers, for a headset that meanwhile kept what
\* the command is not about, writes that back as it was (the language in the
\* voice prompts' byte), unless the headset serves it after its time.
ServesInTime == mode = "wait" /\ DeviceSets /\ Head(toDev).mine
KeepsTheRest ==
    [][clean /\ kind = "write" /\ ServesInTime => \A c \in Cells \ Asked : device'[c] = device[c]]_vars

----------------------------------------------------------------------------
(* Liveness, under FairSpec.                                               *)

\* While a connection lasts, what is published of the fields that are polled,
\* and of those read since anything left them in doubt, settles on what the headset has.
Converges ==
    <>[]conn => <>[](\A c \in Cells :
        FieldOf[c] \in sure \cup InOrder(Polled) => known[c] = device[c])

\* No handler holds the daemon's only thread forever.
HandlersReturn == mode # "idle" ~> mode = "idle"

----------------------------------------------------------------------------
(* What the source's comments promise and the code does not keep.          *)

\* A write that is reported as done, and that the headset has dealt with, has
\* been in effect: "the subsequent read-back GET is what confirms the write".
PutsServed == \A i \in DOMAIN toDev : toDev[i].op # "put"
ConfirmedWrite ==
    mode = "done" /\ kind = "write" /\ alive /\ Confirmed /\ PutsServed => had

\* A field that could not be read in this session is left out of the status; at
\* the least, what is published of it at rest is not a value the headset gave up.
StatusOfThisSession ==
    conn /\ AtRest => \A c \in Cells :
        FieldOf[c] \notin heard => known[c] \in {NoValue, device[c]}
=============================================================================
