------------------------------- MODULE Widget -------------------------------
(***************************************************************************)
(* The bar widget's service (Service.qml) and the daemon at the other end  *)
(* of its socket, of which only the promise that IpcServer keeps is        *)
(* modelled: requests are answered in order, and subscribers get the last  *)
(* status.                                                                 *)
(*                                                                         *)
(* The widget lives in the event loop of the shell.  A handler runs to its *)
(* end; what it posts with Qt.callLater runs before the sockets and timers *)
(* are looked at again, but a click that is already in the queue may come  *)
(* first.  Timers of five seconds and less fire when the daemon is late,   *)
(* or when nobody stops them.  A line is the unit of both directions, and  *)
(* one setting stands for the controls.                                    *)
(***************************************************************************)
EXTENDS Naturals, Sequences, FiniteSets

CONSTANTS
    Values,          \* what the status may say of the setting
    Blank,           \* what the widget shows of it without a link
    None,            \* no value
    maxOutstanding,
    maxBackoff,      \* maxBackoffMs, in units of the first one
    MaxInputs,       \* bound on clicks and changes from elsewhere
    MaxFaults        \* bound on the daemon's stops, hangs and long syncs

ASSUME WidgetAssumption ==
    /\ Values # {} /\ Blank \notin Values /\ None \notin Values \cup {Blank}
    /\ maxOutstanding \in Nat \ {0} /\ maxBackoff \in Nat \ {0}
    /\ MaxInputs \in Nat /\ MaxFaults \in Nat

VARIABLES
    \* Service.qml
    sock,        \* linkLoader.item: "none", "connecting", "up" or "down"
    posted,      \* a call that unloads the socket is posted
    outstanding, \* _outstanding
    backoff,     \* _backoffMs
    real,        \* _real
    pending,     \* _pending
    handshake, deadline, reconnect, ticking,   \* its timers, running or not
    \* the socket
    toDaemon, toWidget,
    open,        \* the daemon has its end open
    \* the daemon
    daemon,      \* "up", "busy" with the headset, "hung" or "down"
    val,         \* the setting, in its status
    subscribed,
    told,        \* the status it sent last on this connection
    \* bounds
    inputs, faults

linkVars  == <<sock, posted, outstanding, backoff, handshake, deadline,
               reconnect>>
shownVars == <<real, pending, ticking>>
pipeVars  == <<toDaemon, toWidget, open, subscribed, told>>
boundVars == <<inputs, faults>>
widgetVars == <<linkVars, shownVars, pipeVars, daemon, val, boundVars>>

Subscribe == [verb |-> "subscribe", value |-> None]
Status    == [verb |-> "status", value |-> None]
Reconnect == [verb |-> "reconnect", value |-> None]
Setting(v) == [verb |-> "set", value |-> v]
Requests  == {Subscribe, Status, Reconnect} \cup {Setting(v) : v \in Values}

State(v) == [kind |-> "state", value |-> v]
Ack      == [kind |-> "ack", value |-> None]
Lines    == {Ack} \cup {State(v) : v \in Values}

WidgetTypeOK ==
    /\ sock \in {"none", "connecting", "up", "down"} /\ posted \in BOOLEAN
    /\ outstanding \in 0..maxOutstanding /\ backoff \in 1..maxBackoff
    /\ real \in Values \cup {Blank} /\ pending \in Values \cup {None}
    /\ handshake \in BOOLEAN /\ deadline \in BOOLEAN
    /\ reconnect \in BOOLEAN /\ ticking \in BOOLEAN
    /\ toDaemon \in Seq(Requests) /\ toWidget \in Seq(Lines)
    /\ open \in BOOLEAN /\ subscribed \in BOOLEAN
    /\ daemon \in {"up", "busy", "hung", "down"}
    /\ val \in Values /\ told \in Values \cup {None}
    /\ inputs \in 0..MaxInputs /\ faults \in 0..MaxFaults

\* Component.onCompleted has made the first attempt
WidgetInit ==
    /\ sock = "connecting" /\ posted = FALSE
    /\ outstanding = 0 /\ backoff = 1
    /\ real = Blank /\ pending = None
    /\ handshake = FALSE /\ deadline = FALSE
    /\ reconnect = FALSE /\ ticking = FALSE
    /\ toDaemon = <<>> /\ toWidget = <<>>
    /\ open = FALSE /\ subscribed = FALSE /\ told = None
    /\ daemon \in {"up", "down"} /\ val \in Values
    /\ inputs = 0 /\ faults = 0

linked == sock = "up"
NoPipe ==
    /\ toDaemon' = <<>> /\ toWidget' = <<>>
    /\ open' = FALSE /\ subscribed' = FALSE /\ told' = None

-----------------------------------------------------------------------------
(* The link *)

\* _connect: another socket, unless this one is connected
Connect ==
    IF linked THEN UNCHANGED <<sock, pipeVars>>
              ELSE sock' = "connecting" /\ NoPipe

\* mutant: _outstanding is not reset
LinkUpKeepsCount ==
    /\ sock = "connecting" /\ ~posted
    /\ sock' = "up"
    /\ backoff' = 1 /\ handshake' = TRUE
    /\ toDaemon' = <<Subscribe>> /\ toWidget' = <<>>
    /\ open' = TRUE /\ subscribed' = FALSE /\ told' = None
    /\ UNCHANGED <<outstanding, posted, deadline, reconnect, shownVars,
                   daemon, val, boundVars>>

\* _onLinkState of a socket that is connected
LinkUp ==
    /\ sock = "connecting" /\ ~posted
    /\ sock' = "up"
    /\ outstanding' = 0 /\ backoff' = 1 /\ handshake' = TRUE
    /\ toDaemon' = <<Subscribe>> /\ toWidget' = <<>>
    /\ open' = TRUE /\ subscribed' = FALSE /\ told' = None
    /\ UNCHANGED <<posted, deadline, reconnect, shownVars, daemon, val,
                   boundVars>>

\* mutant: only a link that was up is tried again
LinkLostForGood ==
    /\ deadline' = FALSE /\ handshake' = FALSE
    /\ outstanding' = 0
    /\ real' = Blank /\ pending' = None
    /\ posted' = TRUE
    /\ backoff' = IF 2 * backoff < maxBackoff THEN 2 * backoff ELSE maxBackoff
    /\ reconnect' = linked
    /\ UNCHANGED <<ticking, daemon, val, boundVars>>

\* _onLinkLost, with _offline and _scheduleReconnect
LinkLost ==
    /\ deadline' = FALSE /\ handshake' = FALSE
    /\ outstanding' = 0
    /\ real' = Blank /\ pending' = None
    /\ posted' = TRUE
    /\ backoff' = IF 2 * backoff < maxBackoff THEN 2 * backoff ELSE maxBackoff
    /\ reconnect' = TRUE
    /\ UNCHANGED <<ticking, daemon, val, boundVars>>

\* onError of an attempt
AttemptFails ==
    /\ sock = "connecting" /\ ~posted /\ daemon = "down"
    /\ sock' = "down"
    /\ LinkLost
    /\ UNCHANGED pipeVars

\* the daemon closed its end: onError or onConnectionStateChanged
Disconnected ==
    /\ sock = "up" /\ ~open /\ ~posted
    /\ sock' = "down"
    /\ LinkLost
    /\ UNCHANGED pipeVars

\* and the other of the two
DisconnectedTwice ==
    /\ sock = "down" /\ posted
    /\ LinkLost
    /\ UNCHANGED <<sock, pipeVars>>

\* the call that _scheduleReconnect posted
Unload ==
    /\ posted
    /\ posted' = FALSE
    /\ sock' = "none"
    /\ NoPipe
    /\ UNCHANGED <<outstanding, backoff, handshake, deadline, reconnect,
                   shownVars, daemon, val, boundVars>>

ReconnectFires ==
    /\ reconnect /\ ~posted
    /\ reconnect' = FALSE
    /\ Connect
    /\ UNCHANGED <<posted, outstanding, backoff, handshake, deadline,
                   shownVars, daemon, val, boundVars>>

\* nothing arrives that would stop the timer within responseTimeoutMs
Late ==
    \/ ~linked \/ ~open \/ daemon # "up"
    \/ toDaemon = <<>> /\ toWidget = <<>>

\* _giveUp: the socket is connected until it is unloaded
HandshakeFires ==
    /\ handshake /\ ~posted /\ Late
    /\ LinkLost
    /\ UNCHANGED <<sock, pipeVars>>

DeadlineFires ==
    /\ deadline /\ ~posted /\ Late
    /\ LinkLost
    /\ UNCHANGED <<sock, pipeVars>>

-----------------------------------------------------------------------------
(* Lines *)

Receive == linked /\ ~posted /\ toWidget # <<>>

\* mutant: the handshake timer goes on
ReadStateUnheard ==
    /\ Receive /\ Head(toWidget).kind = "state"
    /\ toWidget' = Tail(toWidget)
    /\ real' = Head(toWidget).value
    /\ pending' = IF pending = real' THEN None ELSE pending
    /\ UNCHANGED <<sock, posted, outstanding, backoff, handshake, deadline,
                   reconnect, ticking, toDaemon, open, subscribed, told,
                   daemon, val, boundVars>>

\* _onLine and _applyStatus: a value the headset confirms is not pending
ReadState ==
    /\ Receive /\ Head(toWidget).kind = "state"
    /\ toWidget' = Tail(toWidget)
    /\ handshake' = FALSE
    /\ real' = Head(toWidget).value
    /\ pending' = IF pending = real' THEN None ELSE pending
    /\ UNCHANGED <<sock, posted, outstanding, backoff, deadline, reconnect,
                   ticking, toDaemon, open, subscribed, told, daemon, val,
                   boundVars>>

\* mutant: the first acknowledgement stops the deadline
ReadAckStops ==
    /\ Receive /\ Head(toWidget).kind = "ack"
    /\ toWidget' = Tail(toWidget)
    /\ outstanding' = IF outstanding > 0 THEN outstanding - 1 ELSE 0
    /\ deadline' = FALSE
    /\ UNCHANGED <<sock, posted, backoff, handshake, reconnect, shownVars,
                   toDaemon, open, subscribed, told, daemon, val, boundVars>>

ReadAck ==
    /\ Receive /\ Head(toWidget).kind = "ack"
    /\ toWidget' = Tail(toWidget)
    /\ outstanding' = IF outstanding > 0 THEN outstanding - 1 ELSE 0
    /\ deadline' = (outstanding' > 0)
    /\ UNCHANGED <<sock, posted, backoff, handshake, reconnect, shownVars,
                   toDaemon, open, subscribed, told, daemon, val, boundVars>>

-----------------------------------------------------------------------------
(* The user *)

\* runCommand; status is not acknowledged
RunCommand(r) ==
    \/ /\ ~linked
       /\ Connect
       /\ UNCHANGED <<outstanding, deadline>>
    \/ /\ linked /\ outstanding >= maxOutstanding
       /\ UNCHANGED <<sock, pipeVars, outstanding, deadline>>
    \/ /\ linked /\ outstanding < maxOutstanding
       /\ toDaemon' = Append(toDaemon, r)
       /\ IF r = Status THEN UNCHANGED <<outstanding, deadline>>
                        ELSE outstanding' = outstanding + 1 /\ deadline' = TRUE
       /\ UNCHANGED <<sock, toWidget, open, subscribed, told>>

Click ==
    /\ inputs < MaxInputs
    /\ inputs' = inputs + 1
    /\ UNCHANGED <<posted, backoff, handshake, reconnect, real, daemon, val,
                   faults>>

\* a setter: the value is pending whether the command leaves or not
Choose(v) ==
    /\ Click
    /\ pending' = v /\ ticking' = TRUE
    /\ RunCommand(Setting(v))

\* refresh and reconnect
Ask(r) ==
    /\ Click
    /\ RunCommand(r)
    /\ UNCHANGED <<pending, ticking>>

\* pendingTimer, when what is pending has expired
PendingExpires ==
    /\ ticking /\ ~posted
    /\ pending' = None /\ ticking' = FALSE
    /\ UNCHANGED <<linkVars, real, pipeVars, daemon, val, boundVars>>

-----------------------------------------------------------------------------
(* The daemon *)

Serving == daemon = "up" /\ open

Send(line) == toWidget' = Append(toWidget, line)

\* subscribe and status
Answer ==
    /\ Serving /\ toDaemon # <<>>
    /\ Head(toDaemon) \in {Subscribe, Status}
    /\ toDaemon' = Tail(toDaemon)
    /\ Send(State(val))
    /\ told' = val
    /\ subscribed' = (subscribed \/ Head(toDaemon) = Subscribe)
    /\ UNCHANGED <<linkVars, shownVars, open, daemon, val, boundVars>>

\* a command, which the headset may refuse
Execute ==
    /\ Serving /\ toDaemon # <<>>
    /\ Head(toDaemon) \notin {Subscribe, Status}
    /\ toDaemon' = Tail(toDaemon)
    /\ \/ UNCHANGED val
       \/ Head(toDaemon) # Reconnect /\ val' = Head(toDaemon).value
    /\ Send(Ack)
    /\ UNCHANGED <<linkVars, shownVars, open, subscribed, told, daemon,
                   boundVars>>

Push ==
    /\ Serving /\ subscribed /\ told # val
    /\ Send(State(val))
    /\ told' = val
    /\ UNCHANGED <<linkVars, shownVars, toDaemon, open, subscribed, daemon,
                   val, boundVars>>

\* the headset, or a command of a connection that is gone
Change(v) ==
    /\ daemon = "up" /\ inputs < MaxInputs
    /\ val' = v
    /\ inputs' = inputs + 1
    /\ UNCHANGED <<linkVars, shownVars, pipeVars, daemon, faults>>

\* what it sent before it stopped can still be read
HangUp ==
    /\ open' = FALSE /\ subscribed' = FALSE /\ told' = None
    /\ toDaemon' = <<>>
    /\ UNCHANGED toWidget

Fault(f) ==
    /\ daemon = "up" /\ faults < MaxFaults
    /\ daemon' = f /\ faults' = faults + 1
    /\ IF f = "down" THEN HangUp ELSE UNCHANGED pipeVars
    /\ UNCHANGED <<linkVars, shownVars, val, inputs>>

\* the sync ends, or the service manager starts it again
Recover ==
    /\ daemon # "up"
    /\ daemon' = "up"
    /\ IF daemon = "hung" THEN HangUp ELSE UNCHANGED pipeVars
    /\ UNCHANGED <<linkVars, shownVars, val, boundVars>>

-----------------------------------------------------------------------------
WidgetStep ==
    \/ LinkUp \/ AttemptFails \/ Disconnected \/ Unload \/ ReconnectFires
    \/ HandshakeFires \/ DeadlineFires \/ PendingExpires
    \/ ReadState \/ ReadAck
DaemonStep == Answer \/ Execute \/ Push

WidgetNext ==
    \/ WidgetStep \/ DaemonStep \/ DisconnectedTwice
    \/ \E v \in Values : Choose(v) \/ Change(v)
    \/ \E r \in {Status, Reconnect} : Ask(r)
    \/ \E f \in {"busy", "hung", "down"} : Fault(f)
    \/ Recover

\* Handlers run, and timers fire, in the end; the daemon serves, ends its
\* syncs and is started again.
WidgetFairness ==
    /\ WF_widgetVars(LinkUp) /\ WF_widgetVars(AttemptFails)
    /\ WF_widgetVars(Disconnected) /\ WF_widgetVars(Unload)
    /\ WF_widgetVars(ReconnectFires) /\ WF_widgetVars(HandshakeFires)
    /\ WF_widgetVars(DeadlineFires) /\ WF_widgetVars(PendingExpires)
    /\ WF_widgetVars(ReadState) /\ WF_widgetVars(ReadAck)
    /\ WF_widgetVars(DaemonStep) /\ WF_widgetVars(Recover)

-----------------------------------------------------------------------------
(* Properties *)

Commands == Requests \ {Subscribe, Status}
HowMany(seq, S) == Cardinality({i \in DOMAIN seq : seq[i] \in S})

(* On a link that was not given up, _outstanding is the number of commands *)
(* whose acknowledgement has still to come, over every restart of daemon   *)
(* and widget: acknowledgements carry no number, so one that is missed or  *)
(* counted twice would shift all that follow.                              *)
AcksInStep ==
    linked /\ open /\ ~posted =>
        outstanding = HowMany(toDaemon, Commands) + HowMany(toWidget, {Ack})

(* Without a link that works or is being tried, the reconnect timer runs:  *)
(* no order of errors, timeouts and clicks leaves the widget waiting for   *)
(* nothing.                                                                *)
NeverStranded ==
    reconnect \/ (~posted /\ sock \in {"connecting", "up"})

(* A command that waits for its acknowledgement has a running deadline,    *)
(* and a value the user chose a timer that takes it back.                  *)
WaitsEnd ==
    /\ outstanding > 0 => deadline
    /\ pending # None => ticking

(* Once the daemon stays up, the widget has a link, shows the daemon's     *)
(* status and waits for nothing, whatever was clicked, lost or late.       *)
WidgetSettles ==
    <>[](linked /\ real = val /\ pending = None /\ outstanding = 0)
=============================================================================
