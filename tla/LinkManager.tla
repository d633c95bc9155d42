---------------------------- MODULE LinkManager ----------------------------
(***************************************************************************)
(* How bose-700-daemon gets and keeps its RFCOMM link to the headset.      *)
(*                                                                         *)
(* The module composes the three pieces that share that job and that run   *)
(* on one thread: the state machine of BluetoothManager, the sd-bus        *)
(* watcher BluezWatcher, and the part of main.cpp's poll loop that drives  *)
(* both.  Around them is what they do not control: BlueZ and the headset   *)
(* (link, paired), the kernel's end of the RFCOMM socket (sock), D-Bus     *)
(* messages not yet read (queue), and time.                                *)
(*                                                                         *)
(* The loop handles one poll(2) result per turn, in the order of main.cpp: *)
(* signal, Bluetooth socket, D-Bus, IPC, tick, 60 s refresh.  A step that  *)
(* blocks the thread (a bluetoothctl call, the reads that follow a         *)
(* connection) keeps every later phase from starting, never the            *)
(* environment; Idle says that nothing blocks.                             *)
(*                                                                         *)
(* Time is abstract: due, late and nudge say whether the back-off, the     *)
(* connect timeout and the interval between two wake-up requests have      *)
(* elapsed.  What the BMAP requests carry is left out.                     *)
(***************************************************************************)
EXTENDS Naturals, Sequences

CONSTANTS
    Devices,        \* Bose headsets BlueZ may know
    NoDevice,       \* "no headset": an empty MAC address
    Preferred,      \* the --mac option: a device, or NoDevice when not given
    WatcherStarts,  \* the possible results of BluezWatcher::start
    Signals,        \* the signals an operator may send to the daemon
    SignalShapes,   \* FALSE in it: BlueZ may put Connected behind another property
    ScrapeMayFail,  \* whether a bluetoothctl call may return nothing
    MaxChanges,     \* bound on the disturbances of the environment
    MaxOps,         \* bound on the operator's reconnects and signals
    MaxRetry        \* cap on retryCount_, which only feeds computeBackoffMs

ASSUME LinkAssumption ==
    /\ NoDevice \notin Devices
    /\ Preferred \in Devices \cup {NoDevice}
    /\ WatcherStarts \subseteq BOOLEAN
    /\ Signals \subseteq {"TERM", "USR1", "USR2"}
    /\ SignalShapes \subseteq BOOLEAN
    /\ ScrapeMayFail \in BOOLEAN
    /\ MaxChanges \in Nat /\ MaxOps \in Nat /\ MaxRetry \in Nat

VARIABLES
    \* BluetoothManager
    state,      \* state_
    dev,        \* currentDevice_.macAddress
    waiting,    \* waitingForAclLink_
    retry,      \* retryCount_
    due,        \* nextReconnectTime_ has passed
    late,       \* connectTimeoutMs have passed since CONNECTING was entered
    nudge,      \* connectRequestIntervalMs have passed since lastConnectRequest_
    \* the calls that block the loop's thread
    asking,     \* the device a running `bluetoothctl connect` is for
    syncing,    \* onConnected is reading the headset's settings
    \* BluezWatcher
    bus,        \* isActive()
    target,     \* targetMac_
    queue,      \* PropertiesChanged messages not yet processed
    readable,   \* poll reported the bus's descriptor
    \* main.cpp
    pc,         \* the phase of the poll loop
    revents,    \* what poll reported of the Bluetooth socket
    published,  \* StateEngine's `connected`
    \* BlueZ, the headset and the kernel
    paired,     \* what BlueZ knows of each device
    link,       \* "off"; "acl": ACL up; "ready": and BMAP's channel accepts
    sock,       \* the kernel's view of the socket behind fd_
    \* bounds
    changes,
    ops

managerVars == <<state, dev, waiting, retry, due, late, nudge>>
blockVars   == <<asking, syncing>>
watcherVars == <<bus, target, queue, readable>>
envVars     == <<paired, link>>
boundVars   == <<changes, ops>>

vars == <<managerVars, blockVars, watcherVars, pc, revents, published,
          envVars, sock, boundVars>>

States == {"DISCONNECTED", "DISCOVERING", "RESOLVING_SDP", "CONNECTING",
           "CONNECTED", "RECONNECT_BACKOFF"}
Phases == {"start", "poll", "signal", "bt", "bus", "ipc", "tick", "refresh",
           "stopped"}
Reports == [dev : Devices, up : BOOLEAN, plain : BOOLEAN]

FlagsOK ==
    /\ waiting \in BOOLEAN /\ due \in BOOLEAN /\ late \in BOOLEAN /\ nudge \in BOOLEAN
    /\ syncing \in BOOLEAN /\ bus \in BOOLEAN /\ readable \in BOOLEAN /\ published \in BOOLEAN

DataOK ==
    /\ state \in States
    /\ dev \in Devices \cup {NoDevice}
    /\ retry \in 0..MaxRetry
    /\ asking \in Devices \cup {NoDevice}
    /\ target \in Devices \cup {NoDevice}
    /\ queue \in Seq(Reports)
    /\ pc \in Phases
    /\ revents \subseteq {"IN", "OUT", "HUP"}
    /\ paired \in [Devices -> {"unknown", "no", "yes"}]
    /\ link \in [Devices -> {"off", "acl", "ready"}]
    /\ sock \in {"closed", "connecting", "up", "refused", "dead"}
    /\ changes \in 0..MaxChanges
    /\ ops \in 0..MaxOps

TypeOK == FlagsOK /\ DataOK

Init ==
    /\ state = "DISCONNECTED" /\ dev = NoDevice /\ waiting = FALSE
    /\ retry = 0 /\ due = FALSE /\ late = FALSE
    /\ nudge \in BOOLEAN  \* lastConnectRequest_ is boot time: 60 s ago, or not
    /\ asking = NoDevice /\ syncing = FALSE
    /\ bus \in WatcherStarts /\ target = Preferred /\ queue = <<>> /\ readable = FALSE
    /\ pc = "start" /\ revents = {} /\ published = FALSE
    /\ paired \in [Devices -> {"unknown", "no", "yes"}]
    /\ link \in [Devices -> {"off", "acl", "ready"}]
    /\ \A d \in Devices : paired[d] # "yes" => link[d] = "off"
    /\ sock = "closed"
    /\ changes = 0 /\ ops = 0

----------------------------------------------------------------------------
(* The helpers of BluetoothManager.                                        *)

Up(d) == link[d] # "off"

\* No call is blocking the loop's thread.
Idle == /\ state \notin {"DISCOVERING", "RESOLVING_SDP"}
        /\ asking = NoDevice
        /\ ~syncing

\* Mutation: any failure parks the manager, as an ACL link that is down does.
ScheduleReconnectParks ==
    /\ state' = "RECONNECT_BACKOFF" /\ waiting' = TRUE /\ sock' = "closed"
    /\ published' = FALSE /\ due' = FALSE /\ late' = FALSE /\ UNCHANGED retry

\* scheduleReconnect with autoReconnect, and the onDisconnected callback.
ScheduleReconnect ==
    /\ state' = "RECONNECT_BACKOFF"
    /\ waiting' = FALSE
    /\ sock' = "closed"
    /\ published' = FALSE
    /\ retry' = IF retry < MaxRetry THEN retry + 1 ELSE retry
    /\ due' = FALSE
    /\ late' = FALSE

\* scheduleDiscoveryRetry, and the onDisconnected callback.
ScheduleDiscoveryRetry ==
    /\ state' = "RECONNECT_BACKOFF"
    /\ waiting' = TRUE
    /\ sock' = "closed"
    /\ published' = FALSE
    /\ due' = FALSE
    /\ late' = FALSE
    /\ UNCHANGED retry

\* Mutation: a new discovery does not clear waitingForAclLink_.
AttemptDiscoveryStaysParked ==
    /\ state' = "DISCOVERING" /\ due' = FALSE /\ late' = FALSE
    /\ UNCHANGED waiting

\* attemptDiscovery up to its first call to bluetoothctl.
AttemptDiscovery ==
    /\ state' = "DISCOVERING"
    /\ waiting' = FALSE
    /\ due' = FALSE
    /\ late' = FALSE

\* Mutation: the old socket is left open.
RestartKeepsSocket ==
    AttemptDiscovery /\ retry' = 0 /\ published' = FALSE /\ UNCHANGED sock

\* Mutation: disconnect() is trusted to tell the clients, which it does not.
RestartKeepsStatus ==
    AttemptDiscovery /\ sock' = "closed" /\ retry' = 0 /\ UNCHANGED published

\* disconnect() followed by start(): drop the socket, no callback, start over.
Restart ==
    /\ AttemptDiscovery
    /\ sock' = "closed"
    /\ retry' = 0
    /\ published' = FALSE

\* Mutation: onConnected does not aim the watcher.
EnterConnectedKeepsTarget ==
    /\ state' = "CONNECTED" /\ retry' = 0 /\ late' = FALSE /\ published' = TRUE
    /\ syncing' = TRUE /\ UNCHANGED <<waiting, due, target>>

\* A connected socket: the retry counter is reset and onConnected begins.
EnterConnected ==
    /\ state' = "CONNECTED"
    /\ retry' = 0
    /\ late' = FALSE
    /\ published' = TRUE
    /\ target' = dev
    /\ syncing' = TRUE
    /\ UNCHANGED <<waiting, due>>

\* dropLink, reached from a BMAP request that found the socket broken.
DropLink ==
    /\ state \notin {"DISCONNECTED", "RECONNECT_BACKOFF"}
    /\ ScheduleReconnect

\* A change of the environment that the bound counts.
Disturb == changes < MaxChanges /\ changes' = changes + 1

\* The message BlueZ broadcasts when the Connected property of d changes.
Emit(d, up) ==
    IF bus
    THEN \E plain \in SignalShapes :
            queue' = Append(queue, [dev |-> d, up |-> up, plain |-> plain])
    ELSE UNCHANGED queue

----------------------------------------------------------------------------
(* Discovery and connection: BluetoothManager::attemptDiscovery onwards.   *)

\* What findBoseHeadphones may return when bluetoothctl answers.
Candidates ==
    LET known == {d \in Devices : paired[d] = "yes"}
    IN  IF Preferred # NoDevice THEN {Preferred}
        ELSE IF \E d \in known : Up(d) THEN {d \in known : Up(d)}
        ELSE known

\* No candidate, or an empty answer when no MAC was given: a real failure.
FindNothing ==
    /\ state = "DISCOVERING" /\ asking = NoDevice
    /\ \/ Candidates = {} /\ UNCHANGED changes
       \/ Preferred = NoDevice /\ ScrapeMayFail /\ Disturb
    /\ ScheduleReconnect
    /\ UNCHANGED <<dev, nudge, blockVars, watcherVars, pc, revents, envVars, ops>>

\* The preferred device is known to BlueZ but not paired.
FindUnpaired ==
    /\ state = "DISCOVERING" /\ asking = NoDevice
    /\ \E d \in Candidates :
        /\ paired[d] = "no"
        /\ dev' = d
    /\ ScheduleReconnect
    /\ UNCHANGED <<nudge, blockVars, watcherVars, pc, revents, envVars, boundVars>>

\* What one empty answer of bluetoothctl may turn up: the preferred device reads
\* as unconnected; among several, those that are up may be left out.
ReadsAsDown(d) ==
    IF Preferred # NoDevice THEN d = Preferred ELSE paired[d] = "yes" /\ ~Up(d)

\* The device is paired, or unknown to BlueZ, and not connected: ask BlueZ to
\* connect it unless that was done less than a minute ago, and park.
FindDown ==
    /\ state = "DISCOVERING" /\ asking = NoDevice
    /\ \E d \in Devices :
        /\ \/ d \in Candidates /\ paired[d] # "no" /\ ~Up(d) /\ UNCHANGED changes
           \/ ReadsAsDown(d) /\ ScrapeMayFail /\ Disturb
        /\ dev' = d
        /\ IF nudge
           THEN /\ asking' = d
                /\ nudge' = FALSE
                /\ UNCHANGED <<state, waiting, sock, published, due, late, retry>>
           ELSE /\ ScheduleDiscoveryRetry
                /\ UNCHANGED <<asking, nudge>>
    /\ UNCHANGED <<syncing, watcherVars, pc, revents, envVars, ops>>

\* Mutation: RFCOMM is tried whatever BlueZ says of the ACL link.
FindUpUnchecked ==
    /\ state = "DISCOVERING" /\ asking = NoDevice
    /\ \E d \in Candidates : paired[d] = "yes" /\ dev' = d
    /\ state' = "RESOLVING_SDP"
    /\ UNCHANGED <<waiting, retry, due, late, nudge, blockVars, watcherVars,
                   pc, revents, published, envVars, sock, boundVars>>

\* The device is connected: attemptSdp, which takes the configured channel.
FindUp ==
    /\ state = "DISCOVERING" /\ asking = NoDevice
    /\ \E d \in Candidates :
        /\ paired[d] = "yes" /\ Up(d)
        /\ dev' = d
    /\ state' = "RESOLVING_SDP"
    /\ UNCHANGED <<waiting, retry, due, late, nudge, blockVars, watcherVars,
                   pc, revents, published, envVars, sock, boundVars>>

\* attemptConnect: connect(2) succeeds at once, is in progress, or fails.
ConnectAtOnce ==
    /\ state = "RESOLVING_SDP"
    /\ link[dev] = "ready"
    /\ sock' = "up"
    /\ EnterConnected
    /\ UNCHANGED <<dev, nudge, asking, bus, queue, readable, pc, revents, envVars, boundVars>>

ConnectInProgress ==
    /\ state = "RESOLVING_SDP"
    /\ state' = "CONNECTING"
    /\ sock' = "connecting"
    /\ late' = FALSE
    /\ UNCHANGED <<dev, waiting, retry, due, nudge, blockVars, watcherVars, pc,
                   revents, published, envVars, boundVars>>

ConnectFails ==
    /\ state = "RESOLVING_SDP"
    /\ IF link[dev] = "ready" THEN Disturb ELSE UNCHANGED changes
    /\ ScheduleReconnect
    /\ UNCHANGED <<dev, nudge, blockVars, watcherVars, pc, revents, envVars, ops>>

\* Mutation: ENOTCONN does not count as a dead link.
SyncDoneUnconnected ==
    /\ syncing
    /\ syncing' = FALSE
    /\ UNCHANGED <<managerVars, asking, watcherVars, pc, revents, published,
                   envVars, sock, boundVars>>

\* The eight reads of onConnected are over.  A broken socket makes one of them
\* drop the link, unless it broke after the last; a socket that never connected
\* refuses the first (ENOTCONN).
SyncDone ==
    /\ syncing
    /\ sock \notin {"connecting", "refused"}
    /\ syncing' = FALSE
    /\ UNCHANGED <<managerVars, asking, watcherVars, pc, revents, published,
                   envVars, sock, boundVars>>

SyncDropsLink ==
    /\ syncing
    /\ sock # "up"
    /\ DropLink
    /\ syncing' = FALSE
    /\ UNCHANGED <<dev, nudge, asking, watcherVars, pc, revents, envVars, boundVars>>

\* `bluetoothctl connect` returns; BlueZ may have brought the link up.  Inside
\* attemptDiscovery the manager now parks; a wake-up request changes nothing.
RequestAnswered ==
    /\ asking # NoDevice
    /\ \/ UNCHANGED <<link, queue>>
       \/ /\ paired[asking] = "yes" /\ ~Up(asking)
          /\ \E l \in {"acl", "ready"} : link' = [link EXCEPT ![asking] = l]
          /\ Emit(asking, TRUE)
    /\ asking' = NoDevice
    /\ IF state = "DISCOVERING"
       THEN ScheduleDiscoveryRetry
       ELSE UNCHANGED <<state, waiting, sock, published, due, late, retry>>
    /\ UNCHANGED <<dev, nudge, syncing, bus, target, readable, pc, revents, paired, boundVars>>

----------------------------------------------------------------------------
(* The poll loop of main.cpp, one action per phase and outcome.            *)

\* BluetoothManager::start, before the loop.
Start ==
    /\ pc = "start"
    /\ pc' = "poll"
    /\ AttemptDiscovery
    /\ retry' = 0
    /\ UNCHANGED <<dev, nudge, blockVars, watcherVars, revents, published,
                   envVars, sock, boundVars>>

\* What poll(2) can report of the socket: getPollEvents and the kernel.
PollResults ==
    IF state = "CONNECTING"
    THEN CASE sock = "connecting" -> {{}}
           [] sock = "up" -> {{"OUT"}}
           [] OTHER -> {{"HUP"}, {"OUT", "HUP"}}
    ELSE IF state = "CONNECTED"
    THEN CASE sock = "connecting" -> {{}}
           [] sock = "up" -> {{}, {"IN"}}
           [] OTHER -> {{"IN"}, {"HUP"}, {"IN", "HUP"}}
    ELSE {{}}

Poll ==
    /\ pc = "poll" /\ Idle
    /\ pc' = "signal"
    /\ revents' \in PollResults
    /\ readable' = (bus /\ queue # <<>>)
    /\ UNCHANGED <<managerVars, blockVars, bus, target, queue, published,
                   envVars, sock, boundVars>>

NoSignal ==
    /\ pc = "signal" /\ Idle
    /\ pc' = "bt"
    /\ UNCHANGED <<managerVars, blockVars, watcherVars, revents, published,
                   envVars, sock, boundVars>>

\* SIGTERM or SIGINT: leave the loop, stop the manager, remove status.json.
Terminate ==
    /\ pc = "signal" /\ Idle
    /\ "TERM" \in Signals
    /\ pc' = "stopped"
    /\ state' = "DISCONNECTED"
    /\ waiting' = FALSE
    /\ sock' = "closed"
    /\ published' = FALSE
    /\ due' = FALSE /\ late' = FALSE
    /\ UNCHANGED <<dev, retry, nudge, blockVars, watcherVars, revents, envVars,
                   boundVars>>

\* SIGUSR1: the "simulated disconnect".  revents is still the old socket's.
SignalUsr1 ==
    /\ pc = "signal" /\ Idle
    /\ "USR1" \in Signals /\ ops < MaxOps
    /\ ops' = ops + 1
    /\ pc' = "bt"
    /\ Restart
    /\ UNCHANGED <<dev, nudge, blockVars, watcherVars, revents, envVars, changes>>

\* SIGUSR2: the "simulated reconnect", which publishes before it connects.
SignalUsr2 ==
    /\ pc = "signal" /\ Idle
    /\ "USR2" \in Signals /\ ops < MaxOps
    /\ ops' = ops + 1
    /\ pc' = "bt"
    /\ published' = TRUE
    /\ IF state \in {"CONNECTED", "CONNECTING"}
       THEN UNCHANGED <<state, waiting, due, late, retry>>
       ELSE AttemptDiscovery /\ retry' = 0
    /\ UNCHANGED <<dev, nudge, blockVars, watcherVars, revents, envVars, sock,
                   changes>>

\* handleConnecting, POLLOUT: SO_ERROR is 0 on a socket still connecting, and
\* may be on one that connected and has died since.
SocketConnected ==
    /\ pc = "bt" /\ Idle
    /\ state = "CONNECTING" /\ "OUT" \in revents
    /\ sock # "refused"
    /\ pc' = "bus" /\ revents' = {}
    /\ EnterConnected
    /\ UNCHANGED <<dev, nudge, asking, bus, queue, readable, envVars, sock, boundVars>>

\* Mutation: a hang-up of the established link is not looked at.
SocketBrokenButHangup ==
    \/ state = "CONNECTING" /\ "OUT" \in revents /\ sock \in {"refused", "dead"}
    \/ state = "CONNECTING" /\ "OUT" \notin revents /\ "HUP" \in revents

\* The events that make handleConnecting or the CONNECTED branch give up.
SocketBroken ==
    \/ state = "CONNECTING" /\ "OUT" \in revents /\ sock \in {"refused", "dead"}
    \/ state = "CONNECTING" /\ "OUT" \notin revents /\ "HUP" \in revents
    \/ state = "CONNECTED" /\ "HUP" \in revents
    \/ state = "CONNECTED" /\ "IN" \in revents /\ sock \in {"refused", "dead"}

SocketLost ==
    /\ pc = "bt" /\ Idle
    /\ SocketBroken
    /\ pc' = "bus" /\ revents' = {}
    /\ ScheduleReconnect
    /\ UNCHANGED <<dev, nudge, blockVars, watcherVars, envVars, boundVars>>

\* No event, or one that changes nothing here: incoming data, an event of a
\* socket that is gone.
SocketQuiet ==
    /\ pc = "bt" /\ Idle
    /\ ~SocketBroken
    /\ ~(state = "CONNECTING" /\ "OUT" \in revents)
    /\ pc' = "bus" /\ revents' = {}
    /\ UNCHANGED <<managerVars, blockVars, watcherVars, published, envVars,
                   sock, boundVars>>

\* BluezWatcher::handleMessage hands the report over only for the target, and
\* only when Connected is the first property of the message.
Heard(m) == m.dev = target /\ m.plain

\* onBluezConnectedChange(true): a parked manager starts over.
BusReportsUp ==
    /\ pc = "bus" /\ Idle /\ bus /\ readable /\ queue # <<>>
    /\ Heard(Head(queue)) /\ Head(queue).up /\ dev # NoDevice
    /\ state \in {"RECONNECT_BACKOFF", "DISCONNECTED"}
    /\ queue' = Tail(queue)
    /\ AttemptDiscovery
    /\ UNCHANGED <<dev, retry, nudge, blockVars, bus, target, readable, pc, revents,
                   published, envVars, sock, boundVars>>

\* onBluezConnectedChange(false): drop the link, or keep waiting for it.
BusReportsDown ==
    /\ pc = "bus" /\ Idle /\ bus /\ readable /\ queue # <<>>
    /\ Heard(Head(queue)) /\ ~Head(queue).up /\ dev # NoDevice
    /\ queue' = Tail(queue)
    /\ IF state \in {"CONNECTED", "CONNECTING"}
       THEN ScheduleReconnect
       ELSE /\ waiting' = TRUE
            /\ UNCHANGED <<state, sock, published, retry, due, late>>
    /\ UNCHANGED <<dev, nudge, blockVars, bus, target, readable, pc, revents, envVars,
                   boundVars>>

\* Any other message is read and forgotten.
BusIgnores ==
    /\ pc = "bus" /\ Idle /\ bus /\ readable /\ queue # <<>>
    /\ LET m == Head(queue)
       IN  \/ ~Heard(m)
           \/ dev = NoDevice
           \/ m.up /\ state \notin {"RECONNECT_BACKOFF", "DISCONNECTED"}
    /\ queue' = Tail(queue)
    /\ UNCHANGED <<managerVars, blockVars, bus, target, readable, pc, revents, published,
                   envVars, sock, boundVars>>

\* The queue is drained, or poll reported nothing: a message that arrived since
\* waits for the next turn.
BusDrained ==
    /\ pc = "bus" /\ Idle
    /\ ~bus \/ ~readable \/ queue = <<>>
    /\ pc' = "ipc"
    /\ readable' = FALSE
    /\ UNCHANGED <<managerVars, blockVars, bus, target, queue, revents,
                   published, envVars, sock, boundVars>>

\* sd_bus_process fails: the watcher closes the bus, for good.
BusFails ==
    /\ pc = "bus" /\ Idle /\ bus
    /\ bus' = FALSE
    /\ queue' = <<>>
    /\ readable' = FALSE
    /\ pc' = "ipc"
    /\ UNCHANGED <<managerVars, blockVars, target, revents, published, envVars,
                   sock, boundVars>>

\* A client's "reconnect" command.
IpcReconnect ==
    /\ pc = "ipc" /\ Idle /\ ops < MaxOps
    /\ ops' = ops + 1
    /\ Restart
    /\ UNCHANGED <<dev, nudge, blockVars, watcherVars, pc, revents, envVars,
                   changes>>

\* A client's write command, or the refresh of battery and noise cancelling
\* every minute, meets a broken socket.  On a sound one neither changes the link.
RequestDropsLink ==
    /\ pc \in {"ipc", "refresh"} /\ Idle
    /\ state = "CONNECTED" /\ sock # "up"
    /\ DropLink
    /\ UNCHANGED <<dev, nudge, blockVars, watcherVars, pc, revents, envVars,
                   boundVars>>

IpcDone ==
    /\ pc = "ipc" /\ Idle
    /\ pc' = "tick"
    /\ UNCHANGED <<managerVars, blockVars, watcherVars, revents, published,
                   envVars, sock, boundVars>>

\* Mutation: a parked manager gets no timer even without a watcher.
ParkedWithoutWatcher == waiting

\* Parked with a live watcher: no timer, only the throttled wake-up request.
Parked == bus /\ waiting

\* Mutation: the watcher is aimed, BlueZ is not asked again.
WakeUpOnlyAims ==
    /\ pc = "tick" /\ Idle
    /\ Parked
    /\ pc' = "refresh"
    /\ target' = dev
    /\ UNCHANGED <<managerVars, blockVars, bus, queue, readable, revents, published,
                   envVars, sock, boundVars>>

WakeUp ==
    /\ pc = "tick" /\ Idle
    /\ Parked
    /\ pc' = "refresh"
    /\ target' = dev
    /\ IF nudge THEN asking' = dev /\ nudge' = FALSE
                ELSE UNCHANGED <<asking, nudge>>
    /\ UNCHANGED <<state, dev, waiting, retry, due, late, syncing, bus, queue,
                   readable, revents, published, envVars, sock, boundVars>>

\* tick(): the connect timeout.
TickTimeout ==
    /\ pc = "tick" /\ Idle
    /\ ~Parked
    /\ state = "CONNECTING" /\ late
    /\ pc' = "refresh"
    /\ ScheduleReconnect
    /\ UNCHANGED <<dev, nudge, blockVars, watcherVars, revents, envVars, boundVars>>

\* Mutation: the back-off is not waited for.
TickRetryAtOnce ==
    /\ pc = "tick" /\ Idle
    /\ ~Parked
    /\ state = "RECONNECT_BACKOFF"
    /\ pc' = "refresh"
    /\ AttemptDiscovery
    /\ UNCHANGED <<dev, retry, nudge, blockVars, watcherVars, revents,
                   published, envVars, sock, boundVars>>

\* tick(): the back-off is over.
TickRetry ==
    /\ pc = "tick" /\ Idle
    /\ ~Parked
    /\ state = "RECONNECT_BACKOFF" /\ due
    /\ pc' = "refresh"
    /\ AttemptDiscovery
    /\ UNCHANGED <<dev, retry, nudge, blockVars, watcherVars, revents,
                   published, envVars, sock, boundVars>>

TickQuiet ==
    /\ pc = "tick" /\ Idle
    /\ ~Parked
    /\ ~(state = "CONNECTING" /\ late)
    /\ ~(state = "RECONNECT_BACKOFF" /\ due)
    /\ pc' = "refresh"
    /\ UNCHANGED <<managerVars, blockVars, watcherVars, revents, published,
                   envVars, sock, boundVars>>

RefreshDone ==
    /\ pc = "refresh" /\ Idle
    /\ pc' = "poll"
    /\ UNCHANGED <<managerVars, blockVars, watcherVars, revents, published,
                   envVars, sock, boundVars>>

----------------------------------------------------------------------------
(* The environment: BlueZ, the headset, the kernel and the clock.          *)

\* The headset connects to the computer of its own accord.
LinkUp(d) ==
    /\ paired[d] = "yes" /\ ~Up(d)
    /\ Disturb
    /\ \E l \in {"acl", "ready"} : link' = [link EXCEPT ![d] = l]
    /\ Emit(d, TRUE)
    /\ UNCHANGED <<managerVars, blockVars, bus, target, readable, pc, revents, published,
                   paired, sock, ops>>

\* The effect on the daemon's socket of losing device d.
Broken(d) == IF dev # d THEN sock
             ELSE CASE sock = "up" -> "dead"
                    [] sock = "connecting" -> "refused"
                    [] OTHER -> sock

\* The headset is switched off or out of range.
LinkDown(d) ==
    /\ Up(d)
    /\ Disturb
    /\ link' = [link EXCEPT ![d] = "off"]
    /\ sock' = Broken(d)
    /\ Emit(d, FALSE)
    /\ UNCHANGED <<managerVars, blockVars, bus, target, readable, pc, revents, published,
                   paired, ops>>

\* The headset starts, or stops, to accept BMAP's channel on a live ACL link.
ServiceOpens(d) ==
    /\ link[d] = "acl"
    /\ link' = [link EXCEPT ![d] = "ready"]
    /\ UNCHANGED <<managerVars, blockVars, watcherVars, pc, revents, published,
                   paired, sock, boundVars>>

ServiceCloses(d) ==
    /\ link[d] = "ready"
    /\ Disturb
    /\ link' = [link EXCEPT ![d] = "acl"]
    /\ sock' = Broken(d)
    /\ UNCHANGED <<managerVars, blockVars, watcherVars, pc, revents, published,
                   paired, ops>>

\* The user pairs a headset, or removes one that is off.
Pair(d) ==
    /\ paired[d] # "yes"
    /\ paired' = [paired EXCEPT ![d] = "yes"]
    /\ UNCHANGED <<managerVars, blockVars, watcherVars, pc, revents, published,
                   link, sock, boundVars>>

Unpair(d) ==
    /\ paired[d] = "yes" /\ ~Up(d) /\ asking # d
    /\ Disturb
    /\ \E p \in {"unknown", "no"} : paired' = [paired EXCEPT ![d] = p]
    /\ UNCHANGED <<managerVars, blockVars, watcherVars, pc, revents, published,
                   link, sock, ops>>

\* The headset accepts the RFCOMM connection, refuses it, or closes it later.
SocketAccepted ==
    /\ sock = "connecting" /\ link[dev] = "ready"
    /\ sock' = "up"
    /\ UNCHANGED <<managerVars, blockVars, watcherVars, pc, revents, published,
                   envVars, boundVars>>

SocketRefused ==
    /\ sock = "connecting" /\ link[dev] # "ready"
    /\ sock' = "refused"
    /\ UNCHANGED <<managerVars, blockVars, watcherVars, pc, revents, published,
                   envVars, boundVars>>

SocketDies ==
    /\ sock = "up"
    /\ Disturb
    /\ sock' = "dead"
    /\ UNCHANGED <<managerVars, blockVars, watcherVars, pc, revents, published,
                   envVars, ops>>

\* The clock.  A headset that accepts does so within connectTimeoutMs, unless
\* it is disturbed.
BackoffElapses ==
    /\ state = "RECONNECT_BACKOFF" /\ ~due
    /\ due' = TRUE
    /\ UNCHANGED <<state, dev, waiting, retry, late, nudge, blockVars,
                   watcherVars, pc, revents, published, envVars, sock, boundVars>>

ConnectElapses ==
    /\ state = "CONNECTING" /\ ~late
    /\ IF link[dev] = "ready" THEN Disturb ELSE UNCHANGED changes
    /\ late' = TRUE
    /\ UNCHANGED <<state, dev, waiting, retry, due, nudge, blockVars,
                   watcherVars, pc, revents, published, envVars, sock, ops>>

NudgeElapses ==
    /\ ~nudge /\ asking = NoDevice
    /\ nudge' = TRUE
    /\ UNCHANGED <<state, dev, waiting, retry, due, late, blockVars,
                   watcherVars, pc, revents, published, envVars, sock, boundVars>>

----------------------------------------------------------------------------
Daemon ==
    \/ Start
    \/ FindNothing \/ FindUnpaired \/ FindDown \/ FindUp
    \/ ConnectAtOnce \/ ConnectInProgress \/ ConnectFails
    \/ SyncDone \/ SyncDropsLink
    \/ Poll
    \/ NoSignal \/ Terminate \/ SignalUsr1 \/ SignalUsr2
    \/ SocketConnected \/ SocketLost \/ SocketQuiet
    \/ BusReportsUp \/ BusReportsDown \/ BusIgnores \/ BusDrained \/ BusFails
    \/ IpcReconnect \/ RequestDropsLink \/ IpcDone
    \/ WakeUp \/ TickTimeout \/ TickRetry \/ TickQuiet
    \/ RefreshDone

Clock == BackoffElapses \/ ConnectElapses \/ NudgeElapses

Environment ==
    \/ \E d \in Devices :
        \/ LinkUp(d) \/ LinkDown(d)
        \/ ServiceOpens(d) \/ ServiceCloses(d)
        \/ Pair(d) \/ Unpair(d)
    \/ SocketAccepted \/ SocketRefused \/ SocketDies

Next == Daemon \/ RequestAnswered \/ Clock \/ Environment

Spec == Init /\ [][Next]_vars

\* The loop never stops turning (poll waits 100 ms at most), bluetoothctl is
\* under timeout(1), time passes, and a headset that accepts says so.  Nothing
\* is assumed of a headset that does not, nor of the operator.
Fairness ==
    /\ WF_vars(Daemon)
    /\ WF_vars(RequestAnswered)
    /\ WF_vars(BackoffElapses) /\ WF_vars(ConnectElapses) /\ WF_vars(NudgeElapses)
    /\ WF_vars(SocketAccepted)

FairSpec == Spec /\ Fairness

----------------------------------------------------------------------------
(* Safety.                                                                 *)

\* A socket is open exactly while the manager connects or is connected: no
\* path out of those two states leaks the descriptor, and none enters them
\* without one (scheduleReconnect, disconnect, attemptConnect).
SocketMatchesState ==
    sock # "closed" <=> state \in {"CONNECTING", "CONNECTED"}

\* Clients are told "connected" exactly while the manager is CONNECTED, through
\* every reconnect, timeout and dropped link.  Only SIGUSR2 breaks this.
PublishedMatchesLink == published <=> state = "CONNECTED"

\* waitingForAclLink_ makes the loop skip tick(), which owns both the back-off
\* and the connect timeout: it must never survive outside a back-off, where
\* the manager would be left without a clock.
ParkedOnlyInBackoff ==
    waiting => state = "RECONNECT_BACKOFF" /\ dev # NoDevice

\* A manager that counts on the watcher while the ACL link is up has the report
\* that will wake it still in the queue, and aimed at its target.
NoLostWakeup ==
    Parked /\ Up(dev) /\ pc # "stopped"
        => /\ target = dev
           /\ \E i \in DOMAIN queue : queue[i].dev = dev /\ queue[i].up /\ queue[i].plain

\* A link the headset never accepted does not last: POLLOUT alone proves nothing,
\* and after SIGUSR1 the poll result of the old socket is read as if it were the
\* new one's.  Such a link ends inside onConnected, whose first read fails.
LinkedMeansAccepted ==
    state = "CONNECTED" /\ sock \notin {"up", "dead"}
        => syncing /\ "USR1" \in Signals

\* RFCOMM is never opened towards a headset whose ACL link is down, unless the
\* report of that is still unread ("hammering connect() on a powered-off
\* headset ... froze this machine").
DownUnread(d) == \E i \in DOMAIN queue : queue[i].dev = d /\ ~queue[i].up
OpensOnLiveLink ==
    sock = "closed" /\ sock' # "closed" /\ bus => Up(dev) \/ DownUnread(dev)
RfcommOnlyOnLiveLink == [][OpensOnLiveLink]_vars

\* A manager in back-off looks for the headset again only when the timer has
\* run out, BlueZ reports the link up, or somebody asks for it.
PacedStep ==
    state = "RECONNECT_BACKOFF" /\ state' = "DISCOVERING"
        => \/ due
           \/ pc \in {"signal", "ipc"}
           \/ pc = "bus" /\ Head(queue).dev = target /\ Head(queue).up
RetryIsPaced == [][PacedStep]_vars

\* With two headsets around, what BlueZ says of the other one never costs the
\* daemon an established link: onConnected aims the watcher at the headset it
\* is connected to before any later report is read.
DropIsOwn ==
    pc = "bus" /\ Idle /\ state = "CONNECTED" /\ state' # "CONNECTED"
        => bus /\ queue # <<>> /\ Head(queue).dev = dev
OnlyOwnReportsDropLink == [][DropIsOwn]_vars

----------------------------------------------------------------------------
(* The inductive invariants behind the safety properties.                  *)

\* Where the flags of the manager and the blocking calls may be set.
PhaseInv ==
    /\ state = "DISCONNECTED" => pc \in {"start", "stopped"}
    /\ pc \in {"start", "stopped"} => state = "DISCONNECTED"
    /\ pc \in {"start", "stopped"} => asking = NoDevice /\ ~syncing
    /\ syncing => state = "CONNECTED"
    /\ asking # NoDevice => dev = asking /\ state \in {"DISCOVERING", "RECONNECT_BACKOFF"}
    /\ asking # NoDevice /\ state = "RECONNECT_BACKOFF" => waiting
    /\ state \notin {"DISCONNECTED", "DISCOVERING", "RECONNECT_BACKOFF"} => dev # NoDevice

\* What poll reported is looked at once, in the phases before "bus"; and while
\* SIGUSR1 does not replace the socket in between it is still true of it.
EventInv ==
    /\ pc \notin {"signal", "bt"} => revents = {} \/ pc = "stopped"
    /\ pc = "signal" => state \notin {"DISCOVERING", "RESOLVING_SDP"} /\ ~syncing
    /\ pc = "signal" /\ revents # {} => state \in {"CONNECTING", "CONNECTED"}
    /\ pc = "bt" /\ revents # {} /\ "USR1" \notin Signals
        => state \in {"CONNECTING", "CONNECTED"} /\ ~syncing
    /\ pc \in {"signal", "bt"} /\ "USR1" \notin Signals
            /\ state = "CONNECTING" /\ "OUT" \in revents
        => sock # "connecting"

\* The watcher listens to the headset the manager is connected to.
TargetInv == state = "CONNECTED" => target = dev

\* A headset about to be opened is up, or BlueZ has said otherwise since.
LiveInv == state = "RESOLVING_SDP" /\ bus => Up(dev) \/ DownUnread(dev)

\* The unread reports q while the preferred headset's link is up: each "down"
\* of it is followed by an "up", and somewhere there is an "up".
IsUp(m) == m.dev = Preferred /\ m.up /\ m.plain
DownsAnswered(q) ==
    \A i \in DOMAIN q : q[i].dev = Preferred /\ ~q[i].up
        => \E j \in DOMAIN q : j > i /\ IsUp(q[j])
UpAhead(q) == \E i \in DOMAIN q : IsUp(q[i])

\* A manager that waits, or is about to, while the link is up has an "up" ahead.
ReportInv ==
    /\ target = Preferred
    /\ dev \in {Preferred, NoDevice}
    /\ bus /\ Up(Preferred) => DownsAnswered(queue)
    /\ bus /\ Up(Preferred) /\ (waiting \/ asking # NoDevice) => UpAhead(queue)

----------------------------------------------------------------------------
(* Liveness, under FairSpec.                                               *)

\* The headset the daemon is meant to find: the preferred one, or the only one.
Wanted(d) == Preferred = d \/ Devices = {d}

\* A wanted headset that stays within reach is connected in the end, and stays
\* connected, whatever happened before.
EventuallyConnects ==
    \A d \in Devices :
        Wanted(d) => (<>[](link[d] = "ready" /\ paired[d] = "yes")
                        => <>[](state = "CONNECTED" \/ pc = "stopped"))

\* A manager parked for good keeps asking BlueZ to connect the headset: the
\* throttle delays the wake-up request and never swallows it.
NudgesGoOn == ~<>[](Parked /\ asking = NoDevice /\ pc # "stopped")

\* A headset that is gone for good is reported as disconnected for good, with
\* or without the watcher.
OutageIsPublished == <>[](\A d \in Devices : ~Up(d)) => <>[]~published

\* No connection attempt hangs: connectTimeoutMs ends the ones that the headset
\* neither accepts nor refuses.
ConnectingEnds == state = "CONNECTING" ~> state # "CONNECTING"
=============================================================================
