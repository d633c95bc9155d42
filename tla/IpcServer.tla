---------------------------- MODULE IpcServer ----------------------------
(***************************************************************************)
(* The Unix socket of bose-700-daemon: IpcServer's sessions, the commands  *)
(* they carry, and the status that the event loop of main.cpp pushes to    *)
(* the subscribed ones.                                                    *)
(*                                                                         *)
(* One thread serves everybody.  A turn of the loop is a poll, whose       *)
(* results are then worked off one descriptor at a time; what the headset  *)
(* does to the status before and after that; and one comparison with the   *)
(* status last pushed.  A command blocks the thread for as long as the     *)
(* headset takes, so clients go on writing, reading and leaving while the  *)
(* results of the poll grow old.                                           *)
(*                                                                         *)
(* A line is the unit of both directions: a request is its verb, a reply   *)
(* is a status or an acknowledgement.  The status JSON is its content and  *)
(* its updated_at, in whole seconds: the model numbers the seconds that    *)
(* saw a commit, and two commits of one second can give the same text.     *)
(* How a command reaches the headset is BmapSession's subject; here it     *)
(* commits some value, or none.                                            *)
(***************************************************************************)
EXTENDS Naturals, Sequences, FiniteSets

CONSTANTS
    Clients,    \* connections to the socket; each may be made again
    Values,     \* what the status may say
    Unlinked,   \* what it says when the daemon starts: not connected
    NoValue,
    NoClient,
    Verbs,      \* the requests clients make
    Activated,  \* TRUE: systemd holds the listening socket
    SameSecond, \* TRUE: two commits may carry the same updated_at
    HalfClosers,\* clients that may end their sending side alone (socat)
    Pipe,       \* lines a socket buffer holds
    MaxOut,     \* lines in maxOutBuffer_
    MaxOps,     \* bound on the requests and restarts
    MaxChanges  \* bound on the commits

Acked == {"unsubscribe", "set", "long"}

ASSUME IpcAssumption ==
    /\ NoClient \notin Clients
    /\ Unlinked \in Values /\ NoValue \notin Values
    /\ Verbs \subseteq Acked \cup {"subscribe", "status"}
    /\ Activated \in BOOLEAN /\ SameSecond \in BOOLEAN
    /\ HalfClosers \subseteq Clients
    /\ Pipe \in Nat \ {0} /\ MaxOut \in Nat \ {0}
    /\ MaxOps \in Nat /\ MaxChanges \in Nat

VARIABLES
    \* the kernel's side of each connection
    peer,       \* the client "gone", "here", or done sending ("half")
    toServer,   \* requests the daemon has not read
    toClient,   \* replies the client has not read
    \* IpcServer
    session,    \* "none", in the listen "backlog", or "open" (in clients_)
    subscribed,
    out,        \* outBuffer
    \* StateEngine
    status,
    \* the event loop
    phase,      \* "poll", "serve", "after"
    knock,      \* the poll reported the listening socket
    revents,    \* what it reported of each session, and is not handled yet
    reading,    \* the client whose requests are being read
    published,  \* lastPublishedStatus
    \* history, read by the properties only
    told,       \* the last status queued for a session
    heard,      \* the last status its client read
    owed,       \* acknowledgements the client waits for
    starts,     \* how often the daemon was started
    \* bounds
    ops,
    changes

clientVars == <<peer, heard, owed>>
serverVars == <<session, subscribed, out, told>>
loopVars   == <<phase, knock, revents, reading>>
stateVars  == <<status, changes>>
boundVars  == <<ops, starts>>
vars == <<clientVars, toServer, toClient, serverVars, loopVars, stateVars,
          published, boundVars>>

Statuses == [val : Values, at : 0..MaxChanges]
NoStatus == [val |-> NoValue, at |-> 0]
Lines == [kind : {"push", "answer", "ack"}, body : Statuses \cup {NoStatus}]

Push(s)   == [kind |-> "push", body |-> s]
Answer(s) == [kind |-> "answer", body |-> s]
Ack       == [kind |-> "ack", body |-> NoStatus]

TypeOK ==
    /\ peer \in [Clients -> {"gone", "here", "half"}]
    /\ toServer \in [Clients -> Seq(Verbs)]
    /\ toClient \in [Clients -> Seq(Lines)]
    /\ session \in [Clients -> {"none", "backlog", "open"}]
    /\ subscribed \in [Clients -> BOOLEAN]
    /\ out \in [Clients -> Seq(Lines)]
    /\ status \in Statuses /\ status.at <= changes
    /\ phase \in {"poll", "serve", "after"} /\ knock \in BOOLEAN
    /\ revents \in [Clients -> SUBSET {"in", "out", "hup"}]
    /\ reading \in Clients \cup {NoClient}
    /\ published \in Statuses \cup {NoStatus}
    /\ told \in [Clients -> Statuses \cup {NoStatus}]
    /\ heard \in [Clients -> Statuses \cup {NoStatus}]
    /\ owed \in [Clients -> Nat]
    /\ ops \in 0..MaxOps /\ starts \in 1..MaxOps + 1
    /\ changes \in 0..MaxChanges

Nobody == [c \in Clients |-> {}]

Init ==
    /\ peer = [c \in Clients |-> "gone"]
    /\ toServer = [c \in Clients |-> <<>>]
    /\ toClient = [c \in Clients |-> <<>>]
    /\ session = [c \in Clients |-> "none"]
    /\ subscribed = [c \in Clients |-> FALSE]
    /\ out = [c \in Clients |-> <<>>]
    /\ status = [val |-> Unlinked, at |-> 0]
    /\ phase = "poll" /\ knock = FALSE
    /\ revents = Nobody /\ reading = NoClient
    /\ published = NoStatus
    /\ told = [c \in Clients |-> NoStatus]
    /\ heard = [c \in Clients |-> NoStatus]
    /\ owed = [c \in Clients |-> 0]
    /\ starts = 1 /\ ops = 0 /\ changes = 0

-----------------------------------------------------------------------------
(* Sessions *)

Cleared(f, S, empty) == [c \in Clients |-> IF c \in S THEN empty ELSE f[c]]

\* closeClient; what the kernel already holds for the client stays readable
Close(S) ==
    /\ session' = Cleared(session, S, "none")
    /\ subscribed' = Cleared(subscribed, S, FALSE)
    /\ toServer' = Cleared(toServer, S, <<>>)
    /\ out' = Cleared(out, S, <<>>)
    /\ told' = Cleared(told, S, NoStatus)

\* how many lines of q the socket takes before EAGAIN
Taken(c, q) ==
    IF Len(toClient[c]) + Len(q) <= Pipe THEN Len(q) ELSE Pipe - Len(toClient[c])
Sent(c, q) == SubSeq(q, 1, Taken(c, q))
\* Mutation: what the socket does not take is forgotten.
UnsentForgets(c, q) == <<>>

Unsent(c, q) == SubSeq(q, Taken(c, q) + 1, Len(q))

\* flushClientOutBuffer
Flush(c, q) ==
    /\ toClient' = [toClient EXCEPT ![c] = @ \o Sent(c, q)]
    /\ out' = [out EXCEPT ![c] = Unsent(c, q)]

\* queueResponse to the request at the head; a send to a client that is
\* gone fails, and the session with it
Reply(c, line, on) ==
    \/ /\ peer[c] = "gone"
       /\ Close({c}) /\ reading' = NoClient
       /\ UNCHANGED toClient
    \/ /\ peer[c] # "gone"
       /\ Flush(c, Append(out[c], line))
       /\ toServer' = [toServer EXCEPT ![c] = Tail(@)]
       /\ subscribed' = [subscribed EXCEPT ![c] = on]
       /\ told' = IF line.kind = "ack" THEN told
                  ELSE [told EXCEPT ![c] = line.body]
       /\ UNCHANGED <<session, reading>>

\* a setter of StateEngine: the new value, stamped with the second
Commit(v) ==
    /\ changes < MaxChanges
    /\ \/ status' = [val |-> v, at |-> status.at + 1]
       \/ SameSecond /\ status' = [val |-> v, at |-> status.at]
    /\ changes' = changes + 1

\* what talking or listening to the headset does to the status
Headset == (\E v \in Values : Commit(v)) \/ UNCHANGED stateVars

-----------------------------------------------------------------------------
(* The event loop *)

\* Mutation: POLLOUT is never asked for.
ReportedNoOut(c) ==
    IF session[c] # "open" THEN {}
    ELSE {e \in {"in", "hup"} :
            \/ e = "in" /\ (toServer[c] # <<>> \/ peer[c] # "here")
            \/ e = "hup" /\ peer[c] = "gone"}

\* appendPollFds and poll: the results are of this moment
Reported(c) ==
    IF session[c] # "open" THEN {}
    ELSE {e \in {"in", "out", "hup"} :
            \/ e = "in" /\ (toServer[c] # <<>> \/ peer[c] # "here")
            \/ e = "out" /\ out[c] # <<>> /\ Len(toClient[c]) < Pipe
            \/ e = "hup" /\ peer[c] = "gone"}

\* poll, and the Bluetooth and bus descriptors, which come first
Poll ==
    /\ phase = "poll" /\ phase' = "serve"
    /\ Headset
    /\ knock' = (\E c \in Clients : session[c] = "backlog")
    /\ revents' = [c \in Clients |-> Reported(c)]
    /\ UNCHANGED <<clientVars, toServer, toClient, serverVars, reading,
                   published, boundVars>>

\* acceptClients: the listening socket comes first and is emptied
Accept ==
    /\ phase = "serve" /\ knock
    /\ knock' = FALSE
    /\ session' = [c \in Clients |->
                     IF session[c] = "backlog" THEN "open" ELSE session[c]]
    /\ UNCHANGED <<clientVars, toServer, toClient, subscribed, out, told, phase,
                   revents, reading, stateVars, published, boundVars>>

\* the descriptors of the sessions, in the order of an unordered_map
Due(c) == phase = "serve" /\ ~knock /\ reading = NoClient /\ revents[c] # {}

\* a client that hung up is dropped with the requests it left
HangUp(c) ==
    /\ Due(c) /\ "hup" \in revents[c]
    /\ Close({c})
    /\ revents' = [revents EXCEPT ![c] = {}]
    /\ UNCHANGED <<clientVars, toClient, phase, knock, reading, stateVars,
                   published, boundVars>>

\* handleClientWrite
Write(c) ==
    /\ Due(c) /\ "hup" \notin revents[c] /\ "out" \in revents[c]
    /\ \/ /\ peer[c] = "gone"
          /\ Close({c})
          /\ revents' = [revents EXCEPT ![c] = {}]
          /\ UNCHANGED toClient
       \/ /\ peer[c] # "gone"
          /\ Flush(c, out[c])
          /\ revents' = [revents EXCEPT ![c] = @ \ {"out"}]
          /\ UNCHANGED <<session, subscribed, toServer, told>>
    /\ UNCHANGED <<clientVars, phase, knock, reading, stateVars, published, boundVars>>

\* handleClientRead: its loop ends when the socket is empty
Read(c) ==
    /\ Due(c) /\ revents[c] = {"in"}
    /\ reading' = c
    /\ revents' = [revents EXCEPT ![c] = {}]
    /\ UNCHANGED <<clientVars, toServer, toClient, serverVars, phase, knock,
                   stateVars, published, boundVars>>

Request(c, verb) ==
    reading = c /\ toServer[c] # <<>> /\ Head(toServer[c]) = verb

Subscribe(c) ==
    /\ Request(c, "subscribe")
    /\ Reply(c, Answer(status), TRUE)
    /\ UNCHANGED <<clientVars, phase, knock, revents, stateVars, published, boundVars>>

Unsubscribe(c) ==
    /\ Request(c, "unsubscribe")
    /\ Reply(c, Ack, FALSE)
    /\ UNCHANGED <<clientVars, phase, knock, revents, stateVars, published, boundVars>>

Status(c) ==
    /\ Request(c, "status")
    /\ Reply(c, Answer(status), subscribed[c])
    /\ UNCHANGED <<clientVars, phase, knock, revents, stateVars, published, boundVars>>

\* Mutation: a refused command is not answered.
SetSilent(c) ==
    /\ Request(c, "set")
    /\ \/ Headset /\ Reply(c, Ack, subscribed[c])
       \/ /\ toServer' = [toServer EXCEPT ![c] = Tail(@)]
          /\ UNCHANGED <<stateVars, toClient, serverVars, reading>>
    /\ UNCHANGED <<clientVars, phase, knock, revents, published, boundVars>>

\* cnc, eq, sidetone, prompts, multipoint, reconnect: accepted or refused,
\* each is acknowledged
Set(c) ==
    /\ Request(c, "set")
    /\ Headset
    /\ Reply(c, Ack, subscribed[c])
    /\ UNCHANGED <<clientVars, phase, knock, revents, published, boundVars>>

\* Mutation: the line is thrown away, the session goes on.
TooLongSkips(c) ==
    /\ Request(c, "long")
    /\ toServer' = [toServer EXCEPT ![c] = Tail(@)]
    /\ UNCHANGED <<clientVars, toClient, serverVars, loopVars, stateVars,
                   published, boundVars>>

\* a line over maxLineLength_: an error, as far as it can be sent, and the end
TooLong(c) ==
    /\ Request(c, "long")
    /\ toClient' = IF peer[c] = "gone" THEN toClient
                   ELSE [toClient EXCEPT ![c] = @ \o Sent(c, Append(out[c], Ack))]
    /\ Close({c}) /\ reading' = NoClient
    /\ UNCHANGED <<clientVars, phase, knock, revents, stateVars, published, boundVars>>

\* recv has nothing more: EAGAIN, or the end of the client's sending side
ReadEnd(c) ==
    /\ reading = c /\ toServer[c] = <<>> /\ reading' = NoClient
    /\ \/ peer[c] = "here" /\ UNCHANGED <<serverVars, toServer>>
       \/ peer[c] # "here" /\ Close({c})
    /\ UNCHANGED <<clientVars, toClient, phase, knock, revents, stateVars,
                   published, boundVars>>

\* all results worked off: the tick and the refresh
Served ==
    /\ phase = "serve" /\ ~knock /\ reading = NoClient /\ revents = Nobody
    /\ phase' = "after"
    /\ Headset
    /\ UNCHANGED <<clientVars, toServer, toClient, serverVars, knock, revents,
                   reading, published, boundVars>>

\* Mutation: a subscriber with unsent lines is left for the next change.
SubscribersAtEase == {c \in Clients : subscribed[c] /\ out[c] = <<>>}

Subscribers == {c \in Clients : subscribed[c]}
\* Mutation: the queue has no limit.
StalledNever(c) == subscribed[c] /\ peer[c] = "gone"

\* Mutation: the limit is off by one.
StalledEarly(c) == subscribed[c] /\ (Len(out[c]) + 1 >= MaxOut \/ peer[c] = "gone")

\* a subscriber that does not drain its queue, or whose socket is broken
Stalled(c) == subscribed[c] /\ (Len(out[c]) + 1 > MaxOut \/ peer[c] = "gone")

\* broadcastStatus
Broadcast(s) ==
    LET dropped == {c \in Subscribers : Stalled(c)}
        pushed  == Subscribers \ dropped
        queue(c) == Append(out[c], Push(s))
    IN /\ session' = Cleared(session, dropped, "none")
       /\ subscribed' = Cleared(subscribed, dropped, FALSE)
       /\ toServer' = Cleared(toServer, dropped, <<>>)
       /\ out' = [c \in Clients |-> IF c \in pushed THEN Unsent(c, queue(c))
                                    ELSE Cleared(out, dropped, <<>>)[c]]
       /\ toClient' = [c \in Clients |->
                         IF c \in pushed THEN toClient[c] \o Sent(c, queue(c))
                         ELSE toClient[c]]
       /\ told' = [c \in Clients |-> IF c \in pushed THEN s
                                     ELSE Cleared(told, dropped, NoStatus)[c]]

\* Mutation: the text compared with, not the new one, is pushed.
PublishOld ==
    /\ phase = "after" /\ phase' = "poll"
    /\ \/ /\ Subscribers # {} /\ status # published
          /\ published' = status
          /\ Broadcast(published)
       \/ /\ Subscribers = {} \/ status = published
          /\ UNCHANGED <<published, serverVars, toServer, toClient>>
    /\ UNCHANGED <<clientVars, knock, revents, reading, stateVars, boundVars>>

Publish ==
    /\ phase = "after" /\ phase' = "poll"
    /\ \/ /\ Subscribers # {} /\ status # published
          /\ published' = status
          /\ Broadcast(status)
       \/ /\ Subscribers = {} \/ status = published
          /\ UNCHANGED <<published, serverVars, toServer, toClient>>
    /\ UNCHANGED <<clientVars, knock, revents, reading, stateVars, boundVars>>

\* start adopts the socket that systemd holds, with those waiting in it
Inherited(c) == Activated /\ session[c] = "backlog"

\* stop or a crash, and the next start
Restart ==
    /\ ops < MaxOps /\ ops' = ops + 1
    /\ starts' = starts + 1
    /\ Close({c \in Clients : ~Inherited(c)})
    /\ status' = [val |-> Unlinked, at |-> status.at]
    /\ phase' = "poll" /\ knock' = FALSE
    /\ revents' = Nobody /\ reading' = NoClient
    /\ published' = NoStatus
    /\ UNCHANGED <<clientVars, toClient, changes>>

-----------------------------------------------------------------------------
(* The clients *)

Connect(c) ==
    /\ session[c] = "none" /\ peer[c] = "gone"
    /\ session' = [session EXCEPT ![c] = "backlog"]
    /\ peer' = [peer EXCEPT ![c] = "here"]
    /\ heard' = [heard EXCEPT ![c] = NoStatus]
    /\ owed' = [owed EXCEPT ![c] = 0]
    /\ UNCHANGED <<toServer, toClient, subscribed, out, told, loopVars,
                   stateVars, published, boundVars>>

SendRequest(c, verb) ==
    /\ session[c] # "none" /\ peer[c] = "here" /\ Len(toServer[c]) < Pipe
    /\ ops < MaxOps /\ ops' = ops + 1
    /\ toServer' = [toServer EXCEPT ![c] = Append(@, verb)]
    /\ owed' = [owed EXCEPT ![c] = IF verb \in Acked THEN @ + 1 ELSE @]
    /\ UNCHANGED <<peer, heard, toClient, serverVars, loopVars, stateVars,
                   published, starts>>

ReadReply(c) ==
    /\ peer[c] # "gone" /\ toClient[c] # <<>>
    /\ toClient' = [toClient EXCEPT ![c] = Tail(@)]
    /\ LET line == Head(toClient[c])
       IN /\ heard' = IF line.kind = "ack" THEN heard
                      ELSE [heard EXCEPT ![c] = line.body]
          /\ owed' = IF line.kind = "ack" THEN [owed EXCEPT ![c] = @ - 1] ELSE owed
    /\ UNCHANGED <<peer, toServer, serverVars, loopVars, stateVars, published,
                   boundVars>>

Leave(c) ==
    /\ peer[c] # "gone"
    /\ peer' = [peer EXCEPT ![c] = "gone"]
    /\ toClient' = [toClient EXCEPT ![c] = <<>>]
    /\ UNCHANGED <<heard, owed, toServer, serverVars, loopVars, stateVars,
                   published, boundVars>>

ShutDownSending(c) ==
    /\ c \in HalfClosers /\ peer[c] = "here"
    /\ peer' = [peer EXCEPT ![c] = "half"]
    /\ UNCHANGED <<heard, owed, toServer, toClient, serverVars, loopVars,
                   stateVars, published, boundVars>>

-----------------------------------------------------------------------------

Loop ==
    \/ Poll \/ Accept \/ Served \/ Publish
    \/ \E c \in Clients : \/ HangUp(c) \/ Write(c) \/ Read(c)
                          \/ Subscribe(c) \/ Unsubscribe(c) \/ Status(c)
                          \/ Set(c) \/ TooLong(c) \/ ReadEnd(c)

Next ==
    \/ Loop
    \/ Restart
    \/ \E c \in Clients : \/ Connect(c) \/ ReadReply(c)
                          \/ Leave(c) \/ ShutDownSending(c)
                          \/ \E verb \in Verbs : SendRequest(c, verb)

Spec == Init /\ [][Next]_vars

\* the daemon's thread goes on, and a client that is there reads
FairSpec ==
    /\ Spec
    /\ WF_vars(Loop)
    /\ \A c \in Clients : WF_vars(ReadReply(c))

-----------------------------------------------------------------------------
(* Properties *)

\* how many entries of a queue are in a set
Count(q, S) == Cardinality({i \in DOMAIN q : q[i] \in S})

AckLines == {line \in Lines : line.kind = "ack"}
Acks(q) == Count(q, AckLines)
Asks(q) == Count(q, Acked)
Pushes(q) == Count(q, {Push(s) : s \in Statuses})

\* README.md:232 and IpcServer.hpp:33: between two turns, what a subscriber
\* was last given is the status of now, whichever turns it subscribed,
\* asked or was skipped in.
SubscribersCurrent ==
    phase = "poll" =>
      \A c \in Clients : subscribed[c] => told[c] = status

\* Service.qml counts {"ok":...} lines to know when to give up: while a
\* connection lasts, each acknowledgement it waits for is on its way back,
\* or its request is on its way there. None is lost, doubled or withheld.
AcksAccountedFor ==
    \A c \in Clients :
      session[c] # "none" /\ peer[c] # "gone" =>
        owed[c] = Asks(toServer[c]) + Acks(out[c]) + Acks(toClient[c])

\* IpcServer.cpp:447: pushes alone never fill a queue past the limit,
\* whatever a subscriber leaves unread.
PushesBounded ==
    \A c \in Clients : Pushes(out[c]) <= MaxOut

\* A client that stays, in the backlog or in a session, loses its
\* connection for a long line, for a queue it does not drain or for a
\* restart, and for nothing another client does.
ClosesForCause ==
    \A c \in Clients :
      session[c] # "none" /\ session'[c] = "none" =>
        \/ peer[c] # "here"
        \/ toServer[c] # <<>> /\ Head(toServer[c]) = "long"
        \/ subscribed[c] /\ Len(out[c]) + 1 > MaxOut
        \/ starts' # starts /\ (session[c] = "open" \/ ~Activated)
ClosedForCause == [][ClosesForCause]_vars

\* Pushes and answers share one queue: on one connection a client never
\* reads an older status after a newer one.
NeverBackwards ==
    [][\A c \in Clients :
         peer[c] # "gone" => heard'[c].at >= heard[c].at]_vars

Feed == INSTANCE StatusFeed WITH
    now    <- status,
    there  <- {c \in Clients : peer[c] # "gone"},
    served <- {c \in Clients : peer[c] # "gone" /\ session[c] # "none"},
    subs   <- {c \in Clients : peer[c] # "gone" /\ subscribed[c]},
    asked  <- [c \in Clients |-> IF peer[c] = "gone" THEN <<>> ELSE toServer[c]],
    feed   <- [c \in Clients |-> IF peer[c] = "gone" THEN <<>>
                                 ELSE toClient[c] \o out[c]],
    heard  <- heard

\* README.md:228-240: buffers that fill, half-drained queues, commands and
\* pushes in any turn together are one feed per connection.  Whoever is served
\* has its requests answered once, in order, each in its kind; it loses no
\* line, and each status in it is that of the moment it was said.
ImplementsFeed == Feed!FeedSpec

\* Every request that wants an acknowledgement gets it, or the connection
\* ends.
AcksArrive ==
    \A c \in Clients :
      owed[c] > 0 ~> (owed[c] = 0 \/ session[c] = "none" \/ peer[c] = "gone")

\* Once the headset and the clients come to rest, whoever is subscribed
\* has read the status of now.
SubscribersConverge ==
    \A c \in Clients :
      <>[](subscribed[c] /\ peer[c] = "here" => heard[c] = status)
=============================================================================
