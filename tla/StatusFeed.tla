----------------------------- MODULE StatusFeed -----------------------------
(***************************************************************************)
(* What the socket of bose-700-daemon promises to those connected to it:   *)
(* requests are taken in the order they were made, each is answered once,  *)
(* by a line of its kind, and the answers and the pushes to a subscriber   *)
(* are one feed, read from the front.  A status in it is the one that the  *)
(* daemon had when it said the line.  While the daemon serves a connection *)
(* it takes nothing back; the end of service costs the requests not yet    *)
(* answered and perhaps the last lines, never one in the middle.           *)
(* IpcServer implements it with queues, socket buffers and poll.           *)
(***************************************************************************)
EXTENDS Naturals, Sequences

CONSTANTS
    Clients,
    Verbs,      \* the requests
    Statuses,   \* records, with the second of the commit in their field at
    NoStatus    \* what a client has heard on a new connection

VARIABLES
    now,        \* the status the daemon has
    there,      \* clients on their side of a connection
    served,     \* those of them that the daemon has not given up
    subs,       \* those of these that asked for pushes
    asked,      \* requests that are not answered yet
    feed,       \* lines on their way to each client
    heard       \* the last status each has read

feedVars == <<now, there, served, subs, asked, feed, heard>>

Push(s)   == [kind |-> "push", body |-> s]
Answer(s) == [kind |-> "answer", body |-> s]
Ack       == [kind |-> "ack", body |-> NoStatus]

FeedInit ==
    /\ now \in Statuses
    /\ there = {} /\ served = {} /\ subs = {}
    /\ asked = [c \in Clients |-> <<>>]
    /\ feed = [c \in Clients |-> <<>>]
    /\ heard = [c \in Clients |-> NoStatus]

\* what c may see of a step while it is served
Quiet(c) ==
    /\ feed'[c] = feed[c] /\ asked'[c] = asked[c]
    /\ c \in subs' <=> c \in subs

Pushed(c) ==
    /\ c \in subs /\ c \in subs'
    /\ feed'[c] = Append(feed[c], Push(now'))
    /\ asked'[c] = asked[c]

Reply(verb, s) == IF verb \in {"subscribe", "status"} THEN Answer(s) ELSE Ack

Replied(c) ==
    /\ asked[c] # <<>> /\ asked'[c] = Tail(asked[c])
    /\ feed'[c] = Append(feed[c], Reply(Head(asked[c]), now'))
    /\ c \in subs' <=> \/ Head(asked[c]) = "subscribe"
                       \/ c \in subs /\ Head(asked[c]) # "unsubscribe"

\* c is given up, perhaps with a last word
Dropped(c) ==
    /\ c \notin subs' /\ asked'[c] = <<>>
    /\ \E n \in 0..Len(feed[c]) + 1 : feed'[c] = SubSeq(Append(feed[c], Ack), 1, n)

\* c is not served: nothing is added to what is left for it
Ignored(c) ==
    /\ c \notin subs'
    /\ feed'[c] = feed[c] /\ asked'[c] = asked[c]

\* the daemon's status moves on, and it serves whom it likes
Speak ==
    /\ now' \in Statuses /\ now'.at >= now.at
    /\ served' \subseteq served
    /\ DOMAIN feed' = Clients /\ DOMAIN asked' = Clients
    /\ \A c \in Clients :
         \/ c \in served' /\ (Quiet(c) \/ Pushed(c) \/ Replied(c))
         \/ c \in served \ served' /\ Dropped(c)
         \/ c \notin served /\ Ignored(c)
    /\ UNCHANGED <<there, heard>>

Connect(c) ==
    /\ c \notin there
    /\ there' = there \cup {c} /\ served' = served \cup {c}
    /\ heard' = [heard EXCEPT ![c] = NoStatus]
    /\ UNCHANGED <<now, subs, asked, feed>>

Ask(c, verb) ==
    /\ c \in served
    /\ asked' = [asked EXCEPT ![c] = Append(@, verb)]
    /\ UNCHANGED <<now, there, served, subs, feed, heard>>

Hear(c) ==
    /\ c \in there /\ feed[c] # <<>>
    /\ feed' = [feed EXCEPT ![c] = Tail(@)]
    /\ heard' = [heard EXCEPT ![c] = IF Head(feed[c]).kind = "ack" THEN @
                                     ELSE Head(feed[c]).body]
    /\ UNCHANGED <<now, there, served, subs, asked>>

Leave(c) ==
    /\ c \in there
    /\ there' = there \ {c} /\ served' = served \ {c} /\ subs' = subs \ {c}
    /\ asked' = [asked EXCEPT ![c] = <<>>]
    /\ feed' = [feed EXCEPT ![c] = <<>>]
    /\ UNCHANGED <<now, heard>>

FeedNext ==
    \/ Speak
    \/ \E c \in Clients : \/ Connect(c) \/ Hear(c) \/ Leave(c)
                          \/ \E verb \in Verbs : Ask(c, verb)

FeedSpec == FeedInit /\ [][FeedNext]_feedVars
=============================================================================
