-------------------------- MODULE IpcServerProofs --------------------------
(* What the sessions of IpcServer keep, for any number of clients, any     *)
(* buffer sizes and any number of commits.                                 *)
EXTENDS IpcServer, TLAPS, FiniteSetTheorems, SequenceTheorems

(***************************************************************************)
(* The loop's own bookkeeping.  A descriptor poll reported, or one being   *)
(* read, belongs to a session that is still in clients_; no session is     *)
(* subscribed without being there; a reported hang-up is final; and all    *)
(* results are worked off when a turn ends.                                *)
(***************************************************************************)
ShapeOK ==
    /\ session \in [Clients -> {"none", "backlog", "open"}]
    /\ peer \in [Clients -> {"gone", "here", "half"}]
    /\ subscribed \in [Clients -> BOOLEAN]
    /\ revents \in [Clients -> SUBSET {"in", "out", "hup"}]
    /\ reading \in Clients \cup {NoClient}
    /\ phase \in {"poll", "serve", "after"}
    /\ DOMAIN told = Clients
    /\ status.at \in Nat /\ published.at \in Nat

LoopInv ==
    /\ ShapeOK
    /\ \A c \in Clients :
         /\ revents[c] # {} => session[c] = "open"
         /\ reading = c => session[c] = "open" /\ revents[c] = {}
         /\ subscribed[c] => session[c] = "open"
         /\ "hup" \in revents[c] => peer[c] = "gone"
    /\ phase # "serve" => reading = NoClient /\ revents = Nobody

(***************************************************************************)
(* A subscriber was last given the status of now, unless the status is not *)
(* the one last pushed, so that the end of the turn will push it.  A push  *)
(* is never of a later second than the status.                             *)
(***************************************************************************)
CurrentInv ==
    /\ published.at <= status.at
    /\ \A c \in Clients :
         subscribed[c] => told[c] = status \/ (status # published /\ phase # "poll")

LEMMA LoopStart == Init => LoopInv /\ CurrentInv
BY IpcAssumption DEF Init, LoopInv, ShapeOK, CurrentInv, Nobody, NoStatus

\* What Close leaves of a session.
LEMMA Closing ==
    ASSUME LoopInv, NEW S \in SUBSET Clients, Close(S)
    PROVE  /\ session' \in [Clients -> {"none", "backlog", "open"}]
           /\ subscribed' \in [Clients -> BOOLEAN]
           /\ DOMAIN told' = Clients
           /\ \A c \in Clients :
                /\ c \in S => session'[c] = "none" /\ ~subscribed'[c]
                /\ c \notin S => /\ session'[c] = session[c]
                                 /\ subscribed'[c] = subscribed[c]
                                 /\ told'[c] = told[c]
BY DEF Close, Cleared, LoopInv, ShapeOK

\* What answering a request may do: the session ends, or it goes on as said.
LEMMA Replying ==
    ASSUME LoopInv, NEW c \in Clients, NEW line, NEW on \in BOOLEAN,
           reading = c, Reply(c, line, on)
    PROVE  \/ /\ Close({c}) /\ reading' = NoClient /\ peer[c] = "gone"
           \/ /\ session' = session /\ reading' = reading
              /\ subscribed' = [subscribed EXCEPT ![c] = on]
              /\ told' = IF line.kind = "ack" THEN told
                         ELSE [told EXCEPT ![c] = line.body]
BY DEF Reply

LEMMA Committing ==
    ASSUME LoopInv, CurrentInv, ~SameSecond, Headset
    PROVE  /\ status'.at \in Nat
           /\ status'.at >= status.at
           /\ status' = status \/ status'.at > published.at
BY DEF Headset, Commit, LoopInv, ShapeOK, CurrentInv, stateVars


\* What a push does to each session.
LEMMA Broadcasting ==
    ASSUME LoopInv, NEW s, Broadcast(s)
    PROVE  /\ session' \in [Clients -> {"none", "backlog", "open"}]
           /\ subscribed' \in [Clients -> BOOLEAN]
           /\ DOMAIN told' = Clients
           /\ \A c \in Clients :
                \/ Stalled(c) /\ session'[c] = "none" /\ ~subscribed'[c]
                \/ /\ session'[c] = session[c]
                   /\ subscribed'[c] = subscribed[c]
                   /\ subscribed[c] => told'[c] = s
<1> DEFINE dropped == {c \in Subscribers : Stalled(c)}
<1>1. /\ session' = Cleared(session, dropped, "none")
      /\ subscribed' = Cleared(subscribed, dropped, FALSE)
      /\ told' = [c \in Clients |-> IF c \in Subscribers \ dropped THEN s
                                    ELSE Cleared(told, dropped, NoStatus)[c]]
  BY Zenon DEF Broadcast
<1>2. /\ session' \in [Clients -> {"none", "backlog", "open"}]
      /\ subscribed' \in [Clients -> BOOLEAN]
      /\ DOMAIN told' = Clients
  BY <1>1 DEF LoopInv, ShapeOK, Cleared
<1>3. ASSUME NEW c \in Clients, c \in dropped
      PROVE  Stalled(c) /\ session'[c] = "none" /\ ~subscribed'[c]
  BY <1>1, <1>3 DEF Cleared
<1>4. ASSUME NEW c \in Clients, c \notin dropped
      PROVE  /\ session'[c] = session[c]
             /\ subscribed'[c] = subscribed[c]
             /\ subscribed[c] => told'[c] = s
  <2>1. session'[c] = session[c] /\ subscribed'[c] = subscribed[c]
    BY <1>1, <1>4 DEF Cleared
  <2>2. subscribed[c] => c \in Subscribers \ dropped
    BY <1>4 DEF Subscribers
  <2>3. c \in Subscribers \ dropped => told'[c] = s
    BY <1>1
  <2> QED
    BY <1>4, <2>1, <2>2, <2>3
<1> QED
  BY <1>2, <1>3, <1>4

LEMMA LoopStep ==
    ASSUME LoopInv, [Next]_vars
    PROVE  LoopInv'
<1> USE IpcAssumption DEF LoopInv, ShapeOK, Nobody, Due, clientVars, serverVars,
        loopVars, stateVars, boundVars
<1>s. Headset => status'.at \in Nat
  BY DEF Headset, Commit
<1>1. CASE Poll
  BY <1>1, <1>s DEF Poll, Reported
<1>2. CASE Accept
  BY <1>2 DEF Accept
<1>3. CASE Served
  BY <1>3, <1>s DEF Served
<1>4. CASE Publish
  <2>1. CASE Subscribers # {} /\ status # published
    BY <1>4, <2>1, Broadcasting DEF Publish
  <2>2. CASE Subscribers = {} \/ status = published
    BY <1>4, <2>2 DEF Publish
  <2> QED
    BY <1>4, <2>1, <2>2 DEF Publish
<1>5. ASSUME NEW c \in Clients, HangUp(c)
      PROVE  LoopInv'
  BY <1>5, Closing DEF HangUp
<1>6. ASSUME NEW c \in Clients, Write(c)
      PROVE  LoopInv'
  <2>1. CASE peer[c] = "gone"
    BY <1>6, <2>1, Closing DEF Write
  <2>2. CASE peer[c] # "gone"
    BY <1>6, <2>2 DEF Write
  <2> QED
    BY <2>1, <2>2
<1>7. ASSUME NEW c \in Clients, Read(c)
      PROVE  LoopInv'
  BY <1>7 DEF Read
<1>8. ASSUME NEW c \in Clients, NEW line, NEW on \in BOOLEAN, reading = c,
             Reply(c, line, on), status'.at \in Nat,
             UNCHANGED <<peer, phase, knock, revents, published>>
      PROVE  LoopInv'
  <2>1. CASE Close({c}) /\ reading' = NoClient
    BY <1>8, <2>1, Closing
  <2>2. CASE /\ session' = session /\ reading' = reading
             /\ subscribed' = [subscribed EXCEPT ![c] = on]
             /\ told' = IF line.kind = "ack" THEN told
                        ELSE [told EXCEPT ![c] = line.body]
    BY <1>8, <2>2
  <2> QED
    BY <1>8, <2>1, <2>2, Replying
<1>9. ASSUME NEW c \in Clients, Subscribe(c)
      PROVE  LoopInv'
  BY <1>8, <1>9 DEF Subscribe, Request
<1>10. ASSUME NEW c \in Clients, Unsubscribe(c)
       PROVE  LoopInv'
  BY <1>8, <1>10 DEF Unsubscribe, Request
<1>11. ASSUME NEW c \in Clients, Status(c)
       PROVE  LoopInv'
  BY <1>8, <1>11 DEF Status, Request
<1>12. ASSUME NEW c \in Clients, Set(c)
       PROVE  LoopInv'
  BY <1>s, <1>8, <1>12 DEF Set, Request
<1>13. ASSUME NEW c \in Clients, TooLong(c)
       PROVE  LoopInv'
  BY <1>13, Closing DEF TooLong, Request
<1>14. ASSUME NEW c \in Clients, ReadEnd(c)
       PROVE  LoopInv'
  <2>1. CASE Close({c})
    BY <1>14, <2>1, Closing DEF ReadEnd
  <2>2. CASE UNCHANGED serverVars
    BY <1>14, <2>2 DEF ReadEnd
  <2> QED
    BY <1>14, <2>1, <2>2 DEF ReadEnd
<1>15. CASE Restart
  <2>1. \A c \in Clients : ~subscribed'[c] /\ (session'[c] = "open" => FALSE)
    BY <1>15, Closing DEF Restart, Inherited
  <2> QED
    BY <1>15, <2>1, Closing DEF Restart, NoStatus, Inherited
<1>16. ASSUME NEW c \in Clients, Connect(c)
       PROVE  LoopInv'
  BY <1>16 DEF Connect
<1>17. ASSUME NEW c \in Clients, NEW verb \in Verbs, SendRequest(c, verb)
       PROVE  LoopInv'
  BY <1>17 DEF SendRequest
<1>18. ASSUME NEW c \in Clients, ReadReply(c)
       PROVE  LoopInv'
  BY <1>18 DEF ReadReply
<1>19. ASSUME NEW c \in Clients, Leave(c)
       PROVE  LoopInv'
  BY <1>19 DEF Leave
<1>20. ASSUME NEW c \in Clients, ShutDownSending(c)
       PROVE  LoopInv'
  BY <1>20 DEF ShutDownSending
<1>21. CASE UNCHANGED vars
  BY <1>21 DEF vars
<1> QED
  BY <1>1, <1>2, <1>3, <1>4, <1>5, <1>6, <1>7, <1>9, <1>10, <1>11, <1>12, <1>13,
     <1>14, <1>15, <1>16, <1>17, <1>18, <1>19, <1>20, <1>21 DEF Next, Loop

LEMMA CurrentStep ==
    ASSUME ~SameSecond, LoopInv, CurrentInv, [Next]_vars
    PROVE  CurrentInv'
<1> USE DEF Due, clientVars, serverVars, loopVars, stateVars, boundVars
<1>s. ShapeOK /\ status.at \in Nat /\ published.at \in Nat
  BY DEF LoopInv, ShapeOK
<1>i. published.at <= status.at
  BY DEF CurrentInv
<1>h. Headset => /\ status' = status \/ status' # published
                 /\ published.at <= status'.at
  BY <1>s, <1>i, Committing
<1>1. CASE Poll
  BY <1>1, <1>s, <1>i, <1>h DEF Poll, CurrentInv
<1>2. CASE Accept
  BY <1>2 DEF Accept, CurrentInv
<1>3. CASE Served
  BY <1>3, <1>s, <1>i, <1>h DEF Served, CurrentInv
<1>4. CASE Publish
  <2>1. CASE Subscribers # {} /\ status # published
    BY <1>4, <2>1, <1>s, Broadcasting DEF Publish, CurrentInv
  <2>2. CASE Subscribers = {} \/ status = published
    BY <1>4, <2>2 DEF Publish, CurrentInv, Subscribers
  <2> QED
    BY <1>4, <2>1, <2>2 DEF Publish
<1>5. ASSUME NEW c \in Clients, Close({c}),
             UNCHANGED <<status, published, phase>>
      PROVE  CurrentInv'
  BY <1>5, Closing DEF CurrentInv
<1>6. ASSUME UNCHANGED <<subscribed, told, status, published, phase>>
      PROVE  CurrentInv'
  BY <1>6 DEF CurrentInv
<1>7. ASSUME NEW c \in Clients, NEW line, NEW on \in BOOLEAN, reading = c,
             Reply(c, line, on), UNCHANGED <<phase, published>>,
             \/ line.kind # "ack" /\ line.body = status /\ status' = status
             \/ line.kind = "ack" /\ (on => subscribed[c]) /\ Headset
      PROVE  CurrentInv'
  <2>1. phase = "serve"
    BY <1>7, IpcAssumption DEF LoopInv
  <2>2. published.at <= status'.at
    BY <1>i, <1>7, <1>h
  <2>3. \/ status' = status
        \/ status' # published
    BY <1>7, <1>h
  <2>4. CASE Close({c}) /\ reading' = NoClient
    BY <1>7, <2>1, <2>2, <2>3, <2>4, Closing DEF CurrentInv
  <2>5. CASE /\ subscribed' = [subscribed EXCEPT ![c] = on]
             /\ told' = IF line.kind = "ack" THEN told
                        ELSE [told EXCEPT ![c] = line.body]
    BY <1>7, <1>s, <2>1, <2>2, <2>3, <2>5 DEF CurrentInv, ShapeOK
  <2> QED
    BY <1>7, <2>4, <2>5, Replying
<1>8. ASSUME NEW c \in Clients, HangUp(c) \/ TooLong(c)
      PROVE  CurrentInv'
  BY <1>5, <1>8 DEF HangUp, TooLong
<1>9. ASSUME NEW c \in Clients, Write(c)
      PROVE  CurrentInv'
  BY <1>5, <1>6, <1>9 DEF Write
<1>10. ASSUME NEW c \in Clients, ReadEnd(c)
       PROVE  CurrentInv'
  BY <1>5, <1>6, <1>10 DEF ReadEnd
<1>11. ASSUME NEW c \in Clients, Subscribe(c)
       PROVE  CurrentInv'
  BY <1>7, <1>11 DEF Subscribe, Request, Answer
<1>12. ASSUME NEW c \in Clients, Unsubscribe(c)
       PROVE  CurrentInv'
  BY <1>7, <1>12 DEF Unsubscribe, Request, Ack, Headset
<1>13. ASSUME NEW c \in Clients, Status(c)
       PROVE  CurrentInv'
  BY <1>7, <1>s, <1>13 DEF Status, Request, Answer, ShapeOK
<1>14. ASSUME NEW c \in Clients, Set(c)
       PROVE  CurrentInv'
  BY <1>7, <1>s, <1>14 DEF Set, Request, Ack, ShapeOK
<1>15. CASE Restart
  <2>1. \A c \in Clients : ~subscribed'[c]
    BY <1>15, Closing DEF Restart, LoopInv, Inherited
  <2> QED
    BY <1>15, <2>1, <1>s DEF Restart, CurrentInv, NoStatus
<1>16. ASSUME NEW c \in Clients, Read(c) \/ Connect(c) \/ ReadReply(c)
                                 \/ Leave(c) \/ ShutDownSending(c)
       PROVE  CurrentInv'
  BY <1>6, <1>16 DEF Read, Connect, ReadReply, Leave, ShutDownSending
<1>17. ASSUME NEW c \in Clients, NEW verb \in Verbs, SendRequest(c, verb)
       PROVE  CurrentInv'
  BY <1>6, <1>17 DEF SendRequest
<1>18. CASE UNCHANGED vars
  BY <1>6, <1>18 DEF vars
<1> QED
  BY <1>1, <1>2, <1>3, <1>4, <1>8, <1>9, <1>10, <1>11, <1>12, <1>13, <1>14,
     <1>15, <1>16, <1>17, <1>18 DEF Next, Loop

LEMMA LoopCorrect == Spec => []LoopInv
BY LoopStart, LoopStep, PTL DEF Spec

\* However many clients subscribe, ask, stall and leave in whatever turns:
\* as long as no two commits carry the same updated_at, what a subscriber was
\* last given is the status of now whenever the loop goes back to poll. The
\* assumption is needed: with SameSecond = TRUE the run IpcShared fails.
THEOREM SubscribersAreCurrent ==
    ASSUME ~SameSecond
    PROVE  Spec => []SubscribersCurrent
<1>1. Init => CurrentInv
  BY LoopStart
<1>2. LoopInv /\ CurrentInv /\ [Next]_vars => CurrentInv'
  BY CurrentStep
<1>3. CurrentInv => SubscribersCurrent
  BY DEF CurrentInv, SubscribersCurrent
<1> QED
  BY <1>1, <1>2, <1>3, LoopCorrect, PTL DEF Spec

(***************************************************************************)
(* The same without any assumption on time.  What a subscriber was last    *)
(* given is not older than what was last pushed, nor newer than the status *)
(* of now; and when the loop goes back to poll it is of the status's own   *)
(* second.                                                                 *)
(***************************************************************************)
Within(c) ==
    /\ published.at <= told[c].at /\ told[c].at <= status.at
    /\ phase = "poll" => told[c].at = status.at
SecondInv ==
    /\ published.at <= status.at
    /\ \A c \in Clients : subscribed[c] => told[c].at \in Nat /\ Within(c)

LEMMA SecondStep ==
    ASSUME LoopInv, SecondInv, [Next]_vars
    PROVE  SecondInv'
<1> USE DEF Due, clientVars, serverVars, loopVars, stateVars, boundVars
<1>s. ShapeOK /\ status.at \in Nat /\ published.at \in Nat
  BY DEF LoopInv, ShapeOK
<1>i. published.at <= status.at
  BY DEF SecondInv
<1>h. Headset => status'.at \in Nat /\ status.at <= status'.at
  BY <1>s DEF Headset, Commit
<1>1. ASSUME UNCHANGED <<subscribed, told, published>>, Headset, phase' # "poll"
      PROVE  SecondInv'
  BY <1>1, <1>s, <1>i, <1>h DEF SecondInv, Within
<1>2. CASE Poll \/ Served
  BY <1>1, <1>2 DEF Poll, Served
<1>3. CASE Publish
  <2>1. CASE Subscribers # {} /\ status # published
    BY <1>3, <2>1, <1>s, Broadcasting DEF Publish, SecondInv, Within
  <2>2. CASE Subscribers = {} \/ status = published
    <3>1. UNCHANGED <<subscribed, told, published, status>>
      BY <1>3, <2>2 DEF Publish
    <3>2. ASSUME NEW c \in Clients, subscribed[c]
          PROVE  told[c].at = status.at /\ Within(c)
      BY <1>s, <2>2, <3>2 DEF Subscribers, SecondInv, Within
    <3> QED BY <1>i, <1>s, <3>1, <3>2 DEF SecondInv, Within
  <2> QED
    BY <1>3, <2>1, <2>2 DEF Publish
<1>5. ASSUME NEW c \in Clients, Close({c}),
             UNCHANGED <<status, published, phase>>
      PROVE  SecondInv'
  BY <1>5, Closing DEF SecondInv, Within
<1>6. ASSUME UNCHANGED <<subscribed, told, status, published, phase>>
      PROVE  SecondInv'
  BY <1>6 DEF SecondInv, Within
<1>7. ASSUME NEW c \in Clients, NEW line, NEW on \in BOOLEAN, reading = c,
             Reply(c, line, on), UNCHANGED <<phase, published>>,
             \/ line.kind # "ack" /\ line.body = status /\ status' = status
             \/ line.kind = "ack" /\ (on => subscribed[c]) /\ Headset
      PROVE  SecondInv'
  <2>1. phase' = "serve" /\ phase = "serve"
    BY <1>7, IpcAssumption DEF LoopInv
  <2>2. status'.at \in Nat /\ status.at <= status'.at
    BY <1>7, <1>h, <1>s
  <2>3. CASE Close({c}) /\ reading' = NoClient
    BY <1>7, <1>s, <1>i, <2>1, <2>2, <2>3, Closing DEF SecondInv, Within
  <2>4. CASE /\ subscribed' = [subscribed EXCEPT ![c] = on]
             /\ told' = IF line.kind = "ack" THEN told
                        ELSE [told EXCEPT ![c] = line.body]
    <3>1. SUFFICES ASSUME NEW d \in Clients, subscribed'[d]
                   PROVE  told'[d].at \in Nat /\ Within(d)'
      BY <1>7, <1>s, <1>i, <2>2 DEF SecondInv
    <3>2. \/ told'[d] = told[d] /\ subscribed[d]
          \/ told'[d] = status /\ status' = status
      BY <1>7, <1>s, <2>4, <3>1 DEF ShapeOK
    <3> QED BY <1>7, <1>s, <1>i, <2>1, <2>2, <3>2 DEF SecondInv, Within
  <2> QED
    BY <1>7, <2>3, <2>4, Replying
<1>8. ASSUME NEW c \in Clients, HangUp(c) \/ TooLong(c)
      PROVE  SecondInv'
  BY <1>5, <1>8 DEF HangUp, TooLong
<1>9. ASSUME NEW c \in Clients, Write(c)
      PROVE  SecondInv'
  BY <1>5, <1>6, <1>9 DEF Write
<1>10. ASSUME NEW c \in Clients, ReadEnd(c)
       PROVE  SecondInv'
  BY <1>5, <1>6, <1>10 DEF ReadEnd
<1>11. ASSUME NEW c \in Clients, Subscribe(c)
       PROVE  SecondInv'
  BY <1>7, <1>11 DEF Subscribe, Request, Answer
<1>12. ASSUME NEW c \in Clients, Unsubscribe(c)
       PROVE  SecondInv'
  BY <1>7, <1>12 DEF Unsubscribe, Request, Ack, Headset
<1>13. ASSUME NEW c \in Clients, Status(c)
       PROVE  SecondInv'
  BY <1>7, <1>s, <1>13 DEF Status, Request, Answer, ShapeOK
<1>14. ASSUME NEW c \in Clients, Set(c)
       PROVE  SecondInv'
  BY <1>7, <1>s, <1>14 DEF Set, Request, Ack, ShapeOK
<1>15. CASE Restart
  <2>1. \A c \in Clients : ~subscribed'[c]
    BY <1>15, Closing DEF Restart, LoopInv, Inherited
  <2> QED
    BY <1>15, <2>1, <1>s DEF Restart, SecondInv, NoStatus
<1>16. ASSUME NEW c \in Clients, Read(c) \/ Connect(c) \/ ReadReply(c)
                                 \/ Leave(c) \/ ShutDownSending(c)
       PROVE  SecondInv'
  BY <1>6, <1>16 DEF Read, Connect, ReadReply, Leave, ShutDownSending
<1>17. ASSUME NEW c \in Clients, NEW verb \in Verbs, SendRequest(c, verb)
       PROVE  SecondInv'
  BY <1>6, <1>17 DEF SendRequest
<1>18. CASE Accept \/ UNCHANGED vars
  BY <1>6, <1>18 DEF Accept, vars
<1> QED
  BY <1>2, <1>3, <1>8, <1>9, <1>10, <1>11, <1>12, <1>13, <1>14, <1>15, <1>16,
     <1>17, <1>18 DEF Next, Loop

\* With commits that may give the same text, the exception SubscribersAreCurrent
\* excludes, a subscriber can be left with a status that is over; but it is
\* never one of an earlier second than the status of now.
THEOREM SubscribersWithinTheSecond ==
    Spec => [](phase = "poll" =>
                 \A c \in Clients : subscribed[c] => told[c].at = status.at)
<1>1. Init => SecondInv
  BY DEF Init, SecondInv, NoStatus
<1>2. LoopInv /\ SecondInv /\ [Next]_vars => SecondInv'
  BY SecondStep
<1>3. SecondInv => (phase = "poll" =>
                      \A c \in Clients : subscribed[c] => told[c].at = status.at)
  BY DEF SecondInv, Within
<1> QED
  BY <1>1, <1>2, <1>3, LoopCorrect, PTL DEF Spec

\* No step of the daemon takes a connection from a client that keeps its side
\* open, drains its queue and sends no long line, whatever the others do, until
\* the daemon is restarted; and with systemd's socket not even then if the
\* connection still waits to be accepted.
THEOREM ConnectionsAreKept == Spec => ClosedForCause
<1> DEFINE Cause(c) == \/ peer[c] # "here"
                       \/ toServer[c] # <<>> /\ Head(toServer[c]) = "long"
                       \/ subscribed[c] /\ Len(out[c]) + 1 > MaxOut
                       \/ /\ starts' # starts
                          /\ session[c] = "open" \/ ~Activated
<1>1. ASSUME LoopInv, [Next]_vars, NEW c \in Clients,
             session[c] # "none", session'[c] = "none"
      PROVE  Cause(c)
  <2> USE DEF Due, clientVars, serverVars, loopVars, stateVars, boundVars
  <2>1. CASE session' = session
    BY <1>1, <2>1
  <2>2. CASE Accept
    BY <1>1, <2>2 DEF Accept, LoopInv, ShapeOK
  <2>3. CASE Publish
    <3>1. CASE Broadcast(status)
      BY <1>1, <3>1, Broadcasting DEF Stalled
    <3>2. CASE UNCHANGED serverVars
      BY <1>1, <3>2
    <3> QED
      BY <2>3, <3>1, <3>2 DEF Publish
  <2>4. ASSUME NEW d \in Clients, Close({d}), peer[d] = "gone"
        PROVE  Cause(c)
    <3>1. d = c
      BY <1>1, <2>4, Closing
    <3> QED
      BY <2>4, <3>1
  <2>5. ASSUME NEW d \in Clients, HangUp(d)
        PROVE  Cause(c)
    BY <1>1, <2>4, <2>5 DEF HangUp, LoopInv
  <2>6. ASSUME NEW d \in Clients, Write(d)
        PROVE  Cause(c)
    BY <2>1, <2>4, <2>6 DEF Write
  <2>7. ASSUME NEW d \in Clients, NEW line, NEW on \in BOOLEAN, reading = d,
               Reply(d, line, on)
        PROVE  Cause(c)
    BY <1>1, <2>1, <2>4, <2>7, Replying
  <2>8. ASSUME NEW d \in Clients,
               Subscribe(d) \/ Unsubscribe(d) \/ Status(d) \/ Set(d)
        PROVE  Cause(c)
    <3>1. subscribed[d] \in BOOLEAN
      BY <1>1 DEF LoopInv, ShapeOK
    <3> QED
      BY <2>7, <2>8, <3>1 DEF Subscribe, Unsubscribe, Status, Set, Request
  <2>9. ASSUME NEW d \in Clients, TooLong(d)
        PROVE  Cause(c)
    <3>1. d = c
      BY <1>1, <2>9, Closing DEF TooLong
    <3> QED
      BY <2>9, <3>1 DEF TooLong, Request
  <2>10. ASSUME NEW d \in Clients, ReadEnd(d)
         PROVE  Cause(c)
    <3>1. CASE UNCHANGED serverVars
      BY <2>1, <3>1
    <3>2. CASE peer[d] # "here" /\ Close({d})
      BY <1>1, <3>2, Closing
    <3> QED
      BY <2>10, <3>1, <3>2 DEF ReadEnd
  <2>11. CASE Restart
    BY <1>1, <2>11, Closing DEF Restart, Inherited, LoopInv, ShapeOK
  <2>12. ASSUME NEW d \in Clients, Connect(d)
         PROVE  Cause(c)
    BY <1>1, <2>12 DEF Connect, LoopInv, ShapeOK
  <2>13. CASE Poll \/ Served
    BY <2>1, <2>13 DEF Poll, Served
  <2>14. ASSUME NEW d \in Clients, Read(d) \/ ReadReply(d) \/ Leave(d)
                                   \/ ShutDownSending(d)
         PROVE  Cause(c)
    BY <2>1, <2>14 DEF Read, ReadReply, Leave, ShutDownSending
  <2>15. ASSUME NEW d \in Clients, NEW verb \in Verbs, SendRequest(d, verb)
         PROVE  Cause(c)
    BY <2>1, <2>15 DEF SendRequest
  <2>16. CASE UNCHANGED vars
    BY <2>1, <2>16 DEF vars
  <2> QED
    BY <1>1, <2>2, <2>3, <2>5, <2>6, <2>8, <2>9, <2>10, <2>11, <2>12, <2>13,
       <2>14, <2>15, <2>16 DEF Next, Loop
<1>2. LoopInv /\ [Next]_vars => [ClosesForCause]_vars
  BY <1>1 DEF ClosesForCause
<1> QED
  BY <1>2, LoopCorrect, PTL DEF Spec, ClosedForCause

-----------------------------------------------------------------------------
(* Counting in a queue                                                     *)

LEMMA CountRange ==
    ASSUME NEW T, NEW q \in Seq(T), NEW S
    PROVE  Count(q, S) \in Nat /\ Count(q, S) <= Len(q)
<1>1. Len(q) \in Nat /\ DOMAIN q = 1..Len(q)
  BY LenProperties
<1>2. IsFiniteSet(1..Len(q)) /\ Cardinality(1..Len(q)) = Len(q)
  BY <1>1, FS_Interval
<1>3. {i \in DOMAIN q : q[i] \in S} \in SUBSET (1..Len(q))
  BY <1>1
<1> QED
  BY <1>2, <1>3, FS_Subset, FS_CardinalityType DEF Count

LEMMA CountEmpty ==
    ASSUME NEW S
    PROVE  Count(<<>>, S) = 0
BY FS_EmptySet DEF Count

LEMMA CountConcat ==
    ASSUME NEW T, NEW p \in Seq(T), NEW q \in Seq(T), NEW S
    PROVE  Count(p \o q, S) = Count(p, S) + Count(q, S)
<1> DEFINE A == {i \in 1..Len(p) : p[i] \in S}
           B == {i \in 1..Len(q) : q[i] \in S}
           C == {i \in Len(p) + 1..Len(p) + Len(q) : q[i - Len(p)] \in S}
           D == {i \in 1..Len(p) + Len(q) : (p \o q)[i] \in S}
           shift == [i \in B |-> i + Len(p)]
<1>1. /\ Len(p) \in Nat /\ Len(q) \in Nat
      /\ DOMAIN p = 1..Len(p) /\ DOMAIN q = 1..Len(q)
      /\ DOMAIN (p \o q) = 1..Len(p) + Len(q)
  BY LenProperties, ConcatProperties
<1>2. IsFiniteSet(A) /\ IsFiniteSet(B)
  <2>1. IsFiniteSet(1..Len(p)) /\ IsFiniteSet(1..Len(q))
    BY <1>1, FS_Interval
  <2>2. A \in SUBSET (1..Len(p)) /\ B \in SUBSET (1..Len(q))
    OBVIOUS
  <2> HIDE DEF A, B
  <2> QED
    BY <2>1, <2>2, FS_Subset
<1>3. shift \in Bijection(B, C)
  <2>1. shift \in [B -> C]
    BY <1>1
  <2>2. \A i, j \in B : shift[i] = shift[j] => i = j
    BY <1>1
  <2>3. \A k \in C : \E i \in B : shift[i] = k
    <3>1. TAKE k \in C
    <3>2. k - Len(p) \in B /\ shift[k - Len(p)] = k
      BY <1>1
    <3> QED
      BY <3>2
  <2> QED
    BY <2>1, <2>2, <2>3 DEF Bijection, Injection, Surjection, IsInjective
<1>4. IsFiniteSet(C) /\ Cardinality(C) = Cardinality(B)
  BY <1>2, <1>3, FS_Bijection DEF ExistsBijection
<1>5. A \cap C = {}
  BY <1>1
<1>6. D = A \cup C
  BY <1>1, ConcatProperties
<1>7. Cardinality(D) = Cardinality(A) + Cardinality(C)
  <2> HIDE DEF A, B, C, D
  <2>1. Cardinality(A \cup C) = Cardinality(A) + Cardinality(C) - Cardinality(A \cap C)
    BY <1>2, <1>4, FS_Union
  <2>2. Cardinality(A \cap C) = 0
    BY <1>5, FS_EmptySet
  <2>3. Cardinality(A) \in Nat /\ Cardinality(C) \in Nat
    BY <1>2, <1>4, FS_CardinalityType
  <2> QED
    BY <1>6, <2>1, <2>2, <2>3
<1> QED
  BY <1>1, <1>4, <1>7 DEF Count

LEMMA CountOne ==
    ASSUME NEW S, NEW x
    PROVE  Count(<<x>>, S) = IF x \in S THEN 1 ELSE 0
<1>1. CASE x \in S
  <2>1. {i \in DOMAIN <<x>> : <<x>>[i] \in S} = {1}
    BY <1>1
  <2> QED
    BY <1>1, <2>1, FS_Singleton DEF Count
<1>2. CASE x \notin S
  <2>1. {i \in DOMAIN <<x>> : <<x>>[i] \in S} = {}
    BY <1>2
  <2> QED
    BY <1>2, <2>1, FS_EmptySet DEF Count
<1> QED
  BY <1>1, <1>2

LEMMA CountAppend ==
    ASSUME NEW T, NEW q \in Seq(T), NEW x \in T, NEW S
    PROVE  Count(Append(q, x), S) = Count(q, S) + (IF x \in S THEN 1 ELSE 0)
<1>1. Append(q, x) = q \o <<x>> /\ <<x>> \in Seq(T)
  OBVIOUS
<1>2. Count(q \o <<x>>, S) = Count(q, S) + Count(<<x>>, S)
  BY <1>1, CountConcat
<1> QED
  BY <1>1, <1>2, CountOne

\* The head of a queue and the rest.
LEMMA CountTail ==
    ASSUME NEW T, NEW q \in Seq(T), q # <<>>, NEW S
    PROVE  /\ Tail(q) \in Seq(T) /\ Head(q) \in T
           /\ Count(q, S) = Count(Tail(q), S) + (IF Head(q) \in S THEN 1 ELSE 0)
<1>1. Tail(q) \in Seq(T) /\ Head(q) \in T /\ <<Head(q)>> \in Seq(T)
  BY HeadTailProperties
<1>2. q = <<Head(q)>> \o Tail(q)
  OBVIOUS
<1>3. Count(<<Head(q)>> \o Tail(q), S) = Count(<<Head(q)>>, S) + Count(Tail(q), S)
  BY <1>1, CountConcat
<1>4. Count(Tail(q), S) \in Nat
  BY <1>1, CountRange
<1>5. Count(<<Head(q)>>, S) = IF Head(q) \in S THEN 1 ELSE 0
  BY CountOne
<1>6. Count(q, S) = Count(<<Head(q)>>, S) + Count(Tail(q), S)
  BY <1>2, <1>3
<1> QED
  BY <1>1, <1>4, <1>5, <1>6

\* A queue cut in two.
LEMMA CountSplit ==
    ASSUME NEW T, NEW q \in Seq(T), NEW n \in 0..Len(q), NEW S
    PROVE  /\ SubSeq(q, 1, n) \in Seq(T) /\ SubSeq(q, n + 1, Len(q)) \in Seq(T)
           /\ Len(SubSeq(q, 1, n)) = n
           /\ Count(q, S) = Count(SubSeq(q, 1, n), S)
                            + Count(SubSeq(q, n + 1, Len(q)), S)
<1>1. Len(q) \in Nat
  BY LenProperties
<1>2. /\ SubSeq(q, 1, n) \in Seq(T) /\ Len(SubSeq(q, 1, n)) = n
      /\ SubSeq(q, n + 1, Len(q)) \in Seq(T)
  BY <1>1
<1>3. q = SubSeq(q, 1, n) \o SubSeq(q, n + 1, Len(q))
  <2>1. SubSeq(q, 1, n) \o SubSeq(q, n + 1, Len(q)) = SubSeq(q, 1, Len(q))
    <3>1. 1 \in 1..Len(q) + 1 /\ n \in 1 - 1..Len(q) /\ Len(q) \in n..Len(q)
      BY <1>1
    <3> QED
      BY <3>1, ConcatAdjacentSubSeq
  <2> QED
    BY <2>1, SubSeqFull
<1>4. Count(SubSeq(q, 1, n) \o SubSeq(q, n + 1, Len(q)), S)
        = Count(SubSeq(q, 1, n), S) + Count(SubSeq(q, n + 1, Len(q)), S)
  BY <1>2, CountConcat
<1> QED
  BY <1>2, <1>3, <1>4

-----------------------------------------------------------------------------
(***************************************************************************)
(* What goes through the queues of a client: no more than its socket       *)
(* holds, nothing for a client that is gone, no more pushes than the limit;*)
(* and each acknowledgement it waits for is on its way, or was lost with   *)
(* the session.                                                            *)
(***************************************************************************)
Books(c) ==
    /\ peer[c] = "gone" => toClient[c] = <<>>
    /\ session[c] = "none" => toServer[c] = <<>>
    /\ session[c] # "open" => out[c] = <<>>
    /\ Len(toClient[c]) <= Pipe
    /\ Pushes(out[c]) <= MaxOut
    /\ peer[c] # "gone" => Acks(toClient[c]) <= owed[c]
    /\ peer[c] # "gone" /\ session[c] # "none" =>
         owed[c] = Asks(toServer[c]) + Acks(out[c]) + Acks(toClient[c])

QueuesOK ==
    /\ toServer \in [Clients -> Seq(Verbs)]
    /\ toClient \in [Clients -> Seq(Lines)]
    /\ out \in [Clients -> Seq(Lines)]
    /\ session \in [Clients -> {"none", "backlog", "open"}]
    /\ subscribed \in [Clients -> BOOLEAN]
    /\ told \in [Clients -> Statuses \cup {NoStatus}]

LedgerInv == TypeOK /\ starts <= ops + 1 /\ \A c \in Clients : Books(c)

LEMMA LedgerStart == Init => LedgerInv
<1> SUFFICES ASSUME Init PROVE LedgerInv
  OBVIOUS
<1>1. TypeOK
  <2>1. /\ status \in Statuses /\ status.at <= changes
        /\ ops \in 0..MaxOps /\ starts \in 1..MaxOps + 1
        /\ changes \in 0..MaxChanges
    BY IpcAssumption DEF Init, Statuses
  <2> QED
    BY <2>1, EmptySeq DEF Init, TypeOK, Nobody
<1>2. ASSUME NEW c \in Clients PROVE Books(c)
  BY <1>2, IpcAssumption, CountEmpty DEF Init, Books, Acks, Asks, Pushes
<1> QED
  BY <1>1, <1>2 DEF LedgerInv, Init

LEMMA LineTypes ==
    /\ Ack \in Lines /\ Ack \in AckLines
    /\ \A s \in Statuses : Push(s) \in Lines /\ Answer(s) \in Lines
    /\ \A s \in Statuses : Answer(s) \notin AckLines /\ Push(s) \notin AckLines
    /\ \A s, t \in Statuses : Answer(s) # Push(t) /\ Ack # Push(s)
BY DEF Ack, Push, Answer, Lines, AckLines

LEMMA AcksRange ==
    ASSUME NEW q \in Seq(Lines)
    PROVE  Acks(q) \in Nat /\ Pushes(q) \in Nat /\ Pushes(q) <= Len(q)
           /\ Len(q) \in Nat
BY CountRange DEF Acks, Pushes

LEMMA AsksRange ==
    ASSUME NEW q \in Seq(Verbs)
    PROVE  Asks(q) \in Nat
BY CountRange DEF Asks

\* What the socket takes of a queue, and what stays.
LEMMA Cutting ==
    ASSUME NEW c \in Clients, NEW q \in Seq(Lines),
           toClient[c] \in Seq(Lines), Len(toClient[c]) <= Pipe
    PROVE  /\ toClient[c] \o Sent(c, q) \in Seq(Lines)
           /\ Unsent(c, q) \in Seq(Lines)
           /\ Len(toClient[c] \o Sent(c, q)) <= Pipe
           /\ Acks(toClient[c] \o Sent(c, q)) + Acks(Unsent(c, q))
                = Acks(toClient[c]) + Acks(q)
           /\ Pushes(Unsent(c, q)) <= Pushes(q)
<1> DEFINE n == Taken(c, q)
<1>1. n \in 0..Len(q) /\ Len(toClient[c]) + n <= Pipe /\ Len(toClient[c]) \in Nat
  <2>1. Len(q) \in Nat /\ Len(toClient[c]) \in Nat /\ Pipe \in Nat
    BY IpcAssumption, LenProperties
  <2>2. \A a, b, m \in Nat :
          a <= m => LET k == IF a + b <= m THEN b ELSE m - a
                    IN k \in 0..b /\ a + k <= m
    OBVIOUS
  <2>3. n = IF Len(toClient[c]) + Len(q) <= Pipe THEN Len(q)
            ELSE Pipe - Len(toClient[c])
    BY DEF Taken
  <2> HIDE DEF n
  <2> QED
    BY <2>1, <2>2, <2>3
<1> HIDE DEF n
<1>2. \A S : /\ SubSeq(q, 1, n) \in Seq(Lines)
             /\ SubSeq(q, n + 1, Len(q)) \in Seq(Lines)
             /\ Len(SubSeq(q, 1, n)) = n
             /\ Count(q, S) = Count(SubSeq(q, 1, n), S)
                              + Count(SubSeq(q, n + 1, Len(q)), S)
  BY <1>1, CountSplit
<1>3. Sent(c, q) = SubSeq(q, 1, n) /\ Unsent(c, q) = SubSeq(q, n + 1, Len(q))
  BY DEF n, Sent, Unsent
<1>4. /\ Sent(c, q) \in Seq(Lines) /\ Unsent(c, q) \in Seq(Lines)
      /\ Len(Sent(c, q)) = n
      /\ Acks(q) = Acks(Sent(c, q)) + Acks(Unsent(c, q))
      /\ Pushes(q) = Pushes(Sent(c, q)) + Pushes(Unsent(c, q))
  BY <1>2, <1>3 DEF Acks, Pushes
<1>5. /\ toClient[c] \o Sent(c, q) \in Seq(Lines)
      /\ Len(toClient[c] \o Sent(c, q)) = Len(toClient[c]) + n
  BY <1>4, ConcatProperties
<1>6. Acks(toClient[c] \o Sent(c, q)) = Acks(toClient[c]) + Acks(Sent(c, q))
  BY <1>4, CountConcat DEF Acks
<1>7. /\ Acks(toClient[c]) \in Nat /\ Acks(Sent(c, q)) \in Nat
      /\ Acks(Unsent(c, q)) \in Nat /\ Pushes(Sent(c, q)) \in Nat
      /\ Pushes(Unsent(c, q)) \in Nat
  BY <1>4, AcksRange
<1> QED
  BY <1>1, <1>4, <1>5, <1>6, <1>7

\* A closed session leaves nothing but what is in the client's own socket.
LEMMA ClosedBooks ==
    ASSUME LedgerInv, NEW S \in SUBSET Clients, Close(S),
           UNCHANGED <<peer, toClient, owed>>
    PROVE  QueuesOK' /\ \A c \in Clients : Books(c)'
<1>1. QueuesOK'
  BY EmptySeq DEF LedgerInv, TypeOK, QueuesOK, Close, Cleared
<1>2. ASSUME NEW c \in Clients PROVE Books(c)'
  <2>1. CASE c \in S
    <3>1. session'[c] = "none" /\ toServer'[c] = <<>> /\ out'[c] = <<>>
      BY <2>1 DEF Close, Cleared
    <3>2. Pushes(out'[c]) <= MaxOut
      BY <3>1, IpcAssumption, CountEmpty DEF Pushes
    <3> QED
      BY <3>1, <3>2 DEF LedgerInv, Books
  <2>2. CASE c \notin S
    BY <2>2 DEF Close, Cleared, LedgerInv, Books
  <2> QED
    BY <2>1, <2>2
<1> QED
  BY <1>1, <1>2

\* The request at the head is answered by a line of its kind.
LEMMA ReplyBooks ==
    ASSUME LedgerInv, LoopInv, NEW c \in Clients, NEW verb, NEW line \in Lines,
           NEW on \in BOOLEAN, Request(c, verb), Reply(c, line, on),
           verb \in Acked <=> line \in AckLines, Pushes(<<line>>) = 0,
           UNCHANGED <<peer, owed>>
    PROVE  QueuesOK' /\ \A d \in Clients : Books(d)'
<1>1. CASE Close({c}) /\ UNCHANGED toClient
  BY <1>1, ClosedBooks
<1>2. CASE /\ peer[c] # "gone"
           /\ Flush(c, Append(out[c], line))
           /\ toServer' = [toServer EXCEPT ![c] = Tail(@)]
           /\ subscribed' = [subscribed EXCEPT ![c] = on]
           /\ told' = IF line.kind = "ack" THEN told
                      ELSE [told EXCEPT ![c] = line.body]
           /\ UNCHANGED <<session, reading>>
  <2> DEFINE q == Append(out[c], line)
  <2>1. /\ TypeOK /\ Books(c) /\ session[c] = "open"
        /\ toServer[c] \in Seq(Verbs) /\ out[c] \in Seq(Lines)
        /\ toClient[c] \in Seq(Lines) /\ Len(toClient[c]) <= Pipe
    BY DEF LedgerInv, TypeOK, Books, LoopInv, Request
  <2>2. /\ q \in Seq(Lines)
        /\ Acks(q) = Acks(out[c]) + (IF line \in AckLines THEN 1 ELSE 0)
        /\ Pushes(q) = Pushes(out[c])
    <3>1. q \in Seq(Lines)
      BY <2>1
    <3>2. Acks(q) = Acks(out[c]) + (IF line \in AckLines THEN 1 ELSE 0)
      BY <2>1, CountAppend DEF Acks
    <3>3. line \notin {Push(s) : s \in Statuses}
      BY CountOne DEF Pushes
    <3>4. Pushes(q) = Pushes(out[c]) + 0
      BY <2>1, <3>3, CountAppend DEF Pushes
    <3> QED
      BY <2>1, <3>1, <3>2, <3>4, AcksRange
  <2> HIDE DEF q
  <2>3. /\ toServer[c] # <<>> /\ Head(toServer[c]) = verb
        /\ Tail(toServer[c]) \in Seq(Verbs)
        /\ Asks(toServer[c]) = Asks(Tail(toServer[c]))
                               + (IF verb \in Acked THEN 1 ELSE 0)
    BY <2>1, CountTail DEF Request, Asks
  <2>4. /\ toClient'[c] = toClient[c] \o Sent(c, q)
        /\ out'[c] = Unsent(c, q)
        /\ toServer'[c] = Tail(toServer[c])
        /\ \A d \in Clients \ {c} : /\ toClient'[d] = toClient[d]
                                    /\ out'[d] = out[d]
                                    /\ toServer'[d] = toServer[d]
    BY <1>2, <2>1 DEF Flush, TypeOK, q
  <2>5. /\ toClient'[c] \in Seq(Lines) /\ out'[c] \in Seq(Lines)
        /\ Len(toClient'[c]) <= Pipe
        /\ Acks(toClient'[c]) + Acks(out'[c]) = Acks(toClient[c]) + Acks(q)
        /\ Pushes(out'[c]) <= Pushes(q)
    BY <2>1, <2>2, <2>4, Cutting
  <2>6. QueuesOK'
    <3>1. line.kind # "ack" => line.body \in Statuses \cup {NoStatus}
      BY DEF Lines
    <3>2. toServer' \in [Clients -> Seq(Verbs)]
      BY <1>2, <2>1, <2>3 DEF TypeOK
    <3>3. toClient' \in [Clients -> Seq(Lines)] /\ out' \in [Clients -> Seq(Lines)]
      BY <1>2, <2>1, <2>4, <2>5 DEF Flush, TypeOK
    <3>4. /\ session' \in [Clients -> {"none", "backlog", "open"}]
          /\ subscribed' \in [Clients -> BOOLEAN]
      BY <1>2, <2>1 DEF TypeOK
    <3>5. told' \in [Clients -> Statuses \cup {NoStatus}]
      BY <1>2, <2>1, <3>1 DEF TypeOK
    <3> QED
      BY <3>2, <3>3, <3>4, <3>5 DEF QueuesOK
  <2>7. Books(c)'
    <3>1. /\ Acks(toClient'[c]) \in Nat /\ Acks(out'[c]) \in Nat
          /\ Acks(toClient[c]) \in Nat /\ Acks(out[c]) \in Nat
          /\ Pushes(out'[c]) \in Nat /\ Pushes(out[c]) \in Nat
          /\ Asks(toServer'[c]) \in Nat /\ Asks(toServer[c]) \in Nat
          /\ Acks(q) \in Nat /\ Pushes(q) \in Nat
      BY <2>2, <2>1, <2>3, <2>4, <2>5, AcksRange, AsksRange
    <3>2. /\ peer'[c] = peer[c] /\ session'[c] = session[c] /\ owed'[c] = owed[c]
      BY <1>2
    <3>3. owed[c] = Asks(toServer[c]) + Acks(out[c]) + Acks(toClient[c])
          /\ Pushes(out[c]) <= MaxOut
      BY <1>2, <2>1 DEF Books
    <3>4. owed[c] = Asks(toServer'[c]) + Acks(out'[c]) + Acks(toClient'[c])
      <4>1. Asks(toServer[c]) + Acks(out[c]) = Asks(toServer'[c]) + Acks(q)
        <5>1. CASE line \in AckLines
          BY <2>2, <2>3, <2>4, <3>1, <5>1
        <5>2. CASE line \notin AckLines
          BY <2>2, <2>3, <2>4, <3>1, <5>2
        <5> QED
          BY <5>1, <5>2
      <4>2. Acks(toClient'[c]) + Acks(out'[c]) = Acks(toClient[c]) + Acks(q)
        BY <2>5
      <4>3. owed[c] = Asks(toServer[c]) + Acks(out[c]) + Acks(toClient[c])
        BY <3>3
      <4> QED
        BY <3>1, <4>1, <4>2, <4>3
    <3>5. Pushes(out'[c]) <= MaxOut
      <4>1. MaxOut \in Nat
        BY IpcAssumption
      <4>2. /\ Pushes(out'[c]) <= Pushes(q) /\ Pushes(q) = Pushes(out[c])
            /\ Pushes(out[c]) <= MaxOut
        BY <2>2, <2>5, <3>3
      <4> QED
        BY <3>1, <4>1, <4>2
    <3>6. Acks(toClient'[c]) <= owed[c]
      BY <3>1, <3>4
    <3>7. Len(toClient'[c]) <= Pipe
      BY <2>5
    <3> QED
      BY <1>2, <2>1, <3>2, <3>4, <3>5, <3>6, <3>7 DEF Books
  <2>8. ASSUME NEW d \in Clients \ {c} PROVE Books(d)'
    BY <1>2, <2>4, <2>8 DEF LedgerInv, Books
  <2> QED
    BY <2>6, <2>7, <2>8
<1> QED
  BY <1>1, <1>2 DEF Reply

\* A push reaches each subscriber whose queue has room for it.
LEMMA BroadcastBooks ==
    ASSUME LedgerInv, LoopInv, Broadcast(status), UNCHANGED <<peer, owed>>
    PROVE  QueuesOK' /\ \A c \in Clients : Books(c)'
<1> DEFINE dropped == {c \in Subscribers : Stalled(c)}
           pushed  == Subscribers \ dropped
           q(c) == Append(out[c], Push(status))
<1>1. /\ session' = Cleared(session, dropped, "none")
      /\ subscribed' = Cleared(subscribed, dropped, FALSE)
      /\ toServer' = Cleared(toServer, dropped, <<>>)
      /\ out' = [c \in Clients |-> IF c \in pushed THEN Unsent(c, q(c))
                                   ELSE Cleared(out, dropped, <<>>)[c]]
      /\ toClient' = [c \in Clients |->
                        IF c \in pushed THEN toClient[c] \o Sent(c, q(c))
                        ELSE toClient[c]]
      /\ told' = [c \in Clients |-> IF c \in pushed THEN status
                                    ELSE Cleared(told, dropped, NoStatus)[c]]
  BY Zenon DEF Broadcast
<1>2. Push(status) \in Lines /\ Push(status) \notin AckLines
  BY LineTypes DEF LedgerInv, TypeOK
<1>3. ASSUME NEW c \in Clients
      PROVE  /\ toServer[c] \in Seq(Verbs) /\ out[c] \in Seq(Lines)
             /\ toClient[c] \in Seq(Lines) /\ Len(toClient[c]) <= Pipe
             /\ Books(c)
  BY <1>3 DEF LedgerInv, TypeOK, Books
<1>4. ASSUME NEW c \in pushed
      PROVE  /\ c \in Clients /\ peer[c] # "gone" /\ Len(out[c]) + 1 <= MaxOut
             /\ q(c) \in Seq(Lines) /\ Acks(q(c)) = Acks(out[c])
             /\ Pushes(q(c)) <= MaxOut
  <2>1. c \in Clients /\ subscribed[c] /\ ~Stalled(c)
    BY <1>4 DEF Subscribers
  <2>2. out[c] \in Seq(Lines) /\ Len(out[c]) \in Nat /\ MaxOut \in Nat
    BY <1>3, <2>1, LenProperties, IpcAssumption
  <2>3. peer[c] # "gone" /\ Len(out[c]) + 1 <= MaxOut
    BY <2>1, <2>2 DEF Stalled
  <2>4. /\ q(c) \in Seq(Lines) /\ Len(q(c)) = Len(out[c]) + 1
    BY <1>2, <2>2, AppendProperties
  <2>5. Acks(q(c)) = Acks(out[c]) + 0
    BY <1>2, <2>2, CountAppend DEF Acks
  <2>6. Acks(out[c]) \in Nat /\ Pushes(q(c)) \in Nat /\ Pushes(q(c)) <= Len(q(c))
    BY <2>2, <2>4, AcksRange
  <2>7. Pushes(q(c)) <= MaxOut
    BY <2>2, <2>3, <2>4, <2>6
  <2> QED
    BY <2>1, <2>3, <2>4, <2>5, <2>6, <2>7
<1> HIDE DEF q
<1>5. ASSUME NEW c \in pushed
      PROVE  /\ toClient'[c] = toClient[c] \o Sent(c, q(c))
             /\ out'[c] = Unsent(c, q(c))
             /\ toClient'[c] \in Seq(Lines) /\ out'[c] \in Seq(Lines)
             /\ Len(toClient'[c]) <= Pipe
             /\ Acks(toClient'[c]) + Acks(out'[c]) = Acks(toClient[c]) + Acks(q(c))
             /\ Pushes(out'[c]) <= Pushes(q(c))
  <2>1. c \in Clients /\ q(c) \in Seq(Lines)
    BY <1>4
  <2>2. /\ toClient'[c] = toClient[c] \o Sent(c, q(c))
        /\ out'[c] = Unsent(c, q(c))
    BY <1>1, <1>5, <2>1
  <2>3. toClient[c] \in Seq(Lines) /\ Len(toClient[c]) <= Pipe
    BY <1>3, <2>1
  <2> QED
    BY <2>1, <2>2, <2>3, Cutting
<1>6. ASSUME NEW c \in Clients \ pushed
      PROVE  /\ toClient'[c] = toClient[c]
             /\ out'[c] = IF c \in dropped THEN <<>> ELSE out[c]
  BY <1>1, <1>6 DEF Cleared
<1>7. ASSUME NEW c \in Clients
      PROVE  /\ session'[c] = IF c \in dropped THEN "none" ELSE session[c]
             /\ toServer'[c] = IF c \in dropped THEN <<>> ELSE toServer[c]
             /\ subscribed'[c] = IF c \in dropped THEN FALSE ELSE subscribed[c]
  BY <1>1, <1>7 DEF Cleared
<1>8. QueuesOK'
  <2>1. <<>> \in Seq(Verbs) /\ <<>> \in Seq(Lines)
    BY EmptySeq
  <2>2. toServer' \in [Clients -> Seq(Verbs)]
    <3>1. \A c \in Clients : toServer'[c] \in Seq(Verbs)
      BY <1>3, <1>7, <2>1
    <3> QED
      BY <1>1, <3>1 DEF Cleared
  <2>3. toClient' \in [Clients -> Seq(Lines)]
    <3>1. \A c \in Clients : toClient'[c] \in Seq(Lines)
      BY <1>3, <1>5, <1>6
    <3> QED
      BY <1>1, <3>1
  <2>4. out' \in [Clients -> Seq(Lines)]
    <3>1. \A c \in Clients : out'[c] \in Seq(Lines)
      BY <1>3, <1>5, <1>6, <2>1
    <3> QED
      BY <1>1, <3>1
  <2>5. /\ session' \in [Clients -> {"none", "backlog", "open"}]
        /\ subscribed' \in [Clients -> BOOLEAN]
    BY <1>1 DEF Cleared, LedgerInv, TypeOK
  <2>6. told' \in [Clients -> Statuses \cup {NoStatus}]
    BY <1>1 DEF Cleared, LedgerInv, TypeOK
  <2> QED
    BY <2>2, <2>3, <2>4, <2>5, <2>6 DEF QueuesOK
<1>9. ASSUME NEW c \in Clients PROVE Books(c)'
  <2>1. CASE c \in pushed
    <3>1. /\ peer'[c] # "gone" /\ owed'[c] = owed[c]
          /\ session'[c] = session[c] /\ toServer'[c] = toServer[c]
      BY <1>4, <1>7, <2>1
    <3>2. /\ Acks(toClient'[c]) \in Nat /\ Acks(out'[c]) \in Nat
          /\ Acks(toClient[c]) \in Nat /\ Acks(out[c]) \in Nat
          /\ Pushes(out'[c]) \in Nat /\ Pushes(q(c)) \in Nat
          /\ Asks(toServer[c]) \in Nat /\ MaxOut \in Nat
      BY <1>3, <1>4, <1>5, <2>1, AcksRange, AsksRange, IpcAssumption
    <3>3. Acks(toClient'[c]) + Acks(out'[c]) = Acks(toClient[c]) + Acks(out[c])
      BY <1>4, <1>5, <2>1
    <3>4. Pushes(out'[c]) <= MaxOut
      <4>1. Pushes(out'[c]) <= Pushes(q(c)) /\ Pushes(q(c)) <= MaxOut
        BY <1>4, <1>5, <2>1
      <4> QED
        BY <3>2, <4>1
    <3>5. session[c] = "open"
      BY <2>1 DEF LoopInv, Subscribers
    <3>6. owed[c] = Asks(toServer[c]) + Acks(out[c]) + Acks(toClient[c])
      BY <1>3, <1>4, <2>1, <3>5 DEF Books
    <3>7. owed[c] = Asks(toServer[c]) + Acks(out'[c]) + Acks(toClient'[c])
      BY <3>2, <3>3, <3>6
    <3>8. Acks(toClient'[c]) <= owed[c] /\ Len(toClient'[c]) <= Pipe
      BY <1>5, <2>1, <3>2, <3>7
    <3> QED
      BY <3>1, <3>4, <3>5, <3>7, <3>8 DEF Books
  <2>2. CASE c \in dropped
    <3>1. /\ session'[c] = "none" /\ toServer'[c] = <<>> /\ out'[c] = <<>>
          /\ toClient'[c] = toClient[c] /\ peer'[c] = peer[c] /\ owed'[c] = owed[c]
      BY <1>6, <1>7, <2>2
    <3>2. Pushes(out'[c]) <= MaxOut
      BY <3>1, IpcAssumption, CountEmpty DEF Pushes
    <3> QED
      BY <1>3, <3>1, <3>2 DEF Books
  <2>3. CASE c \notin pushed /\ c \notin dropped
    <3>1. /\ session'[c] = session[c] /\ toServer'[c] = toServer[c]
          /\ out'[c] = out[c] /\ toClient'[c] = toClient[c]
          /\ peer'[c] = peer[c] /\ owed'[c] = owed[c]
      BY <1>6, <1>7, <2>3
    <3> QED
      BY <1>3, <3>1 DEF Books
  <2> QED
    BY <2>1, <2>2, <2>3
<1> QED
  BY <1>8, <1>9

LEMMA HeadsetTypes ==
    ASSUME TypeOK, Headset
    PROVE  /\ status' \in Statuses /\ status'.at <= changes'
           /\ changes' \in 0..MaxChanges
<1>1. CASE UNCHANGED stateVars
  BY <1>1 DEF stateVars, TypeOK
<1>2. ASSUME NEW v \in Values, Commit(v)
      PROVE  /\ status' \in Statuses /\ status'.at <= changes'
             /\ changes' \in 0..MaxChanges
  <2>1. /\ status.at \in Nat /\ changes \in Nat /\ MaxChanges \in Nat
        /\ status.at <= changes /\ changes < MaxChanges /\ changes' = changes + 1
    BY <1>2, IpcAssumption DEF Commit, TypeOK, Statuses
  <2>2. CASE status' = [val |-> v, at |-> status.at + 1]
    BY <2>1, <2>2 DEF Statuses
  <2>3. CASE status' = [val |-> v, at |-> status.at]
    BY <2>1, <2>3 DEF Statuses
  <2> QED
    BY <1>2, <2>2, <2>3 DEF Commit
<1> QED
  BY <1>1, <1>2 DEF Headset

LEMMA LedgerStep ==
    ASSUME LedgerInv, LoopInv, [Next]_vars
    PROVE  LedgerInv'
<1> USE DEF Due, clientVars, serverVars, loopVars, stateVars, boundVars
<1>t. TypeOK /\ starts <= ops + 1 /\ \A c \in Clients : Books(c)
  BY DEF LedgerInv
<1>q. QueuesOK
  BY <1>t DEF TypeOK, QueuesOK
<1>r. ASSUME QueuesOK',
             UNCHANGED <<peer, heard, owed, status, changes, published, ops, starts>>,
             phase' \in {"poll", "serve", "after"}, knock' \in BOOLEAN,
             revents' \in [Clients -> SUBSET {"in", "out", "hup"}],
             reading' \in Clients \cup {NoClient}
      PROVE  TypeOK' /\ starts' <= ops' + 1
  BY <1>t, <1>r DEF TypeOK, QueuesOK
<1>b. ASSUME NEW c \in Clients, Books(c),
             UNCHANGED <<peer, toServer, toClient, out, session, owed>>
      PROVE  Books(c)'
  BY <1>b DEF Books
<1>n. Nobody \in [Clients -> SUBSET {"in", "out", "hup"}]
  BY DEF Nobody
<1>1. CASE Poll
  <2>1. revents' \in [Clients -> SUBSET {"in", "out", "hup"}]
    BY <1>1 DEF Poll, Reported
  <2>2. TypeOK'
    BY <1>1, <1>t, <2>1, HeadsetTypes DEF Poll, TypeOK
  <2> QED
    BY <1>1, <1>t, <1>b, <2>2 DEF Poll, LedgerInv
<1>2. CASE Accept
  <2>1. QueuesOK'
    BY <1>2, <1>q DEF Accept, QueuesOK
  <2>2. TypeOK' /\ starts' <= ops' + 1
    BY <1>2, <1>t, <1>r, <2>1 DEF Accept, TypeOK
  <2>3. ASSUME NEW c \in Clients PROVE Books(c)'
    BY <1>2, <1>t, <2>3 DEF Accept, Books
  <2> QED
    BY <2>2, <2>3 DEF LedgerInv
<1>3. CASE Served
  <2>1. TypeOK'
    BY <1>3, <1>t, HeadsetTypes DEF Served, TypeOK
  <2> QED
    BY <1>3, <1>t, <1>b, <2>1 DEF Served, LedgerInv
<1>4. CASE Publish
  <2>1. CASE Broadcast(status) /\ published' = status
    <3>1. QueuesOK' /\ \A c \in Clients : Books(c)'
      BY <1>4, <2>1, BroadcastBooks DEF Publish
    <3>2. TypeOK'
      BY <1>4, <1>t, <2>1, <3>1 DEF Publish, TypeOK, QueuesOK
    <3> QED
      BY <1>4, <1>t, <3>1, <3>2 DEF Publish, LedgerInv
  <2>2. CASE UNCHANGED <<published, serverVars, toServer, toClient>>
    <3>1. TypeOK'
      BY <1>4, <1>t, <2>2 DEF Publish, TypeOK
    <3> QED
      BY <1>4, <1>t, <1>b, <2>2, <3>1 DEF Publish, LedgerInv
  <2> QED
    BY <1>4, <2>1, <2>2 DEF Publish
<1>5. ASSUME NEW c \in Clients, HangUp(c)
      PROVE  LedgerInv'
  <2>1. QueuesOK' /\ \A d \in Clients : Books(d)'
    BY <1>5, ClosedBooks DEF HangUp
  <2>2. TypeOK' /\ starts' <= ops' + 1
    BY <1>5, <1>t, <1>r, <2>1 DEF HangUp, TypeOK
  <2> QED
    BY <2>1, <2>2 DEF LedgerInv
<1>6. ASSUME NEW c \in Clients, Write(c)
      PROVE  LedgerInv'
  <2>1. QueuesOK' /\ \A d \in Clients : Books(d)'
    <3>1. CASE Close({c}) /\ UNCHANGED toClient
      BY <1>6, <3>1, ClosedBooks DEF Write
    <3>2. CASE /\ peer[c] # "gone" /\ Flush(c, out[c])
               /\ UNCHANGED <<session, subscribed, toServer, told>>
      <4>1. /\ toClient[c] \in Seq(Lines) /\ out[c] \in Seq(Lines)
            /\ toServer[c] \in Seq(Verbs)
            /\ Len(toClient[c]) <= Pipe /\ session[c] = "open" /\ Books(c)
        BY <1>6, <1>t DEF Write, TypeOK, Books, LoopInv
      <4>2. /\ toClient'[c] = toClient[c] \o Sent(c, out[c])
            /\ out'[c] = Unsent(c, out[c])
            /\ \A d \in Clients \ {c} : toClient'[d] = toClient[d] /\ out'[d] = out[d]
        BY <1>t, <3>2 DEF Flush, TypeOK
      <4>3. /\ toClient'[c] \in Seq(Lines) /\ out'[c] \in Seq(Lines)
            /\ Len(toClient'[c]) <= Pipe
            /\ Acks(toClient'[c]) + Acks(out'[c]) = Acks(toClient[c]) + Acks(out[c])
            /\ Pushes(out'[c]) <= Pushes(out[c])
        BY <4>1, <4>2, Cutting
      <4>4. QueuesOK'
        BY <1>q, <3>2, <4>3 DEF QueuesOK, Flush
      <4>5. Books(c)'
        <5>1. /\ Acks(toClient'[c]) \in Nat /\ Acks(out'[c]) \in Nat
              /\ Acks(toClient[c]) \in Nat /\ Acks(out[c]) \in Nat
              /\ Pushes(out'[c]) \in Nat /\ Pushes(out[c]) \in Nat
              /\ Asks(toServer[c]) \in Nat /\ MaxOut \in Nat
          BY <4>1, <4>3, AcksRange, AsksRange, IpcAssumption
        <5>2. /\ Pushes(out'[c]) <= Pushes(out[c]) /\ Pushes(out[c]) <= MaxOut
              /\ Acks(toClient'[c]) + Acks(out'[c]) = Acks(toClient[c]) + Acks(out[c])
              /\ owed[c] = Asks(toServer[c]) + Acks(out[c]) + Acks(toClient[c])
          BY <3>2, <4>1, <4>3 DEF Books
        <5>3. /\ Pushes(out'[c]) <= MaxOut
              /\ owed[c] = Asks(toServer[c]) + Acks(out'[c]) + Acks(toClient'[c])
              /\ Acks(toClient'[c]) <= owed[c]
          <6>1. Pushes(out'[c]) <= MaxOut
            BY <5>1, <5>2
          <6>2. owed[c] = Asks(toServer[c]) + Acks(out'[c]) + Acks(toClient'[c])
            <7>1. Acks(out[c]) + Acks(toClient[c]) = Acks(out'[c]) + Acks(toClient'[c])
              BY <5>1, <5>2
            <7> QED
              BY <5>1, <5>2, <7>1
          <6> QED
            BY <5>1, <6>1, <6>2
        <5> QED
          BY <1>6, <3>2, <4>1, <4>3, <5>3 DEF Write, Books
      <4>6. ASSUME NEW d \in Clients \ {c} PROVE Books(d)'
        BY <1>6, <1>t, <3>2, <4>2, <4>6 DEF Write, Books
      <4> QED
        BY <4>4, <4>5, <4>6
    <3> QED
      BY <1>6, <3>1, <3>2 DEF Write
  <2>2. TypeOK' /\ starts' <= ops' + 1
    <3>1. revents' \in [Clients -> SUBSET {"in", "out", "hup"}]
      <4>1. \/ revents' = [revents EXCEPT ![c] = {}]
            \/ revents' = [revents EXCEPT ![c] = revents[c] \ {"out"}]
        BY <1>6 DEF Write
      <4>2. revents \in [Clients -> SUBSET {"in", "out", "hup"}]
        BY <1>t DEF TypeOK
      <4> QED
        BY <4>1, <4>2
    <3>2. /\ phase' \in {"poll", "serve", "after"} /\ knock' \in BOOLEAN
          /\ reading' \in Clients \cup {NoClient}
      <4>1. UNCHANGED <<phase, knock, reading>>
        BY <1>6 DEF Write
      <4> QED
        BY <1>t, <4>1 DEF TypeOK
    <3>3. UNCHANGED <<peer, heard, owed, status, changes, published, ops, starts>>
      BY <1>6 DEF Write
    <3> QED
      BY <1>r, <2>1, <3>1, <3>2, <3>3
  <2> QED
    BY <2>1, <2>2 DEF LedgerInv
<1>7. ASSUME NEW c \in Clients, Read(c)
      PROVE  LedgerInv'
  <2>1. QueuesOK'
    BY <1>7, <1>q DEF Read, QueuesOK
  <2>2. TypeOK' /\ starts' <= ops' + 1
    BY <1>7, <1>t, <1>r, <2>1 DEF Read, TypeOK
  <2> QED
    BY <1>7, <1>t, <1>b, <2>2 DEF Read, LedgerInv
<1>8. ASSUME NEW c \in Clients, NEW verb, NEW line \in Lines, NEW on \in BOOLEAN,
             Request(c, verb), Reply(c, line, on),
             verb \in Acked <=> line \in AckLines,
             line \notin {Push(s) : s \in Statuses},
             status' \in Statuses, status'.at <= changes',
             changes' \in 0..MaxChanges,
             UNCHANGED <<peer, owed, heard, phase, knock, revents, published, ops, starts>>
      PROVE  LedgerInv'
  <2>1. Pushes(<<line>>) = 0
    BY <1>8, CountOne DEF Pushes
  <2>2. QueuesOK' /\ \A d \in Clients : Books(d)'
    BY <1>8, <2>1, ReplyBooks
  <2>3. reading' \in Clients \cup {NoClient}
    BY <1>8, <1>t DEF Reply, TypeOK
  <2>4. TypeOK'
    BY <1>8, <1>t, <2>2, <2>3 DEF TypeOK, QueuesOK
  <2> QED
    BY <1>8, <1>t, <2>2, <2>4 DEF LedgerInv
<1>a. /\ Answer(status) \in Lines /\ Answer(status) \notin AckLines
      /\ Ack \in Lines /\ Ack \in AckLines
      /\ Answer(status) \notin {Push(s) : s \in Statuses}
      /\ Ack \notin {Push(s) : s \in Statuses}
      /\ status \in Statuses /\ status.at <= changes /\ changes \in 0..MaxChanges
  BY <1>t, LineTypes DEF TypeOK
<1>9. ASSUME NEW c \in Clients, Subscribe(c)
      PROVE  LedgerInv'
  BY <1>8, <1>9, <1>a DEF Subscribe, Acked
<1>10. ASSUME NEW c \in Clients, Unsubscribe(c)
       PROVE  LedgerInv'
  BY <1>8, <1>10, <1>a DEF Unsubscribe, Acked
<1>11. ASSUME NEW c \in Clients, Status(c)
       PROVE  LedgerInv'
  BY <1>8, <1>11, <1>a, <1>t DEF Status, Acked, TypeOK
<1>12. ASSUME NEW c \in Clients, Set(c)
       PROVE  LedgerInv'
  <2>1. /\ status' \in Statuses /\ status'.at <= changes'
        /\ changes' \in 0..MaxChanges
    BY <1>12, <1>t, HeadsetTypes DEF Set
  <2> QED
    BY <1>8, <1>12, <1>a, <1>t, <2>1 DEF Set, Acked, TypeOK
<1>13. ASSUME NEW c \in Clients, TooLong(c)
       PROVE  LedgerInv'
  <2> DEFINE q == Append(out[c], Ack)
  <2>1. /\ toServer[c] \in Seq(Verbs) /\ toServer[c] # <<>>
        /\ Head(toServer[c]) = "long" /\ out[c] \in Seq(Lines)
        /\ toClient[c] \in Seq(Lines) /\ Len(toClient[c]) <= Pipe
        /\ session[c] = "open" /\ Books(c)
    BY <1>13, <1>t DEF TooLong, Request, TypeOK, Books, LoopInv
  <2>2. q \in Seq(Lines) /\ Acks(q) = Acks(out[c]) + 1
    BY <1>a, <2>1, CountAppend DEF Acks
  <2>3. Asks(toServer[c]) = Asks(Tail(toServer[c])) + 1
        /\ Tail(toServer[c]) \in Seq(Verbs)
    BY <2>1, CountTail DEF Asks, Acked
  <2> HIDE DEF q
  <2>4. /\ toClient[c] \o Sent(c, q) \in Seq(Lines)
        /\ Len(toClient[c] \o Sent(c, q)) <= Pipe
        /\ Acks(toClient[c] \o Sent(c, q)) + Acks(Unsent(c, q))
             = Acks(toClient[c]) + Acks(q)
        /\ Unsent(c, q) \in Seq(Lines)
    BY <2>1, <2>2, Cutting
  <2>5. /\ toClient' = IF peer[c] = "gone" THEN toClient
                       ELSE [toClient EXCEPT ![c] = toClient[c] \o Sent(c, q)]
        /\ Close({c}) /\ reading' = NoClient
        /\ UNCHANGED <<clientVars, phase, knock, revents, stateVars, published, boundVars>>
    BY <1>13 DEF TooLong, q
  <2>6. QueuesOK'
    <3>1. toClient' \in [Clients -> Seq(Lines)]
      BY <1>t, <2>4, <2>5 DEF TypeOK
    <3>2. /\ toServer' \in [Clients -> Seq(Verbs)]
          /\ out' \in [Clients -> Seq(Lines)]
      BY <1>t, <2>5, EmptySeq DEF TypeOK, Close, Cleared
    <3>3. /\ session' \in [Clients -> {"none", "backlog", "open"}]
          /\ subscribed' \in [Clients -> BOOLEAN]
          /\ told' \in [Clients -> Statuses \cup {NoStatus}]
      BY <1>t, <2>5 DEF TypeOK, Close, Cleared
    <3> QED
      BY <3>1, <3>2, <3>3 DEF QueuesOK
  <2>7. Books(c)'
    <3>1. /\ session'[c] = "none" /\ toServer'[c] = <<>> /\ out'[c] = <<>>
          /\ peer'[c] = peer[c] /\ owed'[c] = owed[c]
          /\ toClient'[c] = IF peer[c] = "gone" THEN toClient[c]
                            ELSE toClient[c] \o Sent(c, q)
      BY <1>t, <2>5 DEF Close, Cleared, TypeOK
    <3>2. Pushes(out'[c]) <= MaxOut
      BY <3>1, IpcAssumption, CountEmpty DEF Pushes
    <3>3. /\ Acks(toClient[c] \o Sent(c, q)) \in Nat
          /\ Acks(Unsent(c, q)) \in Nat /\ Acks(toClient[c]) \in Nat
          /\ Acks(out[c]) \in Nat /\ Asks(Tail(toServer[c])) \in Nat
      BY <2>1, <2>3, <2>4, AcksRange, AsksRange
    <3>4. ASSUME peer[c] # "gone"
          PROVE  Acks(toClient[c] \o Sent(c, q)) <= owed[c]
      <4>1. owed[c] = Asks(Tail(toServer[c])) + 1 + Acks(out[c]) + Acks(toClient[c])
        BY <2>1, <2>3, <3>4 DEF Books
      <4>2. Acks(toClient[c] \o Sent(c, q)) + Acks(Unsent(c, q))
              = Acks(toClient[c]) + Acks(out[c]) + 1
        BY <2>2, <2>4, <3>3
      <4> QED
        BY <3>3, <4>1, <4>2
    <3> QED
      BY <2>1, <2>4, <3>1, <3>2, <3>4 DEF Books
  <2>8. ASSUME NEW d \in Clients \ {c} PROVE Books(d)'
    BY <1>t, <2>5, <2>8 DEF Close, Cleared, TypeOK, Books
  <2>9. TypeOK' /\ starts' <= ops' + 1
    BY <1>t, <1>r, <2>5, <2>6 DEF TypeOK
  <2> QED
    BY <2>7, <2>8, <2>9 DEF LedgerInv
<1>14. ASSUME NEW c \in Clients, ReadEnd(c)
       PROVE  LedgerInv'
  <2>1. QueuesOK' /\ \A d \in Clients : Books(d)'
    <3>1. CASE UNCHANGED <<serverVars, toServer>>
      BY <1>14, <1>q, <1>t, <1>b, <3>1 DEF ReadEnd, QueuesOK
    <3>2. CASE Close({c})
      BY <1>14, <3>2, ClosedBooks DEF ReadEnd
    <3> QED
      BY <1>14, <3>1, <3>2 DEF ReadEnd
  <2>2. TypeOK' /\ starts' <= ops' + 1
    BY <1>14, <1>t, <1>r, <2>1 DEF ReadEnd, TypeOK
  <2> QED
    BY <2>1, <2>2 DEF LedgerInv
<1>15. CASE Restart
  <2>1. QueuesOK' /\ \A d \in Clients : Books(d)'
    BY <1>15, ClosedBooks DEF Restart
  <2>2. status' \in Statuses /\ status'.at <= changes
    BY <1>15, <1>t, IpcAssumption DEF Restart, TypeOK, Statuses
  <2>3. ops' \in 0..MaxOps /\ starts' \in 1..MaxOps + 1 /\ starts' <= ops' + 1
    BY <1>15, <1>t, IpcAssumption DEF Restart, TypeOK
  <2>4. TypeOK'
    BY <1>15, <1>t, <1>n, <2>1, <2>2, <2>3 DEF Restart, TypeOK, QueuesOK
  <2> QED
    BY <2>1, <2>3, <2>4 DEF LedgerInv
<1>16. ASSUME NEW c \in Clients, Connect(c)
       PROVE  LedgerInv'
  <2>1. TypeOK'
    BY <1>16, <1>t DEF Connect, TypeOK
  <2>2. Books(c)'
    <3>1. /\ toClient'[c] = <<>> /\ toServer'[c] = <<>> /\ out'[c] = <<>>
          /\ session'[c] = "backlog" /\ owed'[c] = 0
      BY <1>16, <1>t DEF Connect, Books, TypeOK
    <3>2. /\ Acks(<<>>) = 0 /\ Asks(<<>>) = 0 /\ Pushes(<<>>) = 0
          /\ Len(<<>>) = 0 /\ MaxOut \in Nat /\ Pipe \in Nat
      BY CountEmpty, IpcAssumption DEF Acks, Asks, Pushes
    <3> QED
      BY <3>1, <3>2 DEF Books
  <2>3. ASSUME NEW d \in Clients \ {c} PROVE Books(d)'
    BY <1>16, <1>t, <2>3 DEF Connect, TypeOK, Books
  <2> QED
    BY <1>16, <1>t, <2>1, <2>2, <2>3 DEF Connect, LedgerInv
<1>17. ASSUME NEW c \in Clients, NEW verb \in Verbs, SendRequest(c, verb)
       PROVE  LedgerInv'
  <2>1. /\ toServer[c] \in Seq(Verbs) /\ out[c] \in Seq(Lines)
        /\ toClient[c] \in Seq(Lines) /\ owed[c] \in Nat /\ Books(c)
    BY <1>t DEF TypeOK
  <2>2. /\ Append(toServer[c], verb) \in Seq(Verbs)
        /\ Asks(Append(toServer[c], verb))
             = Asks(toServer[c]) + (IF verb \in Acked THEN 1 ELSE 0)
    BY <2>1, CountAppend DEF Asks
  <2>3. /\ ops' \in 0..MaxOps /\ starts' <= ops' + 1 /\ starts' \in 1..MaxOps + 1
    BY <1>17, <1>t, IpcAssumption DEF SendRequest, TypeOK
  <2>4. /\ toServer' \in [Clients -> Seq(Verbs)] /\ owed' \in [Clients -> Nat]
    BY <1>17, <1>t, <2>1, <2>2 DEF SendRequest, TypeOK
  <2>5. TypeOK'
    BY <1>17, <1>t, <2>3, <2>4 DEF SendRequest, TypeOK
  <2>6. Books(c)'
    <3>1. /\ toServer'[c] = Append(toServer[c], verb)
          /\ owed'[c] = owed[c] + (IF verb \in Acked THEN 1 ELSE 0)
          /\ UNCHANGED <<peer, session, out, toClient>>
          /\ peer[c] = "here" /\ session[c] # "none"
      BY <1>17, <1>t, <2>1 DEF SendRequest, TypeOK
    <3>2. /\ Acks(toClient[c]) \in Nat /\ Acks(out[c]) \in Nat
          /\ Asks(toServer[c]) \in Nat
      BY <2>1, AcksRange, AsksRange
    <3>3. /\ owed[c] = Asks(toServer[c]) + Acks(out[c]) + Acks(toClient[c])
          /\ Acks(toClient[c]) <= owed[c]
      BY <2>1, <3>1 DEF Books
    <3>4. owed'[c] = Asks(toServer'[c]) + Acks(out[c]) + Acks(toClient[c])
      <4>1. CASE verb \in Acked
        BY <2>2, <3>1, <3>2, <3>3, <4>1
      <4>2. CASE verb \notin Acked
        BY <2>2, <3>1, <3>2, <3>3, <4>2
      <4> QED
        BY <4>1, <4>2
    <3>5. Acks(toClient[c]) <= owed'[c]
      BY <2>1, <3>1, <3>2, <3>3
    <3> QED
      BY <2>1, <3>1, <3>4, <3>5 DEF Books
  <2>7. ASSUME NEW d \in Clients \ {c} PROVE Books(d)'
    BY <1>17, <1>t, <2>7 DEF SendRequest, TypeOK, Books
  <2> QED
    BY <2>3, <2>5, <2>6, <2>7 DEF LedgerInv
<1>18. ASSUME NEW c \in Clients, ReadReply(c)
       PROVE  LedgerInv'
  <2> DEFINE line == Head(toClient[c])
  <2>1. /\ toServer[c] \in Seq(Verbs) /\ out[c] \in Seq(Lines)
        /\ toClient[c] \in Seq(Lines) /\ toClient[c] # <<>>
        /\ owed[c] \in Nat /\ peer[c] # "gone" /\ Books(c)
    BY <1>18, <1>t DEF ReadReply, TypeOK
  <2>2. /\ Tail(toClient[c]) \in Seq(Lines) /\ line \in Lines
        /\ Acks(toClient[c]) = Acks(Tail(toClient[c]))
                               + (IF line \in AckLines THEN 1 ELSE 0)
        /\ Len(Tail(toClient[c])) <= Pipe
    <3>1. Len(Tail(toClient[c])) <= Pipe
      <4>1. /\ Len(Tail(toClient[c])) = Len(toClient[c]) - 1
            /\ Len(toClient[c]) \in Nat /\ Len(toClient[c]) <= Pipe
            /\ Pipe \in Nat
        BY <2>1, HeadTailProperties, LenProperties, IpcAssumption DEF Books
      <4> QED
        BY <4>1
    <3> QED
      BY <2>1, <3>1, CountTail DEF Acks
  <2>3. /\ Acks(toClient[c]) \in Nat /\ Acks(Tail(toClient[c])) \in Nat
        /\ Acks(out[c]) \in Nat /\ Asks(toServer[c]) \in Nat
        /\ Acks(toClient[c]) <= owed[c]
    BY <2>1, <2>2, AcksRange, AsksRange DEF Books
  <2>4. owed' = IF line.kind = "ack" THEN [owed EXCEPT ![c] = @ - 1] ELSE owed
    BY <1>18 DEF ReadReply
  <2>5. line \in AckLines <=> line.kind = "ack"
    BY <2>2 DEF AckLines
  <2>6. owed'[c] \in Nat /\ Acks(Tail(toClient[c])) <= owed'[c]
        /\ owed'[c] - Acks(Tail(toClient[c])) = owed[c] - Acks(toClient[c])
    <3>1. CASE line.kind = "ack"
      <4>1. owed'[c] = owed[c] - 1
        BY <1>t, <2>4, <3>1 DEF TypeOK
      <4>2. Acks(toClient[c]) = Acks(Tail(toClient[c])) + 1
        BY <2>2, <2>5, <3>1
      <4>3. owed[c] \in Nat
        BY <2>1
      <4> HIDE DEF line
      <4> QED
        BY <2>3, <4>1, <4>2, <4>3
    <3>2. CASE line.kind # "ack"
      <4>1. owed'[c] = owed[c]
        BY <2>4, <3>2
      <4>2. Acks(toClient[c]) = Acks(Tail(toClient[c])) + 0
        BY <2>2, <2>5, <3>2
      <4>3. owed[c] \in Nat
        BY <2>1
      <4> HIDE DEF line
      <4> QED
        BY <2>3, <4>1, <4>2, <4>3
    <3> QED
      BY <3>1, <3>2
  <2>7. /\ toClient' = [toClient EXCEPT ![c] = Tail(toClient[c])]
        /\ heard' = IF line.kind = "ack" THEN heard
                    ELSE [heard EXCEPT ![c] = line.body]
    BY <1>18 DEF ReadReply
  <2>8. line.body \in Statuses \cup {NoStatus}
    BY <2>2 DEF Lines
  <2> HIDE DEF line
  <2>9. TypeOK'
    <3>1. toClient' \in [Clients -> Seq(Lines)]
      BY <1>t, <2>2, <2>7 DEF TypeOK
    <3>2. owed' \in [Clients -> Nat]
      BY <1>t, <2>4, <2>6 DEF TypeOK
    <3>3. heard' \in [Clients -> Statuses \cup {NoStatus}]
      BY <1>t, <2>7, <2>8 DEF TypeOK
    <3> QED
      BY <1>18, <1>t, <3>1, <3>2, <3>3 DEF ReadReply, TypeOK
  <2>10. Books(c)'
    <3>1. /\ toClient'[c] = Tail(toClient[c])
          /\ UNCHANGED <<peer, session, toServer, out>>
      BY <1>18, <1>t, <2>7 DEF ReadReply, TypeOK
    <3>2. session[c] # "none" =>
            owed[c] = Asks(toServer[c]) + Acks(out[c]) + Acks(toClient[c])
      BY <2>1 DEF Books
    <3>3. session[c] # "none" =>
            owed'[c] = Asks(toServer[c]) + Acks(out[c]) + Acks(Tail(toClient[c]))
      BY <2>1, <2>3, <2>6, <3>2
    <3> QED
      BY <2>1, <2>2, <2>6, <3>1, <3>3 DEF Books
  <2>11. ASSUME NEW d \in Clients \ {c} PROVE Books(d)'
    BY <1>18, <1>t, <2>4, <2>7, <2>11 DEF ReadReply, TypeOK, Books
  <2> QED
    BY <1>18, <1>t, <2>9, <2>10, <2>11 DEF ReadReply, LedgerInv
<1>19. ASSUME NEW c \in Clients, Leave(c)
       PROVE  LedgerInv'
  <2>1. TypeOK'
    BY <1>19, <1>t, EmptySeq DEF Leave, TypeOK
  <2>2. Books(c)'
    <3>1. /\ peer'[c] = "gone" /\ toClient'[c] = <<>>
          /\ UNCHANGED <<session, toServer, out>>
      BY <1>19, <1>t DEF Leave, TypeOK
    <3>2. Len(<<>>) <= Pipe
      BY IpcAssumption
    <3> QED
      BY <1>t, <3>1, <3>2 DEF Books
  <2>3. ASSUME NEW d \in Clients \ {c} PROVE Books(d)'
    BY <1>19, <1>t, <2>3 DEF Leave, TypeOK, Books
  <2> QED
    BY <1>19, <1>t, <2>1, <2>2, <2>3 DEF Leave, LedgerInv
<1>20. ASSUME NEW c \in Clients, ShutDownSending(c)
       PROVE  LedgerInv'
  <2>1. TypeOK'
    BY <1>20, <1>t DEF ShutDownSending, TypeOK
  <2>2. ASSUME NEW d \in Clients PROVE Books(d)'
    BY <1>20, <1>t, <2>2 DEF ShutDownSending, TypeOK, Books
  <2> QED
    BY <1>20, <1>t, <2>1, <2>2 DEF ShutDownSending, LedgerInv
<1>21. CASE UNCHANGED vars
  <2>1. TypeOK'
    BY <1>21, <1>t DEF vars, TypeOK
  <2> QED
    BY <1>21, <1>t, <1>b, <2>1 DEF vars, LedgerInv
<1> QED
  BY <1>1, <1>2, <1>3, <1>4, <1>5, <1>6, <1>7, <1>9, <1>10, <1>11, <1>12, <1>13,
     <1>14, <1>15, <1>16, <1>17, <1>18, <1>19, <1>20, <1>21 DEF Next, Loop

LEMMA LedgerCorrect == Spec => []LedgerInv
<1>1. LedgerInv /\ LoopInv /\ [Next]_vars => LedgerInv'
  BY LedgerStep
<1> QED
  BY LedgerStart, <1>1, LoopCorrect, PTL DEF Spec

\* Every variable keeps its type, the count of acknowledgements included: it
\* is never below zero, because none arrives that is not waited for.
THEOREM TypeCorrect == Spec => []TypeOK
<1>1. LedgerInv => TypeOK
  BY DEF LedgerInv
<1> QED
  BY <1>1, LedgerCorrect, PTL

\* However requests, pushes, full sockets and closed sessions interleave: while
\* a connection lasts, each acknowledgement its client waits for is in a queue,
\* or its request is; for any number of clients and any buffers.
THEOREM AcksAreAccountedFor == Spec => []AcksAccountedFor
<1>1. LedgerInv => AcksAccountedFor
  BY DEF LedgerInv, Books, AcksAccountedFor
<1> QED
  BY <1>1, LedgerCorrect, PTL

\* Whatever a subscriber leaves unread, its queue holds at most maxOutBuffer_
\* of pushes, at every moment and for every limit.
THEOREM PushesAreBounded == Spec => []PushesBounded
<1>1. LedgerInv => PushesBounded
  BY DEF LedgerInv, Books, PushesBounded
<1> QED
  BY <1>1, LedgerCorrect, PTL
-----------------------------------------------------------------------------
(***************************************************************************)
(* The order of what a client reads.  The lines in its socket and then in  *)
(* its queue bear no older status after a newer one, none is older than    *)
(* what it read last, and none is newer than the status of now.            *)
(***************************************************************************)
Stamped(line) == line.kind # "ack"
Climbs(q, low, high) ==
    /\ low <= high
    /\ \A i \in 1..Len(q) : Stamped(q[i]) =>
          low <= q[i].body.at /\ q[i].body.at <= high
    /\ \A i, j \in 1..Len(q) :
          i < j /\ Stamped(q[i]) /\ Stamped(q[j]) =>
             q[i].body.at <= q[j].body.at

Flow(c) == toClient[c] \o out[c]
Climbing(c) == peer[c] # "gone" => Climbs(Flow(c), heard[c].at, status.at)
FlowsClimb == \A c \in Clients : Climbing(c)

LEMMA StampTypes ==
    /\ \A line \in Lines : line.body.at \in Nat
    /\ \A s \in Statuses \cup {NoStatus} : s.at \in Nat
    /\ NoStatus.at = 0
BY IpcAssumption DEF Lines, Statuses, NoStatus

LEMMA ClimbsAppend ==
    ASSUME NEW q \in Seq(Lines), NEW line \in Lines, NEW low \in Nat,
           NEW high \in Nat, Climbs(q, low, high),
           Stamped(line) => line.body.at = high
    PROVE  Climbs(Append(q, line), low, high)
<1>1. /\ Len(Append(q, line)) = Len(q) + 1 /\ Len(q) \in Nat
      /\ \A i \in 1..Len(q) : Append(q, line)[i] = q[i] /\ q[i] \in Lines
      /\ Append(q, line)[Len(q) + 1] = line
  BY AppendProperties, ElementOfSeq, LenProperties
<1>2. \A i \in 1..Len(q) + 1 : i \in 1..Len(q) \/ i = Len(q) + 1
  BY <1>1
<1> QED BY <1>1, <1>2, StampTypes DEF Climbs

LEMMA ClimbsHigher ==
    ASSUME NEW q \in Seq(Lines), NEW low \in Nat, NEW high \in Nat,
           NEW higher \in Nat, high <= higher, Climbs(q, low, high)
    PROVE  Climbs(q, low, higher)
<1>1. \A i \in 1..Len(q) : q[i].body.at \in Nat
  BY ElementOfSeq, StampTypes
<1> QED BY <1>1 DEF Climbs

LEMMA ClimbsPrefix ==
    ASSUME NEW p \in Seq(Lines), NEW q \in Seq(Lines), NEW low, NEW high,
           Climbs(p \o q, low, high)
    PROVE  Climbs(p, low, high)
<1>1. /\ Len(p \o q) = Len(p) + Len(q) /\ Len(p) \in Nat /\ Len(q) \in Nat
      /\ \A i \in 1..Len(p) : i \in 1..Len(p) + Len(q) /\ (p \o q)[i] = p[i]
  BY ConcatProperties, LenProperties
<1> QED BY <1>1 DEF Climbs

LEMMA ClimbsTail ==
    ASSUME NEW q \in Seq(Lines), q # <<>>, NEW low \in Nat, NEW high \in Nat,
           Climbs(q, low, high)
    PROVE  /\ Stamped(Head(q)) => /\ low <= Head(q).body.at
                                  /\ Climbs(Tail(q), Head(q).body.at, high)
           /\ Climbs(Tail(q), low, high)
<1>1. /\ Len(Tail(q)) = Len(q) - 1 /\ Len(q) \in Nat /\ Len(q) > 0
      /\ \A i \in 1..Len(Tail(q)) : Tail(q)[i] = q[i + 1]
      /\ Head(q) = q[1]
  BY HeadTailProperties, LenProperties, EmptySeq
<1>2. \A i \in 1..Len(Tail(q)) : i + 1 \in 1..Len(q) /\ 1 < i + 1
  BY <1>1
<1>3. 1 \in 1..Len(q)
  BY <1>1
<1>4. \A i, j \in 1..Len(Tail(q)) : i < j => i + 1 < j + 1
  BY <1>1
<1> QED BY <1>1, <1>2, <1>3, <1>4 DEF Climbs

\* what the socket takes and what stays are the queue again
LEMMA CutIsWhole ==
    ASSUME NEW c \in Clients, NEW q \in Seq(Lines),
           toClient[c] \in Seq(Lines), Len(toClient[c]) <= Pipe
    PROVE  /\ Sent(c, q) \in Seq(Lines) /\ Unsent(c, q) \in Seq(Lines)
           /\ (toClient[c] \o Sent(c, q)) \o Unsent(c, q) = toClient[c] \o q
<1> DEFINE n == Taken(c, q)
<1>1. n \in 0..Len(q) /\ Len(q) \in Nat
  <2>1. Len(q) \in Nat /\ Len(toClient[c]) \in Nat /\ Pipe \in Nat
    BY IpcAssumption, LenProperties
  <2> QED BY <2>1 DEF Taken
<1> HIDE DEF n
<1>2. /\ SubSeq(q, 1, n) \in Seq(Lines)
      /\ SubSeq(q, n + 1, Len(q)) \in Seq(Lines)
  BY <1>1, CountSplit
<1>3. SubSeq(q, 1, n) \o SubSeq(q, n + 1, Len(q)) = q
  <2>1. 1 \in 1..Len(q) + 1 /\ n \in 1 - 1..Len(q) /\ Len(q) \in n..Len(q)
    BY <1>1
  <2>2. SubSeq(q, 1, n) \o SubSeq(q, n + 1, Len(q)) = SubSeq(q, 1, Len(q))
    BY <2>1, ConcatAdjacentSubSeq
  <2> QED BY <2>2, SubSeqFull
<1>4. Sent(c, q) = SubSeq(q, 1, n) /\ Unsent(c, q) = SubSeq(q, n + 1, Len(q))
  BY DEF n, Sent, Unsent
<1>5. /\ Sent(c, q) \in Seq(Lines) /\ Unsent(c, q) \in Seq(Lines)
      /\ Sent(c, q) \o Unsent(c, q) = q
  BY <1>2, <1>3, <1>4
<1>6. (toClient[c] \o Sent(c, q)) \o Unsent(c, q)
        = toClient[c] \o (Sent(c, q) \o Unsent(c, q))
  <2> DEFINE a == toClient[c]
             b == Sent(c, q)
             d == Unsent(c, q)
  <2>1. a \in Seq(Lines) /\ b \in Seq(Lines) /\ d \in Seq(Lines)
    BY <1>5
  <2> HIDE DEF a, b, d
  <2>2. (a \o b) \o d = a \o (b \o d)
    BY <2>1, ConcatAssociative
  <2> QED BY <2>2 DEF a, b, d
<1> QED BY <1>5, <1>6

\* the first line of what lies in the socket is the first of all
LEMMA FirstOfFlow ==
    ASSUME NEW T, NEW p \in Seq(T), NEW q \in Seq(T), p # <<>>
    PROVE  /\ p \o q # <<>> /\ Head(p \o q) = Head(p)
           /\ Tail(p \o q) = Tail(p) \o q
<1>1. /\ Len(p) \in Nat /\ Len(q) \in Nat /\ Len(p) > 0
      /\ p \o q \in Seq(T) /\ Len(p \o q) = Len(p) + Len(q)
      /\ \A i \in 1..Len(p) + Len(q) :
            (p \o q)[i] = IF i <= Len(p) THEN p[i] ELSE q[i - Len(p)]
  BY LenProperties, ConcatProperties, EmptySeq
<1>2. p \o q # <<>>
  BY <1>1
<1>3. /\ Tail(p) \in Seq(T) /\ Len(Tail(p)) = Len(p) - 1
      /\ \A i \in 1..Len(Tail(p)) : Tail(p)[i] = p[i + 1]
  BY HeadTailProperties
<1>4. /\ Tail(p \o q) \in Seq(T) /\ Len(Tail(p \o q)) = Len(p \o q) - 1
      /\ \A i \in 1..Len(Tail(p \o q)) : Tail(p \o q)[i] = (p \o q)[i + 1]
  BY <1>1, <1>2, HeadTailProperties
<1>5. /\ Tail(p) \o q \in Seq(T) /\ Len(Tail(p) \o q) = Len(p) - 1 + Len(q)
      /\ \A i \in 1..Len(p) - 1 + Len(q) :
            (Tail(p) \o q)[i] = IF i <= Len(p) - 1 THEN Tail(p)[i]
                                                  ELSE q[i - (Len(p) - 1)]
  BY <1>3, ConcatProperties
<1>6. \A i \in 1..Len(p) - 1 + Len(q) :
          Tail(p \o q)[i] = (Tail(p) \o q)[i]
  BY <1>1, <1>3, <1>4, <1>5
<1>7. Tail(p \o q) = Tail(p) \o q
  BY <1>1, <1>4, <1>5, <1>6, SeqEqual
<1>8. Head(p \o q) = Head(p)
  BY <1>1
<1> QED BY <1>2, <1>7, <1>8

LEMMA FlowTypes ==
    ASSUME LedgerInv, NEW c \in Clients
    PROVE  /\ toClient[c] \in Seq(Lines) /\ out[c] \in Seq(Lines)
           /\ Flow(c) \in Seq(Lines) /\ Len(toClient[c]) <= Pipe
           /\ heard[c].at \in Nat /\ status.at \in Nat
           /\ status \in Statuses
<1>1. /\ toClient[c] \in Seq(Lines) /\ out[c] \in Seq(Lines)
      /\ Len(toClient[c]) <= Pipe /\ heard[c] \in Statuses \cup {NoStatus}
      /\ status \in Statuses
  BY DEF LedgerInv, TypeOK, Books
<1> QED BY <1>1, StampTypes, ConcatProperties DEF Flow

\* A line that is said goes to the end of the flow.
LEMMA FlowAppends ==
    ASSUME LedgerInv, NEW c \in Clients, NEW line \in Lines
    PROVE  LET q == Append(out[c], line)
           IN  /\ q \in Seq(Lines)
               /\ toClient[c] \o q = Append(Flow(c), line)
               /\ (toClient[c] \o Sent(c, q)) \o Unsent(c, q)
                     = Append(Flow(c), line)
               /\ toClient[c] \o Sent(c, q) \in Seq(Lines)
               /\ Unsent(c, q) \in Seq(Lines)
<1> DEFINE q == Append(out[c], line)
<1>1. /\ Append(Flow(c), line) = Flow(c) \o <<line>>
      /\ q = out[c] \o <<line>> /\ <<line>> \in Seq(Lines)
      /\ q \in Seq(Lines)
  BY FlowTypes, AppendIsConcat, AppendProperties
<1> HIDE DEF q
<1>2. (toClient[c] \o out[c]) \o <<line>> = toClient[c] \o (out[c] \o <<line>>)
  <2> DEFINE a == toClient[c]
             b == out[c]
             d == <<line>>
  <2>1. a \in Seq(Lines) /\ b \in Seq(Lines) /\ d \in Seq(Lines)
    BY <1>1, FlowTypes
  <2> HIDE DEF a, b, d
  <2>2. (a \o b) \o d = a \o (b \o d)
    BY <2>1, ConcatAssociative
  <2> QED BY <2>2 DEF a, b, d
<1>3. toClient[c] \o q = Append(Flow(c), line)
  BY <1>1, <1>2 DEF Flow
<1>4. /\ Sent(c, q) \in Seq(Lines) /\ Unsent(c, q) \in Seq(Lines)
      /\ (toClient[c] \o Sent(c, q)) \o Unsent(c, q) = toClient[c] \o q
      /\ toClient[c] \o Sent(c, q) \in Seq(Lines)
  BY <1>1, FlowTypes, CutIsWhole, ConcatProperties
<1> QED BY <1>1, <1>3, <1>4 DEF q

\* The stamp of the status never goes back, not at a restart either.
LEMMA StampGrows ==
    ASSUME LedgerInv, [Next]_vars
    PROVE  status'.at \in Nat /\ status.at <= status'.at
<1>0. status.at \in Nat
  BY StampTypes DEF LedgerInv, TypeOK
<1>1. ASSUME Headset PROVE status'.at \in {status.at, status.at + 1}
  BY <1>1 DEF Headset, Commit, stateVars
<1>2. ASSUME NEW c \in Clients, Set(c) PROVE Headset
  BY <1>2 DEF Set
<1>3. CASE Poll \/ Served
  <2>1. Headset
    BY <1>3 DEF Poll, Served
  <2> QED BY <1>0, <1>1, <2>1
<1>4. CASE Restart
  BY <1>0, <1>4 DEF Restart
<1>5. ASSUME status' = status PROVE status'.at \in Nat /\ status.at <= status'.at
  BY <1>0, <1>5
<1>6. CASE Accept \/ Publish
  BY <1>5, <1>6 DEF Accept, Publish, stateVars
<1>7. ASSUME NEW c \in Clients,
             \/ HangUp(c) \/ Write(c) \/ Read(c) \/ Subscribe(c)
             \/ Unsubscribe(c) \/ Status(c) \/ TooLong(c) \/ ReadEnd(c)
      PROVE  status' = status
  BY <1>7 DEF HangUp, Write, Read, Subscribe, Unsubscribe, Status, TooLong,
              ReadEnd, stateVars
<1>8. ASSUME NEW c \in Clients,
             \/ Connect(c) \/ ReadReply(c) \/ Leave(c) \/ ShutDownSending(c)
             \/ \E verb \in Verbs : SendRequest(c, verb)
      PROVE  status' = status
  BY <1>8 DEF Connect, ReadReply, Leave, ShutDownSending, SendRequest, stateVars
<1>9. CASE UNCHANGED vars
  BY <1>5, <1>9 DEF vars, stateVars
<1> QED
  BY <1>0, <1>1, <1>2, <1>3, <1>4, <1>5, <1>6, <1>7, <1>8, <1>9 DEF Next, Loop

\* The flow keeps climbing where it is left, cut short, or made longer by a
\* line of now.
LEMMA LeftClimbing ==
    ASSUME LedgerInv, NEW c \in Clients, Climbing(c),
           status'.at \in Nat, status.at <= status'.at,
           UNCHANGED <<peer[c], toClient[c], heard[c]>>,
           out'[c] = out[c] \/ out'[c] = <<>>
    PROVE  Climbing(c)'
<1>1. SUFFICES ASSUME peer[c] # "gone"
               PROVE  Climbs(toClient[c] \o out'[c], heard[c].at, status'.at)
  BY <1>1 DEF Climbing, Flow
<1>2. Climbs(Flow(c), heard[c].at, status'.at)
  BY <1>1, FlowTypes, ClimbsHigher DEF Climbing
<1>3. CASE out'[c] = out[c]
  BY <1>2, <1>3 DEF Flow
<1>4. CASE out'[c] = <<>>
  <2>1. toClient[c] \o <<>> = toClient[c]
    BY FlowTypes, ConcatEmptySeq
  <2> QED BY <1>2, <1>4, <2>1, FlowTypes, ClimbsPrefix DEF Flow
<1> QED BY <1>3, <1>4

LEMMA LineClimbs ==
    ASSUME LedgerInv, NEW c \in Clients, Climbing(c), peer[c] # "gone",
           NEW high \in Nat, status.at <= high, NEW line \in Lines,
           Stamped(line) => line.body.at = high
    PROVE  LET q == Append(out[c], line)
           IN  /\ q \in Seq(Lines)
               /\ Climbs((toClient[c] \o Sent(c, q)) \o Unsent(c, q),
                         heard[c].at, high)
               /\ Climbs(toClient[c] \o Sent(c, q), heard[c].at, high)
<1> DEFINE q == Append(out[c], line)
<1>1. /\ q \in Seq(Lines) /\ Unsent(c, q) \in Seq(Lines)
      /\ toClient[c] \o Sent(c, q) \in Seq(Lines)
      /\ (toClient[c] \o Sent(c, q)) \o Unsent(c, q) = Append(Flow(c), line)
  BY FlowAppends
<1>2. Climbs(Append(Flow(c), line), heard[c].at, high)
  BY FlowTypes, ClimbsHigher, ClimbsAppend DEF Climbing
<1> HIDE DEF q
<1>3. Climbs(toClient[c] \o Sent(c, q), heard[c].at, high)
  BY <1>1, <1>2, ClimbsPrefix
<1> QED BY <1>1, <1>2, <1>3 DEF q

LEMMA ReplyClimbs ==
    ASSUME LedgerInv, FlowsClimb, NEW c \in Clients, NEW line \in Lines,
           NEW on, Reply(c, line, on), UNCHANGED <<peer, heard>>,
           status'.at \in Nat, status.at <= status'.at,
           Stamped(line) => line.body.at = status'.at
    PROVE  FlowsClimb'
<1>1. SUFFICES ASSUME NEW d \in Clients PROVE Climbing(d)'
  BY <1>1 DEF FlowsClimb
<1>t. out \in [Clients -> Seq(Lines)] /\ toClient \in [Clients -> Seq(Lines)]
  BY DEF LedgerInv, TypeOK
<1>2. CASE Close({c}) /\ UNCHANGED toClient
  <2>1. out'[d] = out[d] \/ out'[d] = <<>>
    BY <1>2 DEF Close, Cleared
  <2> QED BY <1>2, <2>1, LeftClimbing DEF FlowsClimb
<1>3. CASE peer[c] # "gone" /\ Flush(c, Append(out[c], line))
  <2>1. CASE d # c
    BY <1>3, <1>t, <2>1, LeftClimbing DEF Flush, FlowsClimb
  <2>2. CASE d = c
    <3> DEFINE q == Append(out[c], line)
    <3>1. toClient'[c] = toClient[c] \o Sent(c, q) /\ out'[c] = Unsent(c, q)
      BY <1>3, <1>t DEF Flush
    <3>2. Climbs((toClient[c] \o Sent(c, q)) \o Unsent(c, q), heard[c].at,
                 status'.at)
      BY <1>3, LineClimbs DEF FlowsClimb
    <3> QED BY <2>2, <3>1, <3>2 DEF Climbing, Flow
  <2> QED BY <2>1, <2>2
<1> QED BY <1>2, <1>3 DEF Reply

LEMMA BroadcastClimbs ==
    ASSUME LedgerInv, FlowsClimb, Broadcast(status),
           UNCHANGED <<peer, heard, status>>
    PROVE  FlowsClimb'
<1> DEFINE dropped == {c \in Subscribers : Stalled(c)}
           pushed  == Subscribers \ dropped
           q(c) == Append(out[c], Push(status))
<1>1. /\ out' = [c \in Clients |-> IF c \in pushed THEN Unsent(c, q(c))
                                   ELSE Cleared(out, dropped, <<>>)[c]]
      /\ toClient' = [c \in Clients |->
                        IF c \in pushed THEN toClient[c] \o Sent(c, q(c))
                        ELSE toClient[c]]
  BY Zenon DEF Broadcast
<1>2. SUFFICES ASSUME NEW c \in Clients PROVE Climbing(c)'
  BY <1>2 DEF FlowsClimb
<1>3. /\ status.at \in Nat /\ status.at <= status.at
      /\ Push(status) \in Lines /\ Push(status).body.at = status.at
  BY FlowTypes, LineTypes DEF Push
<1>4. CASE c \in pushed
  <2>1. peer[c] # "gone"
    BY <1>4 DEF Stalled, Subscribers
  <2>2. Climbs((toClient[c] \o Sent(c, q(c))) \o Unsent(c, q(c)), heard[c].at,
               status.at)
    BY <1>3, <2>1, LineClimbs DEF FlowsClimb
  <2>3. toClient'[c] = toClient[c] \o Sent(c, q(c)) /\ out'[c] = Unsent(c, q(c))
    BY <1>1, <1>4
  <2> QED BY <2>2, <2>3 DEF Climbing, Flow
<1>5. CASE c \notin pushed
  <2>1. toClient'[c] = toClient[c] /\ (out'[c] = out[c] \/ out'[c] = <<>>)
    BY <1>1, <1>5 DEF Cleared
  <2> QED BY <1>3, <2>1, LeftClimbing DEF FlowsClimb
<1> QED BY <1>4, <1>5

LEMMA FlowsStep ==
    ASSUME LedgerInv, LoopInv, FlowsClimb, [Next]_vars
    PROVE  FlowsClimb'
<1> USE DEF Due, clientVars, serverVars, loopVars, stateVars, boundVars
<1>s. status'.at \in Nat /\ status.at <= status'.at
  BY StampGrows
<1>t. /\ out \in [Clients -> Seq(Lines)] /\ toClient \in [Clients -> Seq(Lines)]
      /\ heard \in [Clients -> Statuses \cup {NoStatus}]
      /\ peer \in [Clients -> {"gone", "here", "half"}]
  BY DEF LedgerInv, TypeOK
<1>l. /\ Answer(status) \in Lines /\ Answer(status).body.at = status.at
      /\ Ack \in Lines /\ ~Stamped(Ack)
  BY LineTypes DEF LedgerInv, TypeOK, Answer, Ack, Stamped
<1>a. ASSUME UNCHANGED <<peer, toClient, heard>>,
             \A c \in Clients : out'[c] = out[c] \/ out'[c] = <<>>
      PROVE  FlowsClimb'
  BY <1>a, <1>s, LeftClimbing DEF FlowsClimb
<1>c. ASSUME NEW S \in SUBSET Clients, Close(S), UNCHANGED <<peer, toClient, heard>>
      PROVE  FlowsClimb'
  BY <1>a, <1>c DEF Close, Cleared
<1>1. CASE Poll \/ Accept \/ Served
  BY <1>1, <1>a DEF Poll, Accept, Served
<1>2. CASE Publish
  BY <1>2, <1>a, BroadcastClimbs DEF Publish
<1>3. ASSUME NEW c \in Clients, HangUp(c) PROVE FlowsClimb'
  BY <1>3, <1>c DEF HangUp
<1>4. ASSUME NEW c \in Clients, Write(c) PROVE FlowsClimb'
  <2>1. CASE peer[c] = "gone"
    BY <1>4, <1>c, <2>1 DEF Write
  <2>2. CASE peer[c] # "gone"
    <3>1. /\ toClient' = [toClient EXCEPT ![c] = @ \o Sent(c, out[c])]
          /\ out' = [out EXCEPT ![c] = Unsent(c, out[c])]
          /\ UNCHANGED <<peer, heard, status>>
      BY <1>4, <2>2 DEF Write, Flush
    <3>2. SUFFICES ASSUME NEW d \in Clients PROVE Climbing(d)'
      BY <3>2 DEF FlowsClimb
    <3>3. CASE d # c
      BY <1>s, <1>t, <3>1, <3>3, LeftClimbing DEF FlowsClimb
    <3>4. CASE d = c
      <4>1. Flow(d)' = Flow(d)
        BY <1>t, <3>1, <3>4, FlowTypes, CutIsWhole DEF Flow
      <4> QED BY <3>1, <4>1 DEF FlowsClimb, Climbing
    <3> QED BY <3>3, <3>4
  <2> QED BY <2>1, <2>2
<1>5. ASSUME NEW c \in Clients, Read(c) PROVE FlowsClimb'
  BY <1>5, <1>a DEF Read
<1>6. ASSUME NEW c \in Clients, Subscribe(c) \/ Status(c) PROVE FlowsClimb'
  BY <1>6, <1>s, <1>l, ReplyClimbs DEF Subscribe, Status
<1>7. ASSUME NEW c \in Clients, Unsubscribe(c) \/ Set(c) PROVE FlowsClimb'
  BY <1>7, <1>s, <1>l, ReplyClimbs DEF Unsubscribe, Set
<1>8. ASSUME NEW c \in Clients, TooLong(c) PROVE FlowsClimb'
  <2>1. /\ toClient' = IF peer[c] = "gone" THEN toClient
                       ELSE [toClient EXCEPT
                               ![c] = @ \o Sent(c, Append(out[c], Ack))]
        /\ Close({c}) /\ UNCHANGED <<peer, heard, status>>
    BY <1>8 DEF TooLong
  <2>2. CASE peer[c] = "gone"
    BY <1>c, <2>1, <2>2
  <2>3. CASE peer[c] # "gone"
    <3>1. SUFFICES ASSUME NEW d \in Clients PROVE Climbing(d)'
      BY <3>1 DEF FlowsClimb
    <3>2. CASE d # c
      <4>1. toClient'[d] = toClient[d] /\ out'[d] = out[d]
        BY <1>t, <2>1, <3>2 DEF Close, Cleared
      <4> QED BY <1>s, <2>1, <4>1, LeftClimbing DEF FlowsClimb
    <3>3. CASE d = c
      <4> DEFINE q == Append(out[c], Ack)
      <4>1. toClient'[d] = toClient[c] \o Sent(c, q) /\ out'[d] = <<>>
        BY <1>t, <2>1, <2>3, <3>3 DEF Close, Cleared
      <4>2. q \in Seq(Lines) /\ Climbs(toClient[c] \o Sent(c, q), heard[c].at, status.at)
        BY <1>s, <1>l, <2>1, <2>3, LineClimbs DEF FlowsClimb
      <4>3. (toClient[c] \o Sent(c, q)) \o <<>> = toClient[c] \o Sent(c, q)
        BY <4>2, FlowTypes, CutIsWhole, ConcatProperties, ConcatEmptySeq
      <4> QED BY <2>1, <3>3, <4>1, <4>2, <4>3 DEF Climbing, Flow
    <3> QED BY <3>2, <3>3
  <2> QED BY <2>2, <2>3
<1>9. ASSUME NEW c \in Clients, ReadEnd(c) PROVE FlowsClimb'
  BY <1>9, <1>a, <1>c DEF ReadEnd
<1>10. CASE Restart
  BY <1>10, <1>c DEF Restart
<1>11. ASSUME NEW c \in Clients, Connect(c) PROVE FlowsClimb'
  <2>1. SUFFICES ASSUME NEW d \in Clients PROVE Climbing(d)'
    BY <2>1 DEF FlowsClimb
  <2>2. UNCHANGED <<toClient, out, status>>
    BY <1>11 DEF Connect
  <2>3. CASE d # c
    BY <1>11, <1>s, <1>t, <2>2, <2>3, LeftClimbing DEF Connect, FlowsClimb
  <2>4. CASE d = c
    <3>1. toClient[c] = <<>> /\ out[c] = <<>>
      BY <1>11 DEF Connect, LedgerInv, Books
    <3>2. Flow(c)' = <<>> /\ Len(<<>>) = 0
      BY <2>2, <3>1 DEF Flow
    <3>3. heard'[c].at = 0 /\ status.at \in Nat
      BY <1>11, <1>t, StampTypes, FlowTypes DEF Connect
    <3> QED BY <2>2, <2>4, <3>2, <3>3 DEF Climbing, Climbs
  <2> QED BY <2>3, <2>4
<1>12. ASSUME NEW c \in Clients, ReadReply(c) PROVE FlowsClimb'
  <2>1. SUFFICES ASSUME NEW d \in Clients PROVE Climbing(d)'
    BY <2>1 DEF FlowsClimb
  <2> DEFINE line == Head(toClient[c])
  <2>2. /\ peer[c] # "gone" /\ toClient[c] # <<>>
        /\ toClient' = [toClient EXCEPT ![c] = Tail(@)]
        /\ heard' = IF line.kind = "ack" THEN heard
                    ELSE [heard EXCEPT ![c] = line.body]
        /\ UNCHANGED <<peer, out, status>>
    BY <1>12 DEF ReadReply
  <2>3. CASE d # c
    BY <1>s, <1>t, <2>2, <2>3, LeftClimbing DEF FlowsClimb
  <2>4. CASE d = c
    <3>1. /\ Head(Flow(c)) = line /\ Tail(Flow(c)) = Tail(toClient[c]) \o out[c]
          /\ Flow(c) # <<>> /\ Flow(c) \in Seq(Lines)
      BY <2>2, FlowTypes, FirstOfFlow DEF Flow
    <3>2. Climbs(Flow(c), heard[c].at, status.at)
      BY <2>2 DEF FlowsClimb, Climbing
    <3>3. /\ Stamped(line) => Climbs(Tail(Flow(c)), line.body.at, status.at)
          /\ Climbs(Tail(Flow(c)), heard[c].at, status.at)
      BY <3>1, <3>2, FlowTypes, ClimbsTail
    <3>4. Flow(c)' = Tail(Flow(c))
      BY <1>t, <2>2, <3>1 DEF Flow
    <3>5. heard'[c] = IF Stamped(line) THEN line.body ELSE heard[c]
      BY <1>t, <2>2 DEF Stamped
    <3> HIDE DEF line
    <3> QED BY <2>2, <2>4, <3>3, <3>4, <3>5 DEF Climbing
  <2> QED BY <2>3, <2>4
<1>13. ASSUME NEW c \in Clients, Leave(c) PROVE FlowsClimb'
  <2>1. SUFFICES ASSUME NEW d \in Clients PROVE Climbing(d)'
    BY <2>1 DEF FlowsClimb
  <2>2. CASE d # c
    BY <1>13, <1>s, <1>t, <2>2, LeftClimbing DEF Leave, FlowsClimb
  <2>3. CASE d = c
    BY <1>13, <1>t, <2>3 DEF Leave, Climbing
  <2> QED BY <2>2, <2>3
<1>14. ASSUME NEW c \in Clients, ShutDownSending(c) PROVE FlowsClimb'
  BY <1>14, <1>t DEF ShutDownSending, FlowsClimb, Climbing, Flow
<1>15. ASSUME NEW c \in Clients, NEW verb \in Verbs, SendRequest(c, verb)
       PROVE  FlowsClimb'
  BY <1>15, <1>a DEF SendRequest
<1>16. CASE UNCHANGED vars
  BY <1>16, <1>a DEF vars
<1> QED
  BY <1>1, <1>2, <1>3, <1>4, <1>5, <1>6, <1>7, <1>8, <1>9, <1>10, <1>11, <1>12,
     <1>13, <1>14, <1>15, <1>16 DEF Next, Loop

LEMMA FlowsCorrect == Spec => []FlowsClimb
<1>1. Init => FlowsClimb
  BY DEF Init, FlowsClimb, Climbing
<1>2. LedgerInv /\ LoopInv /\ FlowsClimb /\ [Next]_vars => FlowsClimb'
  BY FlowsStep
<1> QED BY <1>1, <1>2, LedgerCorrect, LoopCorrect, PTL DEF Spec

\* On one connection a client never reads an older status after a newer one,
\* however pushes, answers, full sockets and restarts of the daemon interleave.
THEOREM StatusesNeverGoBack == Spec => NeverBackwards
<1>1. ASSUME LedgerInv, FlowsClimb, [Next]_vars, NEW c \in Clients,
             peer[c] # "gone"
      PROVE  heard'[c].at >= heard[c].at
  <2>t. heard \in [Clients -> Statuses \cup {NoStatus}] /\ heard[c].at \in Nat
    BY <1>1, FlowTypes DEF LedgerInv, TypeOK
  <2>1. CASE heard'[c] = heard[c]
    BY <2>t, <2>1
  <2>2. ASSUME NEW d \in Clients, Connect(d) PROVE heard'[c] = heard[c]
    BY <1>1, <2>2, <2>t DEF Connect
  <2>3. ASSUME NEW d \in Clients, ReadReply(d), heard'[c] # heard[c]
        PROVE  heard'[c].at >= heard[c].at
    <3>1. /\ d = c /\ toClient[c] # <<>> /\ Stamped(Head(toClient[c]))
          /\ heard'[c] = Head(toClient[c]).body
      BY <2>3, <2>t DEF ReadReply, Stamped
    <3>2. /\ Head(Flow(c)) = Head(toClient[c]) /\ Flow(c) # <<>>
          /\ Head(toClient[c]) \in Lines
      BY <1>1, <3>1, FlowTypes, FirstOfFlow, HeadTailProperties DEF Flow
    <3>3. heard[c].at <= Head(Flow(c)).body.at
      BY <1>1, <3>1, <3>2, FlowTypes, ClimbsTail DEF FlowsClimb, Climbing
    <3> QED BY <2>t, <3>1, <3>2, <3>3, StampTypes
  <2>4. CASE ~(\E d \in Clients : Connect(d) \/ ReadReply(d))
    <3>1. heard' = heard
      BY <1>1, <2>4 DEF Next, Loop, Poll, Accept, Served, Publish, HangUp, Write,
         Read, Subscribe, Unsubscribe, Status, Set, TooLong, ReadEnd, Restart,
         SendRequest, Leave, ShutDownSending, clientVars, vars
    <3> QED BY <2>1, <3>1
  <2> QED BY <2>1, <2>2, <2>3, <2>4
<1>2. LedgerInv /\ FlowsClimb /\ [Next]_vars =>
          [\A c \in Clients : peer[c] # "gone" => heard'[c].at >= heard[c].at]_vars
  BY <1>1
<1> QED BY <1>2, LedgerCorrect, FlowsCorrect, PTL DEF Spec, NeverBackwards
-----------------------------------------------------------------------------
(***************************************************************************)
(* The refinement of StatusFeed.  What a step of the daemon does to the    *)
(* flow of a client that is there is one of three things, which Goes names *)
(* in the words of this module: it is served, it is given up, or it was    *)
(* given up before.                                                        *)
(***************************************************************************)
StaysQuiet(c) ==
    /\ Flow(c)' = Flow(c) /\ toServer'[c] = toServer[c]
    /\ subscribed'[c] = subscribed[c]

IsPushed(c) ==
    /\ subscribed[c] /\ subscribed'[c]
    /\ Flow(c)' = Append(Flow(c), Push(status'))
    /\ toServer'[c] = toServer[c]

IsReplied(c) ==
    /\ toServer[c] # <<>> /\ toServer'[c] = Tail(toServer[c])
    /\ Flow(c)' = Append(Flow(c), IF Head(toServer[c]) \in {"subscribe", "status"}
                                   THEN Answer(status') ELSE Ack)
    /\ subscribed'[c] = (\/ Head(toServer[c]) = "subscribe"
                         \/ subscribed[c] /\ Head(toServer[c]) # "unsubscribe")

IsCut(c) ==
    /\ ~subscribed'[c] /\ toServer'[c] = <<>>
    /\ \E n \in 0..Len(Flow(c)) + 1 :
          Flow(c)' = SubSeq(Append(Flow(c), Ack), 1, n)

Goes(c) ==
    \/ /\ session[c] # "none" /\ session'[c] # "none"
       /\ StaysQuiet(c) \/ IsPushed(c) \/ IsReplied(c)
    \/ session[c] # "none" /\ session'[c] = "none" /\ IsCut(c)
    \/ /\ session[c] = "none" /\ session'[c] = "none" /\ ~subscribed'[c]
       /\ Flow(c)' = Flow(c) /\ toServer'[c] = toServer[c]

LEMMA Speaking ==
    ASSUME status' \in Statuses, status'.at >= status.at,
           UNCHANGED <<peer, heard>>,
           \A c \in Clients : peer[c] # "gone" => Goes(c)
    PROVE  Feed!Speak
<1> DEFINE there  == {c \in Clients : peer[c] # "gone"}
           served == {c \in Clients : peer[c] # "gone" /\ session[c] # "none"}
           subs   == {c \in Clients : peer[c] # "gone" /\ subscribed[c]}
           asked  == [c \in Clients |-> IF peer[c] = "gone" THEN <<>> ELSE toServer[c]]
           feed   == [c \in Clients |-> IF peer[c] = "gone" THEN <<>>
                                        ELSE toClient[c] \o out[c]]
<1>1. there' = there
  OBVIOUS
<1>2. served' \subseteq served
  BY DEF Goes
<1>3. ASSUME NEW c \in Clients, peer[c] = "gone"
      PROVE  /\ c \notin served /\ c \notin subs'
             /\ feed'[c] = feed[c] /\ asked'[c] = asked[c]
  BY <1>3
<1>4. ASSUME NEW c \in Clients, peer[c] # "gone"
      PROVE  /\ feed[c] = Flow(c) /\ feed'[c] = Flow(c)'
             /\ asked[c] = toServer[c] /\ asked'[c] = toServer'[c]
             /\ c \in served <=> session[c] # "none"
             /\ c \in served' <=> session'[c] # "none"
             /\ c \in subs <=> subscribed[c]
             /\ c \in subs' <=> subscribed'[c]
  BY <1>4 DEF Flow
<1>5. ASSUME NEW c \in Clients
      PROVE  \/ c \in served' /\ (Feed!Quiet(c) \/ Feed!Pushed(c) \/ Feed!Replied(c))
             \/ c \in served \ served' /\ Feed!Dropped(c)
             \/ c \notin served /\ Feed!Ignored(c)
  <2>1. CASE peer[c] = "gone"
    BY <1>3, <2>1 DEF Feed!Ignored
  <2>2. CASE peer[c] # "gone"
    <3>1. Goes(c)
      BY <2>2
    <3>2. /\ Feed!Ack = Ack /\ Feed!Push(status') = Push(status')
          /\ \A verb : Feed!Reply(verb, status') =
                IF verb \in {"subscribe", "status"} THEN Answer(status') ELSE Ack
      BY DEF Feed!Ack, Ack, Feed!Answer, Answer, Feed!Push, Push, Feed!Reply
    <3> HIDE DEF served, subs, asked, feed
    <3>3. CASE session[c] # "none" /\ session'[c] # "none" /\ StaysQuiet(c)
      BY <1>4, <2>2, <3>3 DEF StaysQuiet, Feed!Quiet, served, subs, asked, feed
    <3>4. CASE session[c] # "none" /\ session'[c] # "none" /\ IsPushed(c)
      BY <1>4, <2>2, <3>2, <3>4 DEF IsPushed, Feed!Pushed, served, subs, asked, feed
    <3>5. CASE session[c] # "none" /\ session'[c] # "none" /\ IsReplied(c)
      BY <1>4, <2>2, <3>2, <3>5 DEF IsReplied, Feed!Replied, served, subs, asked, feed
    <3>6. CASE session[c] # "none" /\ session'[c] = "none" /\ IsCut(c)
      BY <1>4, <2>2, <3>2, <3>6 DEF IsCut, Feed!Dropped, served, subs, asked, feed
    <3>7. CASE /\ session[c] = "none" /\ session'[c] = "none" /\ ~subscribed'[c]
               /\ Flow(c)' = Flow(c) /\ toServer'[c] = toServer[c]
      <4>1. /\ c \notin served /\ c \notin subs'
            /\ feed'[c] = feed[c] /\ asked'[c] = asked[c]
        BY <1>4, <2>2, <3>7
      <4> QED BY <4>1 DEF Feed!Ignored, served, subs, asked, feed
    <3> QED
      BY <3>1, <3>3, <3>4, <3>5, <3>6, <3>7 DEF Goes
  <2> QED BY <2>1, <2>2
<1> QED BY <1>1, <1>2, <1>5 DEF Feed!Speak

LEMMA FrontOfConcat ==
    ASSUME NEW T, NEW p \in Seq(T), NEW q \in Seq(T)
    PROVE  /\ Len(p) \in 0..Len(p \o q)
           /\ SubSeq(p \o q, 1, Len(p)) = p
<1>1. Len(p) \in Nat /\ Len(q) \in Nat /\ Len(p \o q) = Len(p) + Len(q)
  BY LenProperties, ConcatProperties
<1>2. CASE Len(p) = 0
  <2>1. p = <<>> /\ SubSeq(p \o q, 1, 0) = <<>>
    BY <1>2, EmptySeq, ConcatProperties, SubSeqEmpty
  <2> QED BY <1>1, <1>2, <2>1
<1>3. CASE Len(p) > 0
  <2>1. SubSeq(p \o q, 1, Len(p)) = SubSeq(p, 1, Len(p))
    BY <1>1, <1>3, SubSeqOfConcat1
  <2> QED BY <1>1, <2>1, SubSeqFull
<1> QED BY <1>1, <1>2, <1>3

LEMMA FeedTypes ==
    ASSUME LedgerInv, LoopInv
    PROVE  /\ toClient \in [Clients -> Seq(Lines)] /\ out \in [Clients -> Seq(Lines)]
           /\ session \in [Clients -> {"none", "backlog", "open"}]
           /\ subscribed \in [Clients -> BOOLEAN]
           /\ peer \in [Clients -> {"gone", "here", "half"}]
           /\ heard \in [Clients -> Statuses \cup {NoStatus}]
           /\ toServer \in [Clients -> Seq(Verbs)]
           /\ Ack \in Lines /\ Answer(status) \in Lines /\ Push(status) \in Lines
           /\ \A c \in Clients : /\ subscribed[c] => session[c] = "open"
                                 /\ reading = c => session[c] = "open"
                                 /\ session[c] = "none" =>
                                      out[c] = <<>> /\ toServer[c] = <<>>
BY LineTypes DEF LedgerInv, LoopInv, TypeOK, Books

\* nothing happens to c, or its queue goes on into the socket
LEMMA LeftGoes ==
    ASSUME LedgerInv, LoopInv, NEW c \in Clients, Flow(c)' = Flow(c),
           session'[c] = "none" <=> session[c] = "none",
           subscribed'[c] = subscribed[c], toServer'[c] = toServer[c]
    PROVE  Goes(c)
BY FeedTypes DEF Goes, StaysQuiet

\* the session of c ends, with no word or with a last one
LEMMA CutGoes ==
    ASSUME LedgerInv, NEW c \in Clients, session[c] # "none",
           session'[c] = "none", ~subscribed'[c],
           toServer'[c] = <<>>, out'[c] = <<>>,
           \/ toClient'[c] = toClient[c]
           \/ toClient'[c] = toClient[c] \o Sent(c, Append(out[c], Ack))
    PROVE  Goes(c)
<1> DEFINE q == Append(out[c], Ack)
           whole == Append(Flow(c), Ack)
<1>1. /\ q \in Seq(Lines) /\ toClient[c] \in Seq(Lines)
      /\ toClient[c] \o q = whole
      /\ (toClient[c] \o Sent(c, q)) \o Unsent(c, q) = whole
      /\ toClient[c] \o Sent(c, q) \in Seq(Lines) /\ Unsent(c, q) \in Seq(Lines)
      /\ Len(whole) = Len(Flow(c)) + 1
  <2>1. Ack \in Lines /\ toClient[c] \in Seq(Lines) /\ Flow(c) \in Seq(Lines)
    BY LineTypes, FlowTypes
  <2>2. Len(Append(Flow(c), Ack)) = Len(Flow(c)) + 1
    BY <2>1, AppendProperties
  <2> QED BY <2>1, <2>2, FlowAppends
<1> HIDE DEF q, whole
<1>2. ASSUME NEW p \in Seq(Lines), NEW r \in Seq(Lines), p \o r = whole,
             toClient'[c] = p
      PROVE  Goes(c)
  <2>1. Flow(c)' = p
    BY <1>2, ConcatEmptySeq DEF Flow
  <2>2. Len(p) \in 0..Len(whole) /\ SubSeq(whole, 1, Len(p)) = p
    BY <1>2, FrontOfConcat
  <2> QED BY <1>1, <2>1, <2>2 DEF Goes, IsCut, whole
<1>3. CASE toClient'[c] = toClient[c]
  BY <1>1, <1>2, <1>3
<1>4. CASE toClient'[c] = toClient[c] \o Sent(c, q)
  BY <1>1, <1>2, <1>4
<1> QED BY <1>3, <1>4 DEF q

LEMMA CloseGoes ==
    ASSUME LedgerInv, LoopInv, NEW S \in SUBSET Clients, Close(S),
           NEW c \in Clients, toClient'[c] = toClient[c]
    PROVE  Goes(c)
<1>1. CASE c \in S
  <2>1. /\ session'[c] = "none" /\ subscribed'[c] = FALSE
        /\ toServer'[c] = <<>> /\ out'[c] = <<>>
    BY <1>1 DEF Close, Cleared
  <2>2. CASE session[c] = "none"
    <3>1. subscribed[c] = FALSE /\ out[c] = <<>> /\ toServer[c] = <<>>
      BY <2>2, FeedTypes
    <3> QED BY <2>1, <2>2, <3>1, LeftGoes DEF Flow
  <2>3. CASE session[c] # "none"
    BY <2>1, <2>3, CutGoes
  <2> QED BY <2>2, <2>3
<1>2. CASE c \notin S
  <2>1. UNCHANGED <<session[c], subscribed[c], toServer[c], out[c]>>
    BY <1>2 DEF Close, Cleared
  <2> QED BY <2>1, LeftGoes DEF Flow
<1> QED BY <1>1, <1>2

LEMMA ReplyGoes ==
    ASSUME LedgerInv, LoopInv, NEW c \in Clients, NEW verb, NEW line \in Lines,
           NEW on \in BOOLEAN, Request(c, verb), Reply(c, line, on),
           line = IF verb \in {"subscribe", "status"} THEN Answer(status') ELSE Ack,
           on = (verb = "subscribe" \/ (subscribed[c] /\ verb # "unsubscribe")),
           NEW d \in Clients
    PROVE  Goes(d)
<1>r. reading = c /\ toServer[c] # <<>> /\ Head(toServer[c]) = verb
  BY DEF Request
<1>1. CASE Close({c}) /\ UNCHANGED toClient
  BY <1>1, CloseGoes
<1>2. CASE /\ Flush(c, Append(out[c], line)) /\ UNCHANGED session
           /\ toServer' = [toServer EXCEPT ![c] = Tail(@)]
           /\ subscribed' = [subscribed EXCEPT ![c] = on]
  <2>1. CASE d # c
    BY <1>2, <2>1, FeedTypes, LeftGoes DEF Flush, Flow
  <2>2. CASE d = c
    <3> DEFINE q == Append(out[c], line)
    <3>1. toClient'[c] = toClient[c] \o Sent(c, q) /\ out'[c] = Unsent(c, q)
      BY <1>2, FeedTypes DEF Flush
    <3>2. Flow(c)' = Append(Flow(c), line)
      BY <3>1, FlowAppends DEF Flow
    <3>3. session[c] # "none" /\ session'[c] # "none"
      BY <1>r, <1>2, FeedTypes
    <3>4. subscribed'[c] = on /\ toServer'[c] = Tail(toServer[c])
      BY <1>2, FeedTypes
    <3> QED BY <1>r, <2>2, <3>2, <3>3, <3>4 DEF Goes, IsReplied
  <2> QED BY <2>1, <2>2
<1> QED BY <1>1, <1>2 DEF Reply

LEMMA BroadcastGoes ==
    ASSUME LedgerInv, LoopInv, Broadcast(status), status' = status,
           NEW c \in Clients, peer[c] # "gone"
    PROVE  Goes(c)
<1> DEFINE dropped == {d \in Subscribers : Stalled(d)}
           pushed  == Subscribers \ dropped
           q(d) == Append(out[d], Push(status))
<1>1. /\ session' = Cleared(session, dropped, "none")
      /\ subscribed' = Cleared(subscribed, dropped, FALSE)
      /\ toServer' = Cleared(toServer, dropped, <<>>)
      /\ out' = [d \in Clients |-> IF d \in pushed THEN Unsent(d, q(d))
                                   ELSE Cleared(out, dropped, <<>>)[d]]
      /\ toClient' = [d \in Clients |->
                        IF d \in pushed THEN toClient[d] \o Sent(d, q(d))
                        ELSE toClient[d]]
  BY Zenon DEF Broadcast
<1>2. c \in Subscribers <=> subscribed[c]
  BY DEF Subscribers
<1>3. CASE c \in pushed
  <2>1. toClient'[c] = toClient[c] \o Sent(c, q(c)) /\ out'[c] = Unsent(c, q(c))
    BY <1>1, <1>3
  <2>2. Flow(c)' = Append(Flow(c), Push(status))
    BY <2>1, FeedTypes, FlowAppends DEF Flow
  <2>3. UNCHANGED <<session[c], subscribed[c], toServer[c]>>
    BY <1>1, <1>3 DEF Cleared
  <2>4. subscribed[c] /\ session[c] # "none"
    BY <1>2, <1>3, FeedTypes
  <2> QED BY <2>2, <2>3, <2>4 DEF Goes, IsPushed
<1>4. CASE c \in dropped
  <2>1. /\ session'[c] = "none" /\ ~subscribed'[c] /\ out'[c] = <<>>
        /\ toServer'[c] = <<>> /\ toClient'[c] = toClient[c]
    BY <1>1, <1>4 DEF Cleared
  <2>2. session[c] # "none"
    BY <1>2, <1>4, FeedTypes
  <2> QED BY <2>1, <2>2, CutGoes
<1>5. CASE c \notin Subscribers
  <2>1. UNCHANGED <<session[c], subscribed[c], toServer[c], out[c], toClient[c]>>
    BY <1>1, <1>5 DEF Cleared
  <2> QED BY <2>1, LeftGoes DEF Flow
<1> QED BY <1>3, <1>4, <1>5

LEMMA DaemonSpeaks ==
    ASSUME LedgerInv, LedgerInv', LoopInv, [Next]_vars, Loop \/ Restart
    PROVE  Feed!Speak
<1> USE DEF Due, clientVars, serverVars, loopVars, stateVars, boundVars
<1>s. status' \in Statuses /\ status'.at >= status.at /\ status.at \in Nat
  <2>1. status \in Statuses /\ status' \in Statuses
    BY DEF LedgerInv, TypeOK
  <2>2. status'.at \in Nat /\ status.at <= status'.at /\ status.at \in Nat
    BY <2>1, StampGrows, StampTypes
  <2> QED BY <2>1, <2>2
<1>l. Ack \in Lines /\ Answer(status) \in Lines
  BY FeedTypes
<1>p. peer' = peer /\ heard' = heard
  BY DEF Loop, Poll, Accept, Served, Publish, HangUp, Write, Read, Subscribe,
     Unsubscribe, Status, Set, TooLong, ReadEnd, Restart
<1>1. SUFFICES ASSUME NEW c \in Clients, peer[c] # "gone"
               PROVE  Goes(c)
  BY <1>s, <1>p, <1>1, Speaking
<1>a. ASSUME UNCHANGED <<toServer, toClient, out, subscribed>>,
             session'[c] = "none" <=> session[c] = "none"
      PROVE  Goes(c)
  BY <1>a, LeftGoes DEF Flow
<1>2. CASE Poll \/ Served
  BY <1>2, <1>a DEF Poll, Served
<1>3. CASE Accept
  BY <1>3, <1>a, FeedTypes DEF Accept
<1>4. CASE Publish
  BY <1>1, <1>4, <1>a, BroadcastGoes DEF Publish
<1>5. ASSUME NEW d \in Clients, HangUp(d) PROVE Goes(c)
  BY <1>5, CloseGoes DEF HangUp
<1>6. ASSUME NEW d \in Clients, Write(d) PROVE Goes(c)
  <2>1. CASE Close({d}) /\ UNCHANGED toClient
    BY <2>1, CloseGoes
  <2>2. CASE Flush(d, out[d]) /\ UNCHANGED <<session, subscribed, toServer>>
    <3>1. CASE d # c
      BY <2>2, <3>1, FeedTypes, LeftGoes DEF Flush, Flow
    <3>2. CASE d = c
      <4>1. Flow(c)' = Flow(c)
        BY <2>2, <3>2, FeedTypes, FlowTypes, CutIsWhole DEF Flush, Flow
      <4> QED BY <2>2, <4>1, LeftGoes
    <3> QED BY <3>1, <3>2
  <2> QED BY <1>6, <2>1, <2>2 DEF Write
<1>7. ASSUME NEW d \in Clients, Read(d) PROVE Goes(c)
  BY <1>7, <1>a DEF Read
<1>8. ASSUME NEW d \in Clients, Subscribe(d) PROVE Goes(c)
  BY <1>8, <1>l, ReplyGoes DEF Subscribe
<1>9. ASSUME NEW d \in Clients, Unsubscribe(d) PROVE Goes(c)
  BY <1>9, <1>l, ReplyGoes DEF Unsubscribe
<1>10. ASSUME NEW d \in Clients, Status(d) \/ Set(d) PROVE Goes(c)
  <2>1. subscribed[d] \in BOOLEAN
    BY FeedTypes
  <2> QED BY <1>10, <1>l, <2>1, ReplyGoes DEF Status, Set
<1>11. ASSUME NEW d \in Clients, TooLong(d) PROVE Goes(c)
  <2>1. /\ toClient' = IF peer[d] = "gone" THEN toClient
                       ELSE [toClient EXCEPT
                               ![d] = @ \o Sent(d, Append(out[d], Ack))]
        /\ Close({d}) /\ reading = d
    BY <1>11 DEF TooLong, Request
  <2>2. CASE d # c
    BY <2>1, <2>2, FeedTypes, CloseGoes
  <2>3. CASE d = c
    <3>1. /\ toClient'[c] = toClient[c] \o Sent(c, Append(out[c], Ack))
          /\ session'[c] = "none" /\ ~subscribed'[c]
          /\ toServer'[c] = <<>> /\ out'[c] = <<>>
      BY <1>1, <2>1, <2>3, FeedTypes DEF Close, Cleared
    <3>2. session[c] # "none"
      BY <2>1, <2>3, FeedTypes
    <3> QED BY <3>1, <3>2, CutGoes
  <2> QED BY <2>2, <2>3
<1>12. ASSUME NEW d \in Clients, ReadEnd(d) PROVE Goes(c)
  BY <1>12, <1>a, CloseGoes DEF ReadEnd
<1>13. CASE Restart
  BY <1>13, CloseGoes DEF Restart
<1> QED
  BY <1>2, <1>3, <1>4, <1>5, <1>6, <1>7, <1>8, <1>9, <1>10, <1>11, <1>12,
     <1>13 DEF Loop

\* A client's own steps.
LEMMA ClientHears ==
    ASSUME LedgerInv, LoopInv, NEW c \in Clients, ReadReply(c)
    PROVE  Feed!Hear(c)
<1> USE DEF serverVars, loopVars, stateVars, boundVars
<1> DEFINE line == Head(toClient[c])
           feed == [d \in Clients |-> IF peer[d] = "gone" THEN <<>>
                                      ELSE toClient[d] \o out[d]]
<1>1. /\ peer[c] # "gone" /\ toClient[c] # <<>>
      /\ toClient' = [toClient EXCEPT ![c] = Tail(@)]
      /\ heard' = IF line.kind = "ack" THEN heard
                  ELSE [heard EXCEPT ![c] = line.body]
      /\ UNCHANGED <<peer, out, toServer, status, session, subscribed>>
  BY DEF ReadReply
<1>2. /\ feed[c] = toClient[c] \o out[c] /\ feed[c] # <<>>
      /\ Head(feed[c]) = line /\ Tail(feed[c]) = Tail(toClient[c]) \o out[c]
  BY <1>1, FlowTypes, FirstOfFlow
<1>3. feed' = [feed EXCEPT ![c] = Tail(@)]
  <2>1. \A d \in Clients : feed'[d] = IF d = c THEN Tail(feed[c]) ELSE feed[d]
    BY <1>1, <1>2, FeedTypes
  <2> QED BY <2>1
<1>4. heard' = [heard EXCEPT ![c] = IF Head(feed[c]).kind = "ack" THEN @
                                    ELSE Head(feed[c]).body]
  BY <1>1, <1>2, FeedTypes
<1> HIDE DEF line
<1> QED BY <1>1, <1>2, <1>3, <1>4 DEF Feed!Hear

LEMMA ClientConnects ==
    ASSUME LedgerInv, LoopInv, NEW c \in Clients, Connect(c)
    PROVE  Feed!Connect(c)
<1> USE DEF serverVars, loopVars, stateVars, boundVars
<1> DEFINE there  == {d \in Clients : peer[d] # "gone"}
           served == {d \in Clients : peer[d] # "gone" /\ session[d] # "none"}
           subs   == {d \in Clients : peer[d] # "gone" /\ subscribed[d]}
           asked  == [d \in Clients |-> IF peer[d] = "gone" THEN <<>> ELSE toServer[d]]
           feed   == [d \in Clients |-> IF peer[d] = "gone" THEN <<>>
                                        ELSE toClient[d] \o out[d]]
<1>1. /\ session[c] = "none" /\ peer[c] = "gone"
      /\ session' = [session EXCEPT ![c] = "backlog"]
      /\ peer' = [peer EXCEPT ![c] = "here"]
      /\ heard' = [heard EXCEPT ![c] = NoStatus]
      /\ UNCHANGED <<toClient, out, toServer, subscribed, status>>
  BY DEF Connect
<1>2. c \notin there /\ there' = there \cup {c} /\ served' = served \cup {c}
  BY <1>1, FeedTypes
<1>3. subs' = subs
  BY <1>1, FeedTypes
<1>4. feed' = feed /\ asked' = asked
  <2>1. /\ toClient[c] = <<>> /\ out[c] = <<>> /\ toServer[c] = <<>>
        /\ <<>> \o <<>> = <<>>
    BY <1>1 DEF LedgerInv, Books
  <2>2. \A d \in Clients : feed'[d] = feed[d] /\ asked'[d] = asked[d]
    BY <1>1, <2>1, FeedTypes
  <2> QED BY <2>2
<1> QED BY <1>1, <1>2, <1>3, <1>4 DEF Feed!Connect

LEMMA ClientLeaves ==
    ASSUME LedgerInv, LoopInv, NEW c \in Clients, Leave(c)
    PROVE  Feed!Leave(c)
<1> USE DEF serverVars, loopVars, stateVars, boundVars
<1> DEFINE there  == {d \in Clients : peer[d] # "gone"}
           served == {d \in Clients : peer[d] # "gone" /\ session[d] # "none"}
           subs   == {d \in Clients : peer[d] # "gone" /\ subscribed[d]}
           asked  == [d \in Clients |-> IF peer[d] = "gone" THEN <<>> ELSE toServer[d]]
           feed   == [d \in Clients |-> IF peer[d] = "gone" THEN <<>>
                                        ELSE toClient[d] \o out[d]]
<1>1. /\ peer[c] # "gone" /\ peer' = [peer EXCEPT ![c] = "gone"]
      /\ toClient' = [toClient EXCEPT ![c] = <<>>]
      /\ UNCHANGED <<session, out, toServer, subscribed, status, heard>>
  BY DEF Leave
<1>2. /\ c \in there /\ there' = there \ {c} /\ served' = served \ {c}
      /\ subs' = subs \ {c}
  BY <1>1, FeedTypes
<1>3. feed' = [feed EXCEPT ![c] = <<>>] /\ asked' = [asked EXCEPT ![c] = <<>>]
  <2>1. \A d \in Clients : /\ feed'[d] = IF d = c THEN <<>> ELSE feed[d]
                           /\ asked'[d] = IF d = c THEN <<>> ELSE asked[d]
    BY <1>1, FeedTypes
  <2> QED BY <2>1
<1> QED BY <1>1, <1>2, <1>3 DEF Feed!Leave

LEMMA ClientAsks ==
    ASSUME LedgerInv, LoopInv, NEW c \in Clients, NEW verb, SendRequest(c, verb)
    PROVE  Feed!Ask(c, verb)
<1> USE DEF serverVars, loopVars, stateVars
<1> DEFINE asked  == [d \in Clients |-> IF peer[d] = "gone" THEN <<>> ELSE toServer[d]]
<1>1. /\ session[c] # "none" /\ peer[c] = "here"
      /\ toServer' = [toServer EXCEPT ![c] = Append(@, verb)]
      /\ UNCHANGED <<peer, heard, toClient, out, session, subscribed, status>>
  BY DEF SendRequest
<1>2. asked' = [asked EXCEPT ![c] = Append(@, verb)]
  <2>1. \A d \in Clients : asked'[d] = IF d = c THEN Append(asked[c], verb)
                                               ELSE asked[d]
    BY <1>1, FeedTypes
  <2> QED BY <2>1
<1> QED BY <1>1, <1>2 DEF Feed!Ask

LEMMA FeedSteps ==
    ASSUME LedgerInv, LedgerInv', LoopInv, [Next]_vars
    PROVE  [Feed!FeedNext]_Feed!feedVars
<1> USE DEF clientVars, serverVars, loopVars, stateVars, boundVars
<1>1. CASE Loop \/ Restart
  BY <1>1, DaemonSpeaks DEF Feed!FeedNext
<1>2. ASSUME NEW c \in Clients, Connect(c) \/ ReadReply(c) \/ Leave(c)
      PROVE  Feed!FeedNext
  BY <1>2, ClientConnects, ClientHears, ClientLeaves DEF Feed!FeedNext
<1>3. ASSUME UNCHANGED <<status, session, subscribed, toServer, toClient, out, heard>>,
             \A c \in Clients : peer'[c] = "gone" <=> peer[c] = "gone"
      PROVE  UNCHANGED Feed!feedVars
  BY <1>3 DEF Feed!feedVars
<1>4. ASSUME NEW c \in Clients, ShutDownSending(c)
      PROVE  UNCHANGED Feed!feedVars
  BY <1>3, <1>4, FeedTypes DEF ShutDownSending
<1>5. ASSUME NEW c \in Clients, NEW verb \in Verbs, SendRequest(c, verb)
      PROVE  Feed!FeedNext
  BY <1>5, ClientAsks DEF Feed!FeedNext
<1>6. CASE UNCHANGED vars
  BY <1>3, <1>6 DEF vars
<1> QED BY <1>1, <1>2, <1>4, <1>5, <1>6 DEF Next

LEMMA FeedStarts == Init => Feed!FeedInit
BY IpcAssumption DEF Init, Feed!FeedInit, Statuses

\* The queue of each session, its socket buffers, the poll results and the
\* loop together are one feed per client: requests are answered once, in order
\* and in their kind, a client that is served loses no line and reads them in
\* the order they were said, and each status is the one the daemon had when it
\* said it; for any number of clients and any buffers.
THEOREM SocketIsAFeed == Spec => ImplementsFeed
<1>1. LedgerInv /\ LedgerInv' /\ LoopInv /\ [Next]_vars
        => [Feed!FeedNext]_Feed!feedVars
  BY FeedSteps
<1> QED
  BY <1>1, FeedStarts, LedgerCorrect, LoopCorrect, PTL
     DEF Spec, ImplementsFeed, Feed!FeedSpec
-----------------------------------------------------------------------------
(***************************************************************************)
(* What told stands for.  The last status on its way to a client that is   *)
(* served, or the one it read last if none is, is the one the daemon thinks*)
(* the client was given.                                                   *)
(***************************************************************************)
LastSaid(q, h, t) ==
    \/ (\A i \in 1..Len(q) : ~Stamped(q[i])) /\ h = t
    \/ \E i \in 1..Len(q) : /\ Stamped(q[i]) /\ q[i].body = t
                            /\ \A j \in i + 1..Len(q) : ~Stamped(q[j])

Knows(c) ==
    /\ session[c] = "none" => told[c] = NoStatus
    /\ peer[c] # "gone" /\ session[c] # "none" =>
         LastSaid(Flow(c), heard[c], told[c])
ToldIsLast == \A c \in Clients : Knows(c)

LEMMA SaidAppend ==
    ASSUME NEW q \in Seq(Lines), NEW line \in Lines, NEW h, NEW t,
           LastSaid(q, h, t)
    PROVE  LastSaid(Append(q, line), h, IF Stamped(line) THEN line.body ELSE t)
<1>1. /\ Len(Append(q, line)) = Len(q) + 1 /\ Len(q) \in Nat
      /\ \A i \in 1..Len(q) : Append(q, line)[i] = q[i]
      /\ Append(q, line)[Len(q) + 1] = line
  BY AppendProperties, LenProperties
<1>2. \A i \in 1..Len(q) + 1 : i \in 1..Len(q) \/ i = Len(q) + 1
  BY <1>1
<1> DEFINE r == Append(q, line)
<1> HIDE DEF r
<1>3. CASE Stamped(line)
  <2>1. Len(q) + 1 \in 1..Len(r) /\ Len(q) + 1 + 1..Len(r) = {}
    BY <1>1 DEF r
  <2> QED BY <1>1, <1>3, <2>1 DEF LastSaid, r
<1>4. CASE ~Stamped(line) /\ (\A i \in 1..Len(q) : ~Stamped(q[i])) /\ h = t
  BY <1>1, <1>2, <1>4 DEF LastSaid
<1>5. ASSUME NEW i \in 1..Len(q), ~Stamped(line), Stamped(q[i]), q[i].body = t,
             \A j \in i + 1..Len(q) : ~Stamped(q[j])
      PROVE  LastSaid(Append(q, line), h, t)
  <2>1. i \in 1..Len(r) /\ Stamped(r[i]) /\ r[i].body = t
    BY <1>1, <1>5 DEF r
  <2>2. ASSUME NEW j \in i + 1..Len(r) PROVE ~Stamped(r[j])
    <3>1. j \in i + 1..Len(q) \/ j = Len(q) + 1
      BY <1>1, <2>2 DEF r
    <3>2. j \in i + 1..Len(q) => j \in 1..Len(q)
      BY <1>1
    <3> QED BY <1>1, <1>5, <3>1, <3>2 DEF r
  <2> QED BY <2>1, <2>2 DEF LastSaid, r
<1> QED BY <1>3, <1>4, <1>5 DEF LastSaid

LEMMA SaidTail ==
    ASSUME NEW q \in Seq(Lines), q # <<>>, NEW h, NEW t, LastSaid(q, h, t)
    PROVE  LastSaid(Tail(q), IF Stamped(Head(q)) THEN Head(q).body ELSE h, t)
<1> DEFINE r == Tail(q)
           h2 == IF Stamped(Head(q)) THEN Head(q).body ELSE h
<1>1. /\ Len(r) = Len(q) - 1 /\ Len(q) \in Nat /\ Len(q) > 0
      /\ \A i \in 1..Len(r) : r[i] = q[i + 1]
      /\ Head(q) = q[1]
  BY HeadTailProperties, LenProperties, EmptySeq
<1> HIDE DEF r
<1>2. \A i \in 1..Len(r) : i + 1 \in 1..Len(q) /\ i + 1 \in 1 + 1..Len(q)
  BY <1>1
<1>3. CASE (\A i \in 1..Len(q) : ~Stamped(q[i])) /\ h = t
  <2>1. 1 \in 1..Len(q)
    BY <1>1
  <2> QED BY <1>1, <1>2, <1>3, <2>1 DEF LastSaid, r
<1>4. CASE /\ Stamped(q[1]) /\ q[1].body = t
           /\ \A j \in 1 + 1..Len(q) : ~Stamped(q[j])
  BY <1>1, <1>2, <1>4 DEF LastSaid, r
<1>5. ASSUME NEW i \in 1..Len(q), i # 1, Stamped(q[i]), q[i].body = t,
             \A j \in i + 1..Len(q) : ~Stamped(q[j])
      PROVE  LastSaid(r, h2, t)
  <2> DEFINE k == i - 1
  <2>1. k \in 1..Len(r) /\ r[k] = q[i]
    BY <1>1, <1>5
  <2>2. ASSUME NEW j \in k + 1..Len(r) PROVE ~Stamped(r[j])
    <3>1. j \in 1..Len(r) /\ j + 1 \in i + 1..Len(q)
      BY <1>1, <1>5, <2>2
    <3> QED BY <1>1, <1>5, <3>1
  <2> HIDE DEF k, h2
  <2> QED BY <1>5, <2>1, <2>2 DEF LastSaid
<1> QED BY <1>3, <1>4, <1>5 DEF LastSaid, r

\* c is left as it is, or its session ends.
LEMMA LeftKnowing ==
    ASSUME NEW c \in Clients, Knows(c),
           UNCHANGED <<peer[c], heard[c], told[c], Flow(c)>>,
           session'[c] = "none" <=> session[c] = "none"
    PROVE  Knows(c)'
BY DEF Knows

LEMMA ClosedKnowing ==
    ASSUME LedgerInv, ToldIsLast, NEW S \in SUBSET Clients, Close(S),
           UNCHANGED <<peer, heard>>,
           NEW c \in Clients, toClient'[c] = toClient[c] \/ c \in S
    PROVE  Knows(c)'
<1>1. CASE c \in S
  <2>1. session'[c] = "none" /\ told'[c] = NoStatus
    BY <1>1 DEF Close, Cleared
  <2> QED BY <2>1 DEF Knows
<1>2. CASE c \notin S
  <2>1. UNCHANGED <<session[c], told[c], out[c], toClient[c]>>
    BY <1>2 DEF Close, Cleared
  <2> QED BY <2>1, LeftKnowing DEF Flow, ToldIsLast
<1> QED BY <1>1, <1>2

LEMMA SaidKnowing ==
    ASSUME LedgerInv, NEW c \in Clients, Knows(c), NEW line \in Lines,
           Flow(c)' = Append(Flow(c), line),
           told'[c] = IF Stamped(line) THEN line.body ELSE told[c],
           UNCHANGED <<peer[c], heard[c], session[c]>>, session[c] # "none"
    PROVE  Knows(c)'
<1>1. CASE peer[c] = "gone"
  BY <1>1 DEF Knows
<1>2. CASE peer[c] # "gone"
  <2>1. LastSaid(Append(Flow(c), line), heard[c],
                 IF Stamped(line) THEN line.body ELSE told[c])
    BY <1>2, FlowTypes, SaidAppend DEF Knows
  <2> QED BY <2>1 DEF Knows
<1> QED BY <1>1, <1>2

LEMMA RepliedKnowing ==
    ASSUME LedgerInv, LoopInv, ToldIsLast, NEW c \in Clients, NEW line \in Lines,
           NEW on, reading = c, Reply(c, line, on), UNCHANGED <<peer, heard>>
    PROVE  ToldIsLast'
<1>1. SUFFICES ASSUME NEW d \in Clients PROVE Knows(d)'
  BY <1>1 DEF ToldIsLast
<1>2. CASE Close({c}) /\ UNCHANGED toClient
  BY <1>2, ClosedKnowing
<1>3. CASE /\ Flush(c, Append(out[c], line)) /\ UNCHANGED session
           /\ told' = IF line.kind = "ack" THEN told
                      ELSE [told EXCEPT ![c] = line.body]
  <2>t. told \in [Clients -> Statuses \cup {NoStatus}]
    BY DEF LedgerInv, TypeOK
  <2>1. CASE d # c
    BY <1>3, <2>t, <2>1, FeedTypes, LeftKnowing DEF Flush, Flow, ToldIsLast
  <2>2. CASE d = c
    <3> DEFINE q == Append(out[c], line)
    <3>1. toClient'[c] = toClient[c] \o Sent(c, q) /\ out'[c] = Unsent(c, q)
      BY <1>3, FeedTypes DEF Flush
    <3>2. Flow(c)' = Append(Flow(c), line)
      BY <3>1, FlowAppends DEF Flow
    <3>3. session[c] # "none"
      BY FeedTypes
    <3>4. told'[c] = IF Stamped(line) THEN line.body ELSE told[c]
      BY <1>3, <2>t DEF Stamped
    <3> QED BY <1>3, <2>2, <3>2, <3>3, <3>4, SaidKnowing DEF ToldIsLast
  <2> QED BY <2>1, <2>2
<1> QED BY <1>2, <1>3 DEF Reply

LEMMA BroadcastKnowing ==
    ASSUME LedgerInv, LoopInv, ToldIsLast, Broadcast(status),
           UNCHANGED <<peer, heard, status>>, NEW c \in Clients
    PROVE  Knows(c)'
<1> DEFINE dropped == {d \in Subscribers : Stalled(d)}
           pushed  == Subscribers \ dropped
           q(d) == Append(out[d], Push(status))
<1>1. /\ session' = Cleared(session, dropped, "none")
      /\ out' = [d \in Clients |-> IF d \in pushed THEN Unsent(d, q(d))
                                   ELSE Cleared(out, dropped, <<>>)[d]]
      /\ toClient' = [d \in Clients |->
                        IF d \in pushed THEN toClient[d] \o Sent(d, q(d))
                        ELSE toClient[d]]
      /\ told' = [d \in Clients |-> IF d \in pushed THEN status
                                    ELSE Cleared(told, dropped, NoStatus)[d]]
  BY Zenon DEF Broadcast
<1>3. CASE c \in pushed
  <2>1. toClient'[c] = toClient[c] \o Sent(c, q(c)) /\ out'[c] = Unsent(c, q(c))
    BY <1>1, <1>3
  <2>2. Flow(c)' = Append(Flow(c), Push(status))
    BY <2>1, FeedTypes, FlowAppends DEF Flow
  <2>3. session'[c] = session[c] /\ told'[c] = status
    BY <1>1, <1>3 DEF Cleared
  <2>4. session[c] # "none" /\ Push(status) \in Lines
    BY <1>3, FeedTypes DEF Subscribers
  <2>5. Stamped(Push(status)) /\ Push(status).body = status
    BY DEF Stamped, Push
  <2> QED BY <2>2, <2>3, <2>4, <2>5, SaidKnowing DEF ToldIsLast
<1>4. CASE c \in dropped
  <2>1. session'[c] = "none" /\ told'[c] = NoStatus
    BY <1>1, <1>4 DEF Cleared
  <2> QED BY <2>1 DEF Knows
<1>5. CASE c \notin Subscribers
  <2>1. UNCHANGED <<session[c], told[c], out[c], toClient[c]>>
    BY <1>1, <1>5 DEF Cleared
  <2> QED BY <2>1, LeftKnowing DEF Flow, ToldIsLast
<1> QED BY <1>3, <1>4, <1>5

LEMMA ToldStep ==
    ASSUME LedgerInv, LoopInv, ToldIsLast, [Next]_vars
    PROVE  ToldIsLast'
<1> USE DEF Due, clientVars, serverVars, loopVars, stateVars, boundVars
<1>t. /\ told \in [Clients -> Statuses \cup {NoStatus}]
      /\ \A c \in Clients : Knows(c)
  BY DEF LedgerInv, TypeOK, ToldIsLast
<1>l. Ack \in Lines /\ Answer(status) \in Lines
  BY FeedTypes
<1>1. SUFFICES ASSUME NEW c \in Clients PROVE Knows(c)'
  BY <1>1 DEF ToldIsLast
<1>a. ASSUME UNCHANGED <<peer, heard, toClient, out, told>>,
             session'[c] = "none" <=> session[c] = "none"
      PROVE  Knows(c)'
  BY <1>t, <1>a, LeftKnowing DEF Flow
<1>b. ASSUME ToldIsLast' PROVE Knows(c)'
  BY <1>b DEF ToldIsLast
<1>2. CASE Poll \/ Served
  BY <1>2, <1>a DEF Poll, Served
<1>3. CASE Accept
  BY <1>3, <1>a, FeedTypes DEF Accept
<1>4. CASE Publish
  BY <1>4, <1>a, BroadcastKnowing DEF Publish
<1>5. ASSUME NEW d \in Clients, HangUp(d) PROVE Knows(c)'
  BY <1>5, ClosedKnowing DEF HangUp
<1>6. ASSUME NEW d \in Clients, Write(d) PROVE Knows(c)'
  <2>1. CASE Close({d}) /\ UNCHANGED toClient
    BY <1>6, <2>1, ClosedKnowing DEF Write
  <2>2. CASE Flush(d, out[d]) /\ UNCHANGED <<session, told>>
    <3>1. CASE d # c
      BY <1>6, <1>t, <2>2, <3>1, FeedTypes, LeftKnowing DEF Write, Flush, Flow
    <3>2. CASE d = c
      <4>1. Flow(c)' = Flow(c)
        BY <2>2, <3>2, FeedTypes, FlowTypes, CutIsWhole DEF Flush, Flow
      <4> QED BY <1>6, <1>t, <2>2, <4>1, LeftKnowing DEF Write
    <3> QED BY <3>1, <3>2
  <2> QED BY <1>6, <2>1, <2>2 DEF Write
<1>7. ASSUME NEW d \in Clients, Read(d) PROVE Knows(c)'
  BY <1>7, <1>a DEF Read
<1>8. ASSUME NEW d \in Clients, Subscribe(d) \/ Status(d) PROVE Knows(c)'
  BY <1>8, <1>b, <1>l, RepliedKnowing DEF Subscribe, Status, Request
<1>9. ASSUME NEW d \in Clients, Unsubscribe(d) \/ Set(d) PROVE Knows(c)'
  BY <1>9, <1>b, <1>l, RepliedKnowing DEF Unsubscribe, Set, Request
<1>10. ASSUME NEW d \in Clients, TooLong(d) PROVE Knows(c)'
  <2>1. toClient'[c] = toClient[c] \/ c \in {d}
    BY <1>10, FeedTypes DEF TooLong
  <2> QED BY <1>10, <2>1, ClosedKnowing DEF TooLong
<1>11. ASSUME NEW d \in Clients, ReadEnd(d) PROVE Knows(c)'
  BY <1>11, <1>a, ClosedKnowing DEF ReadEnd
<1>12. CASE Restart
  BY <1>12, ClosedKnowing DEF Restart
<1>13. ASSUME NEW d \in Clients, Connect(d) PROVE Knows(c)'
  <2>1. CASE d # c
    <3>1. UNCHANGED <<peer[c], heard[c], told[c], session[c], Flow(c)>>
      BY <1>13, <2>1, FeedTypes DEF Connect, Flow
    <3> QED BY <1>t, <3>1, LeftKnowing
  <2>2. CASE d = c
    <3>1. /\ toClient[c] = <<>> /\ out[c] = <<>> /\ told[c] = NoStatus
          /\ UNCHANGED <<toClient, out, told>> /\ session'[c] # "none"
      BY <1>13, <1>t, <2>2, FeedTypes DEF Connect, LedgerInv, Books, Knows
    <3>2. Flow(c)' = <<>> /\ Len(<<>>) = 0 /\ heard'[c] = NoStatus
      BY <1>13, <2>2, <3>1, FeedTypes DEF Flow, Connect
    <3> QED BY <3>1, <3>2 DEF Knows, LastSaid
  <2> QED BY <2>1, <2>2
<1>14. ASSUME NEW d \in Clients, ReadReply(d) PROVE Knows(c)'
  <2> DEFINE line == Head(toClient[c])
  <2>1. /\ peer[d] # "gone" /\ toClient[d] # <<>>
        /\ toClient' = [toClient EXCEPT ![d] = Tail(@)]
        /\ heard' = IF Head(toClient[d]).kind = "ack" THEN heard
                    ELSE [heard EXCEPT ![d] = Head(toClient[d]).body]
        /\ UNCHANGED <<peer, out, session, told>>
    BY <1>14 DEF ReadReply
  <2>2. CASE d # c
    <3>1. UNCHANGED <<peer[c], heard[c], told[c], session[c], Flow(c)>>
      BY <2>1, <2>2, FeedTypes DEF Flow
    <3> QED BY <1>t, <3>1, LeftKnowing
  <2>3. CASE d = c
    <3>1. /\ Head(Flow(c)) = line /\ Tail(Flow(c)) = Tail(toClient[c]) \o out[c]
          /\ Flow(c) # <<>> /\ Flow(c) \in Seq(Lines)
      BY <2>1, <2>3, FlowTypes, FirstOfFlow DEF Flow
    <3>2. Flow(c)' = Tail(Flow(c))
      BY <2>1, <2>3, <3>1, FeedTypes DEF Flow
    <3>3. heard'[c] = IF Stamped(line) THEN line.body ELSE heard[c]
      BY <2>1, <2>3, FeedTypes DEF Stamped
    <3> HIDE DEF line
    <3>4. LastSaid(Flow(c), heard[c], told[c]) =>
            LastSaid(Flow(c)', heard'[c], told[c])
      BY <3>1, <3>2, <3>3, SaidTail
    <3> QED BY <1>t, <2>1, <3>4 DEF Knows
  <2> QED BY <2>2, <2>3
<1>15. ASSUME NEW d \in Clients, Leave(d) PROVE Knows(c)'
  <2>1. CASE d # c
    <3>1. UNCHANGED <<peer[c], heard[c], told[c], session[c], Flow(c)>>
      BY <1>15, <2>1, FeedTypes DEF Leave, Flow
    <3> QED BY <1>t, <3>1, LeftKnowing
  <2>2. CASE d = c
    <3>1. peer'[c] = "gone" /\ UNCHANGED <<session, told>>
      BY <1>15, <2>2, FeedTypes DEF Leave
    <3> QED BY <1>t, <3>1 DEF Knows
  <2> QED BY <2>1, <2>2
<1>16. ASSUME NEW d \in Clients, ShutDownSending(d) PROVE Knows(c)'
  <2>1. (peer'[c] = "gone" <=> peer[c] = "gone") /\ Flow(c)' = Flow(c)
    BY <1>16, FeedTypes DEF ShutDownSending, Flow
  <2> QED BY <1>16, <1>t, <2>1 DEF ShutDownSending, Knows
<1>17. ASSUME NEW d \in Clients, NEW verb \in Verbs, SendRequest(d, verb)
       PROVE  Knows(c)'
  BY <1>17, <1>a DEF SendRequest
<1>18. CASE UNCHANGED vars
  BY <1>18, <1>a DEF vars
<1> QED
  BY <1>2, <1>3, <1>4, <1>5, <1>6, <1>7, <1>8, <1>9, <1>10, <1>11, <1>12,
     <1>13, <1>14, <1>15, <1>16, <1>17, <1>18 DEF Next, Loop

LEMMA ToldCorrect == Spec => []ToldIsLast
<1>1. Init => ToldIsLast
  BY DEF Init, ToldIsLast, Knows
<1>2. LedgerInv /\ LoopInv /\ ToldIsLast /\ [Next]_vars => ToldIsLast'
  BY ToldStep
<1> QED BY <1>1, <1>2, LedgerCorrect, LoopCorrect, PTL DEF Spec

\* Between two turns, a subscriber that has read all that was sent to it.
UpToDate(c) ==
    /\ phase = "poll" /\ subscribed[c] /\ peer[c] # "gone"
    /\ toClient[c] = <<>> /\ out[c] = <<>>

LEMMA HeardIsTold ==
    ASSUME LoopInv, ToldIsLast, NEW c \in Clients, UpToDate(c)
    PROVE  heard[c] = told[c]
<1>1. LastSaid(Flow(c), heard[c], told[c])
  BY DEF UpToDate, LoopInv, ToldIsLast, Knows
<1>2. Flow(c) = <<>> /\ 1..Len(<<>>) = {}
  BY DEF UpToDate, Flow
<1> QED BY <1>1, <1>2 DEF LastSaid

\* The safety half of SubscribersConverge, from the commit to the client's own
\* eyes: whenever the loop polls, a subscriber with nothing left to read has
\* read the status of now, if no two commits give the same text.
THEOREM NothingLeftUnheard ==
    ASSUME ~SameSecond
    PROVE  Spec => [](\A c \in Clients : UpToDate(c) => heard[c] = status)
<1>1. LoopInv /\ ToldIsLast /\ SubscribersCurrent
        => \A c \in Clients : UpToDate(c) => heard[c] = status
  BY HeardIsTold DEF SubscribersCurrent, UpToDate
<1> QED BY <1>1, LoopCorrect, ToldCorrect, SubscribersAreCurrent, PTL

\* And with commits that may: a status of the same second as the one of now.
THEOREM HeardWithinTheSecond ==
    Spec => [](\A c \in Clients : UpToDate(c) => heard[c].at = status.at)
<1> DEFINE Recent == phase = "poll" =>
                       \A c \in Clients : subscribed[c] => told[c].at = status.at
<1>1. LoopInv /\ ToldIsLast /\ Recent
        => \A c \in Clients : UpToDate(c) => heard[c].at = status.at
  BY HeardIsTold DEF UpToDate
<1> QED BY <1>1, LoopCorrect, ToldCorrect, SubscribersWithinTheSecond, PTL
=============================================================================
