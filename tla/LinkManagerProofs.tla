------------------------- MODULE LinkManagerProofs -------------------------
(***************************************************************************)
(* Proofs about LinkManager, for any number of headsets, any bounds and    *)
(* any behaviour of BlueZ; a theorem that needs less freedom says so in    *)
(* its ASSUME.                                                             *)
(*                                                                         *)
(* Each invariant has a lemma that one step preserves it, with one case    *)
(* per action (the actions that touch nothing the invariant mentions are   *)
(* taken together), and the theorems put them together with PTL:           *)
(*                                                                         *)
(*    FlagsStep, DataStep -> TypeCorrect                                   *)
(*    SafeStep            -> SocketNeverLeaks, ParkedNeverLeaks            *)
(*      PublishedStep     -> PublishedCorrect                              *)
(*      EventStep         -> LinkIsReal                                    *)
(*      ReportStep        -> WakeUpNeverLost                               *)
(*      LiveStep          -> NoBlindConnect                                *)
(*      TargetStep        -> OthersDoNoHarm                                *)
(*      PacedLemma        -> RetriesArePaced                               *)
(***************************************************************************)
EXTENDS LinkManager, TLAPS

----------------------------------------------------------------------------
(* Type correctness.                                                       *)

LEMMA FlagsStep ==
    ASSUME FlagsOK, [Next]_vars
    PROVE  FlagsOK'
<1> USE DEF FlagsOK, managerVars, blockVars, watcherVars, envVars, boundVars
<1>1. CASE FindDown
  BY <1>1 DEF FindDown, Candidates, ReadsAsDown, Disturb,
     ScheduleDiscoveryRetry
<1>2. CASE FindUp
  BY <1>2 DEF FindUp, Candidates
<1>3. CASE ConnectAtOnce
  BY <1>3 DEF ConnectAtOnce, EnterConnected
<1>4. CASE ConnectInProgress
  BY <1>4 DEF ConnectInProgress
<1>5. CASE Terminate
  BY <1>5 DEF Terminate
<1>6. CASE SignalUsr2
  BY <1>6 DEF SignalUsr2, AttemptDiscovery
<1>7. CASE SocketConnected
  BY <1>7 DEF SocketConnected, EnterConnected
<1>8. CASE BusReportsDown
  BY <1>8 DEF BusReportsDown, Heard, ScheduleReconnect
<1>9. CASE WakeUp
  BY <1>9 DEF WakeUp, Parked
<1>10. CASE RequestAnswered
  BY <1>10 DEF RequestAnswered, Up, Emit, ScheduleDiscoveryRetry
<1>11. CASE FindNothing \/ FindUnpaired \/ ConnectFails \/ SyncDropsLink \/
        SocketLost \/ RequestDropsLink \/ TickTimeout
  BY <1>11 DEF FindNothing, Candidates, Disturb, ScheduleReconnect,
     FindUnpaired, ConnectFails, SyncDropsLink, DropLink, SocketLost,
     SocketBroken, RequestDropsLink, TickTimeout, Parked
<1>12. CASE Start \/ SignalUsr1 \/ BusReportsUp \/ IpcReconnect \/ TickRetry
  BY <1>12 DEF Start, AttemptDiscovery, SignalUsr1, Restart, BusReportsUp,
     Heard, IpcReconnect, TickRetry, Parked
<1>13. CASE Poll \/ SocketQuiet \/ BusIgnores \/ BusFails
  BY <1>13 DEF Poll, PollResults, SocketQuiet, SocketBroken, BusIgnores,
     Heard, BusFails
<1>14. CASE NoSignal \/ SyncDone \/ BusDrained \/ IpcDone \/ TickQuiet \/
        RefreshDone
  BY <1>14 DEF NoSignal, SyncDone, BusDrained, IpcDone, TickQuiet, Parked,
     RefreshDone
<1>15. CASE BackoffElapses \/ ConnectElapses \/ NudgeElapses
  BY <1>15 DEF BackoffElapses, ConnectElapses, Disturb, NudgeElapses
<1>16. CASE SocketAccepted \/ SocketRefused \/ SocketDies
  BY <1>16 DEF SocketAccepted, SocketRefused, SocketDies, Disturb
<1>17. ASSUME NEW d \in Devices, LinkUp(d) PROVE FlagsOK'
  BY <1>17 DEF LinkUp, Up, Disturb, Emit
<1>18. ASSUME NEW d \in Devices, LinkDown(d) PROVE FlagsOK'
  BY <1>18 DEF LinkDown, Up, Disturb, Broken, Emit
<1>19. ASSUME NEW d \in Devices,
              ServiceOpens(d) \/ ServiceCloses(d) \/ Pair(d) \/ Unpair(d)
       PROVE  FlagsOK'
  BY <1>19 DEF ServiceOpens, ServiceCloses, Disturb, Broken, Pair, Unpair, Up
<1>20. CASE UNCHANGED vars
  BY <1>20 DEF vars
<1> QED
  BY <1>1, <1>2, <1>3, <1>4, <1>5, <1>6, <1>7, <1>8, <1>9, <1>10, <1>11,
     <1>12, <1>13, <1>14, <1>15, <1>16, <1>17, <1>18, <1>19, <1>20 DEF Next,
     Daemon, Clock, Environment

\* BlueZ's messages are reports.
LEMMA EmitTyped ==
    ASSUME queue \in Seq(Reports), NEW d \in Devices, NEW up \in BOOLEAN, Emit(d, up)
    PROVE  queue' \in Seq(Reports)
<1>1. CASE bus
  <2>1. PICK plain \in SignalShapes :
            queue' = Append(queue, [dev |-> d, up |-> up, plain |-> plain])
    BY <1>1 DEF Emit
  <2>2. [dev |-> d, up |-> up, plain |-> plain] \in Reports
    BY LinkAssumption DEF Reports
  <2> QED
    BY <2>1, <2>2
<1>2. CASE ~bus
  BY <1>2 DEF Emit
<1> QED
  BY <1>1, <1>2

LEMMA DataStep ==
    ASSUME DataOK, [Next]_vars
    PROVE  DataOK'
<1> USE LinkAssumption DEF DataOK, States, Phases, Reports, managerVars,
        blockVars, watcherVars, envVars, boundVars
<1>1. CASE Start
  BY <1>1 DEF Start, AttemptDiscovery
<1>2. CASE FindNothing
  BY <1>2 DEF FindNothing, Candidates, Disturb, ScheduleReconnect
<1>3. CASE FindUnpaired
  BY <1>3 DEF FindUnpaired, Candidates, ScheduleReconnect
<1>4. CASE FindDown
  BY <1>4 DEF FindDown, Candidates, ReadsAsDown, Disturb,
     ScheduleDiscoveryRetry
<1>5. CASE FindUp
  BY <1>5 DEF FindUp, Candidates
<1>6. CASE ConnectAtOnce
  BY <1>6 DEF ConnectAtOnce, EnterConnected
<1>7. CASE ConnectInProgress
  BY <1>7 DEF ConnectInProgress
<1>8. CASE ConnectFails
  BY <1>8 DEF ConnectFails, Disturb, ScheduleReconnect
<1>9. CASE SyncDone
  BY <1>9 DEF SyncDone
<1>10. CASE SyncDropsLink
  BY <1>10 DEF SyncDropsLink, DropLink, ScheduleReconnect
<1>11. CASE Poll
  BY <1>11 DEF Poll, PollResults
<1>12. CASE NoSignal
  BY <1>12 DEF NoSignal
<1>13. CASE Terminate
  BY <1>13 DEF Terminate
<1>14. CASE SignalUsr1
  BY <1>14 DEF SignalUsr1, Restart, AttemptDiscovery
<1>15. CASE SignalUsr2
  BY <1>15 DEF SignalUsr2, AttemptDiscovery
<1>16. CASE SocketConnected
  BY <1>16 DEF SocketConnected, EnterConnected
<1>17. CASE SocketLost
  BY <1>17 DEF SocketLost, SocketBroken, ScheduleReconnect
<1>18. CASE SocketQuiet
  BY <1>18 DEF SocketQuiet, SocketBroken
<1>19. CASE BusReportsUp
  BY <1>19 DEF BusReportsUp, Heard, AttemptDiscovery
<1>20. CASE BusReportsDown
  BY <1>20 DEF BusReportsDown, Heard, ScheduleReconnect
<1>21. CASE BusIgnores
  BY <1>21 DEF BusIgnores, Heard
<1>22. CASE BusDrained
  BY <1>22 DEF BusDrained
<1>23. CASE BusFails
  BY <1>23 DEF BusFails
<1>24. CASE IpcReconnect
  BY <1>24 DEF IpcReconnect, Restart, AttemptDiscovery
<1>25. CASE RequestDropsLink
  BY <1>25 DEF RequestDropsLink, DropLink, ScheduleReconnect
<1>26. CASE IpcDone
  BY <1>26 DEF IpcDone
<1>27. CASE WakeUp
  BY <1>27 DEF WakeUp, Parked
<1>28. CASE TickTimeout
  BY <1>28 DEF TickTimeout, Parked, ScheduleReconnect
<1>29. CASE TickRetry
  BY <1>29 DEF TickRetry, Parked, AttemptDiscovery
<1>30. CASE TickQuiet
  BY <1>30 DEF TickQuiet, Parked
<1>31. CASE RefreshDone
  BY <1>31 DEF RefreshDone
<1>32. CASE RequestAnswered
  <2>1. queue' \in Seq(Reports)
    BY <1>32, EmitTyped DEF RequestAnswered
  <2>2. link' \in [Devices -> {"off", "acl", "ready"}]
    BY <1>32 DEF RequestAnswered
  <2>3. /\ state' \in States /\ retry' \in 0..MaxRetry
        /\ asking' \in Devices \cup {NoDevice}
        /\ sock' \in {"closed", "connecting", "up", "refused", "dead"}
    BY <1>32 DEF RequestAnswered, ScheduleDiscoveryRetry
  <2>4. UNCHANGED <<dev, target, pc, revents, paired, changes, ops>>
    BY <1>32 DEF RequestAnswered
  <2> QED
    BY <2>1, <2>2, <2>3, <2>4
<1>33. CASE BackoffElapses
  BY <1>33 DEF BackoffElapses
<1>34. CASE ConnectElapses
  BY <1>34 DEF ConnectElapses, Disturb
<1>35. CASE NudgeElapses
  BY <1>35 DEF NudgeElapses
<1>36. CASE SocketAccepted
  BY <1>36 DEF SocketAccepted
<1>37. CASE SocketRefused
  BY <1>37 DEF SocketRefused
<1>38. CASE SocketDies
  BY <1>38 DEF SocketDies, Disturb
<1>39. ASSUME NEW d \in Devices, LinkUp(d) PROVE DataOK'
  <2>1. queue' \in Seq(Reports)
    BY <1>39, EmitTyped DEF LinkUp
  <2> QED
    BY <1>39, <2>1 DEF LinkUp, Disturb
<1>40. ASSUME NEW d \in Devices, LinkDown(d) PROVE DataOK'
  <2>1. queue' \in Seq(Reports)
    BY <1>40, EmitTyped DEF LinkDown
  <2> QED
    BY <1>40, <2>1 DEF LinkDown, Disturb, Broken
<1>41. ASSUME NEW d \in Devices,
              ServiceOpens(d) \/ ServiceCloses(d) \/ Pair(d) \/ Unpair(d)
       PROVE  DataOK'
  BY <1>41 DEF ServiceOpens, ServiceCloses, Disturb, Broken, Pair, Unpair, Up
<1>42. CASE UNCHANGED vars
  BY <1>42 DEF vars
<1> QED
  BY <1>1, <1>2, <1>3, <1>4, <1>5, <1>6, <1>7, <1>8, <1>9, <1>10, <1>11,
     <1>12, <1>13, <1>14, <1>15, <1>16, <1>17, <1>18, <1>19, <1>20, <1>21,
     <1>22, <1>23, <1>24, <1>25, <1>26, <1>27, <1>28, <1>29, <1>30, <1>31,
     <1>32, <1>33, <1>34, <1>35, <1>36, <1>37, <1>38, <1>39, <1>40, <1>41,
     <1>42 DEF Next, Daemon, Clock, Environment

LEMMA TypeInit == Init => TypeOK
<1>1. Init => FlagsOK
  BY LinkAssumption DEF Init, FlagsOK
<1>2. Init => DataOK
  BY LinkAssumption DEF Init, DataOK, States, Phases
<1> QED
  BY <1>1, <1>2 DEF TypeOK

LEMMA TypeStep == ASSUME TypeOK, [Next]_vars PROVE TypeOK'
BY FlagsStep, DataStep DEF TypeOK

\* No step of the daemon or its surroundings leaves the declared types; in
\* particular retryCount_ stays capped and only known reports are queued.
THEOREM TypeCorrect == Spec => []TypeOK
<1>1. TypeOK /\ [Next]_vars => TypeOK'
  BY TypeStep
<1> QED
  BY TypeInit, <1>1, PTL DEF Spec

----------------------------------------------------------------------------
(* The socket, the flags and the blocking calls.                           *)

SafeInv == PhaseInv /\ SocketMatchesState /\ ParkedOnlyInBackoff

LEMMA SafeStep ==
    ASSUME DataOK, SafeInv, [Next]_vars
    PROVE  SafeInv'
<1> USE LinkAssumption DEF DataOK, SafeInv, PhaseInv, SocketMatchesState,
        ParkedOnlyInBackoff, Idle, managerVars, blockVars, watcherVars,
        envVars, boundVars
<1>1. CASE Start
  BY <1>1 DEF Start, AttemptDiscovery
<1>2. CASE FindNothing
  BY <1>2 DEF FindNothing, Candidates, Disturb, ScheduleReconnect
<1>3. CASE FindUnpaired
  BY <1>3 DEF FindUnpaired, Candidates, ScheduleReconnect
<1>4. CASE FindDown
  BY <1>4 DEF FindDown, Candidates, ReadsAsDown, Disturb,
     ScheduleDiscoveryRetry
<1>5. CASE FindUp
  BY <1>5 DEF FindUp, Candidates
<1>6. CASE ConnectAtOnce
  BY <1>6 DEF ConnectAtOnce, EnterConnected
<1>7. CASE ConnectInProgress
  BY <1>7 DEF ConnectInProgress
<1>8. CASE ConnectFails
  BY <1>8 DEF ConnectFails, Disturb, ScheduleReconnect
<1>9. CASE SyncDone
  BY <1>9 DEF SyncDone
<1>10. CASE SyncDropsLink
  BY <1>10 DEF SyncDropsLink, DropLink, ScheduleReconnect
<1>11. CASE Poll
  BY <1>11 DEF Poll, PollResults
<1>12. CASE NoSignal
  BY <1>12 DEF NoSignal
<1>13. CASE Terminate
  BY <1>13 DEF Terminate
<1>14. CASE SignalUsr1
  BY <1>14 DEF SignalUsr1, Restart, AttemptDiscovery
<1>15. CASE SignalUsr2
  BY <1>15 DEF SignalUsr2, AttemptDiscovery
<1>16. CASE SocketConnected
  BY <1>16 DEF SocketConnected, EnterConnected
<1>17. CASE SocketLost
  BY <1>17 DEF SocketLost, SocketBroken, ScheduleReconnect
<1>18. CASE SocketQuiet
  BY <1>18 DEF SocketQuiet, SocketBroken
<1>19. CASE BusReportsUp
  BY <1>19 DEF BusReportsUp, Heard, AttemptDiscovery
<1>20. CASE BusReportsDown
  <2>1. CASE state \in {"CONNECTED", "CONNECTING"}
    BY <1>20, <2>1 DEF BusReportsDown, ScheduleReconnect
  <2>2. CASE state \notin {"CONNECTED", "CONNECTING"}
    <3>1. state = "RECONNECT_BACKOFF" /\ dev # NoDevice
      BY <1>20, <2>2 DEF BusReportsDown, States
    <3>2. UNCHANGED <<state, dev, sock, pc, asking, syncing>>
      BY <1>20, <2>2 DEF BusReportsDown
    <3>3. waiting'
      BY <1>20, <2>2 DEF BusReportsDown
    <3> QED
      BY <3>1, <3>2, <3>3
  <2> QED
    BY <2>1, <2>2
<1>21. CASE BusIgnores
  BY <1>21 DEF BusIgnores, Heard
<1>22. CASE BusDrained
  BY <1>22 DEF BusDrained
<1>23. CASE BusFails
  BY <1>23 DEF BusFails
<1>24. CASE IpcReconnect
  BY <1>24 DEF IpcReconnect, Restart, AttemptDiscovery
<1>25. CASE RequestDropsLink
  BY <1>25 DEF RequestDropsLink, DropLink, ScheduleReconnect
<1>26. CASE IpcDone
  BY <1>26 DEF IpcDone
<1>27. CASE WakeUp
  BY <1>27 DEF WakeUp, Parked
<1>28. CASE TickTimeout
  BY <1>28 DEF TickTimeout, Parked, ScheduleReconnect
<1>29. CASE TickRetry
  BY <1>29 DEF TickRetry, Parked, AttemptDiscovery
<1>30. CASE TickQuiet
  BY <1>30 DEF TickQuiet, Parked
<1>31. CASE RefreshDone
  BY <1>31 DEF RefreshDone
<1>32. CASE RequestAnswered
  BY <1>32 DEF RequestAnswered, Up, Emit, ScheduleDiscoveryRetry
<1>33. CASE BackoffElapses
  BY <1>33 DEF BackoffElapses
<1>34. CASE ConnectElapses
  BY <1>34 DEF ConnectElapses, Disturb
<1>35. CASE NudgeElapses
  BY <1>35 DEF NudgeElapses
<1>36. CASE SocketAccepted
  BY <1>36 DEF SocketAccepted
<1>37. CASE SocketRefused
  BY <1>37 DEF SocketRefused
<1>38. CASE SocketDies
  BY <1>38 DEF SocketDies, Disturb
<1>39. ASSUME NEW d \in Devices, LinkUp(d) PROVE SafeInv'
  BY <1>39 DEF LinkUp, Up, Disturb, Emit
<1>40. ASSUME NEW d \in Devices, LinkDown(d) PROVE SafeInv'
  BY <1>40 DEF LinkDown, Up, Disturb, Broken, Emit
<1>41. ASSUME NEW d \in Devices,
              ServiceOpens(d) \/ ServiceCloses(d) \/ Pair(d) \/ Unpair(d)
       PROVE  SafeInv'
  BY <1>41 DEF ServiceOpens, ServiceCloses, Disturb, Broken, Pair, Unpair, Up
<1>42. CASE UNCHANGED vars
  BY <1>42 DEF vars
<1> QED
  BY <1>1, <1>2, <1>3, <1>4, <1>5, <1>6, <1>7, <1>8, <1>9, <1>10, <1>11,
     <1>12, <1>13, <1>14, <1>15, <1>16, <1>17, <1>18, <1>19, <1>20, <1>21,
     <1>22, <1>23, <1>24, <1>25, <1>26, <1>27, <1>28, <1>29, <1>30, <1>31,
     <1>32, <1>33, <1>34, <1>35, <1>36, <1>37, <1>38, <1>39, <1>40, <1>41,
     <1>42 DEF Next, Daemon, Clock, Environment

LEMMA SafeCorrect == Spec => [](TypeOK /\ SafeInv)
<1>1. Init => TypeOK /\ SafeInv
  BY TypeInit, LinkAssumption DEF Init, SafeInv, PhaseInv, SocketMatchesState,
     ParkedOnlyInBackoff
<1>2. TypeOK /\ SafeInv /\ [Next]_vars => (TypeOK /\ SafeInv)'
  BY TypeStep, SafeStep DEF TypeOK
<1> QED
  BY <1>1, <1>2, PTL DEF Spec

\* scheduleReconnect, scheduleDiscoveryRetry and disconnect close the socket on
\* every path out of CONNECTING and CONNECTED, and nothing else opens one.
THEOREM SocketNeverLeaks == Spec => []SocketMatchesState
BY SafeCorrect, PTL DEF SafeInv

\* waitingForAclLink_, which disables tick(), is set in a back-off only.
THEOREM ParkedNeverLeaks == Spec => []ParkedOnlyInBackoff
BY SafeCorrect, PTL DEF SafeInv

----------------------------------------------------------------------------
(* What the clients are told.                                              *)

LEMMA PublishedStep ==
    ASSUME "USR2" \notin Signals, TypeOK, PhaseInv, PublishedMatchesLink,
           [Next]_vars
    PROVE  PublishedMatchesLink'
<1> USE LinkAssumption DEF TypeOK, FlagsOK, DataOK, PhaseInv,
        PublishedMatchesLink, Idle, managerVars, blockVars, watcherVars,
        envVars, boundVars
<1>1. CASE FindDown
  BY <1>1 DEF FindDown, Candidates, ReadsAsDown, Disturb,
     ScheduleDiscoveryRetry
<1>2. CASE FindUp
  BY <1>2 DEF FindUp, Candidates
<1>3. CASE ConnectAtOnce
  BY <1>3 DEF ConnectAtOnce, EnterConnected
<1>4. CASE ConnectInProgress
  BY <1>4 DEF ConnectInProgress
<1>5. CASE Terminate
  BY <1>5 DEF Terminate
<1>6. CASE SignalUsr2
  BY <1>6 DEF SignalUsr2, AttemptDiscovery
<1>7. CASE SocketConnected
  BY <1>7 DEF SocketConnected, EnterConnected
<1>8. CASE BusReportsDown
  BY <1>8 DEF BusReportsDown, Heard, ScheduleReconnect
<1>9. CASE WakeUp
  BY <1>9 DEF WakeUp, Parked
<1>10. CASE RequestAnswered
  BY <1>10 DEF RequestAnswered, Up, Emit, ScheduleDiscoveryRetry
<1>11. CASE FindNothing \/ FindUnpaired \/ ConnectFails \/ SyncDropsLink \/
        SocketLost \/ RequestDropsLink \/ TickTimeout
  BY <1>11 DEF FindNothing, Candidates, Disturb, ScheduleReconnect,
     FindUnpaired, ConnectFails, SyncDropsLink, DropLink, SocketLost,
     SocketBroken, RequestDropsLink, TickTimeout, Parked
<1>12. CASE Start \/ SignalUsr1 \/ BusReportsUp \/ IpcReconnect \/ TickRetry
  BY <1>12 DEF Start, AttemptDiscovery, SignalUsr1, Restart, BusReportsUp,
     Heard, IpcReconnect, TickRetry, Parked
<1>13. CASE Poll \/ SocketQuiet \/ BusIgnores \/ BusFails
  BY <1>13 DEF Poll, PollResults, SocketQuiet, SocketBroken, BusIgnores,
     Heard, BusFails
<1>14. CASE NoSignal \/ SyncDone \/ BusDrained \/ IpcDone \/ TickQuiet \/
        RefreshDone
  BY <1>14 DEF NoSignal, SyncDone, BusDrained, IpcDone, TickQuiet, Parked,
     RefreshDone
<1>15. CASE BackoffElapses \/ ConnectElapses \/ NudgeElapses
  BY <1>15 DEF BackoffElapses, ConnectElapses, Disturb, NudgeElapses
<1>16. CASE SocketAccepted \/ SocketRefused \/ SocketDies
  BY <1>16 DEF SocketAccepted, SocketRefused, SocketDies, Disturb
<1>17. ASSUME NEW d \in Devices, LinkUp(d) PROVE PublishedMatchesLink'
  BY <1>17 DEF LinkUp, Up, Disturb, Emit
<1>18. ASSUME NEW d \in Devices, LinkDown(d) PROVE PublishedMatchesLink'
  BY <1>18 DEF LinkDown, Up, Disturb, Broken, Emit
<1>19. ASSUME NEW d \in Devices,
              ServiceOpens(d) \/ ServiceCloses(d) \/ Pair(d) \/ Unpair(d)
       PROVE  PublishedMatchesLink'
  BY <1>19 DEF ServiceOpens, ServiceCloses, Disturb, Broken, Pair, Unpair, Up
<1>20. CASE UNCHANGED vars
  BY <1>20 DEF vars
<1> QED
  BY <1>1, <1>2, <1>3, <1>4, <1>5, <1>6, <1>7, <1>8, <1>9, <1>10, <1>11,
     <1>12, <1>13, <1>14, <1>15, <1>16, <1>17, <1>18, <1>19, <1>20 DEF Next,
     Daemon, Clock, Environment

\* Without the simulated reconnect of SIGUSR2, status.json and the broadcasts
\* say "connected" exactly while the manager is CONNECTED.
THEOREM PublishedCorrect ==
    ASSUME "USR2" \notin Signals
    PROVE  Spec => []PublishedMatchesLink
<1>1. Init => PublishedMatchesLink
  BY DEF Init, PublishedMatchesLink
<1>2. TypeOK /\ SafeInv /\ PublishedMatchesLink /\ [Next]_vars => PublishedMatchesLink'
  BY PublishedStep DEF SafeInv
<1> QED
  BY <1>1, <1>2, SafeCorrect, PTL DEF Spec

----------------------------------------------------------------------------
(* Socket events.                                                          *)

Accepted == EventInv /\ LinkedMeansAccepted

LEMMA EventStep ==
    ASSUME DataOK, SafeInv, Accepted, [Next]_vars
    PROVE  Accepted'
<1> USE LinkAssumption DEF Accepted, SafeInv, DataOK, PhaseInv,
        SocketMatchesState, EventInv, LinkedMeansAccepted, Idle, managerVars,
        blockVars, watcherVars, envVars, boundVars
<1>1. CASE Start
  BY <1>1 DEF Start, AttemptDiscovery
<1>2. CASE FindNothing
  BY <1>2 DEF FindNothing, Candidates, Disturb, ScheduleReconnect
<1>3. CASE FindUnpaired
  BY <1>3 DEF FindUnpaired, Candidates, ScheduleReconnect
<1>4. CASE FindDown
  BY <1>4 DEF FindDown, Candidates, ReadsAsDown, Disturb,
     ScheduleDiscoveryRetry
<1>5. CASE FindUp
  BY <1>5 DEF FindUp, Candidates
<1>6. CASE ConnectAtOnce
  BY <1>6 DEF ConnectAtOnce, EnterConnected
<1>7. CASE ConnectInProgress
  BY <1>7 DEF ConnectInProgress
<1>8. CASE ConnectFails
  BY <1>8 DEF ConnectFails, Disturb, ScheduleReconnect
<1>9. CASE SyncDone
  BY <1>9 DEF SyncDone
<1>10. CASE SyncDropsLink
  BY <1>10 DEF SyncDropsLink, DropLink, ScheduleReconnect
<1>11. CASE Poll
  BY <1>11 DEF Poll, PollResults
<1>12. CASE NoSignal
  BY <1>12 DEF NoSignal
<1>13. CASE Terminate
  BY <1>13 DEF Terminate
<1>14. CASE SignalUsr1
  BY <1>14 DEF SignalUsr1, Restart, AttemptDiscovery
<1>15. CASE SignalUsr2
  BY <1>15 DEF SignalUsr2, AttemptDiscovery
<1>16. CASE SocketConnected
  BY <1>16 DEF SocketConnected, EnterConnected
<1>17. CASE SocketLost
  BY <1>17 DEF SocketLost, SocketBroken, ScheduleReconnect
<1>18. CASE SocketQuiet
  BY <1>18 DEF SocketQuiet, SocketBroken
<1>19. CASE BusReportsUp
  BY <1>19 DEF BusReportsUp, Heard, AttemptDiscovery
<1>20. CASE BusReportsDown
  BY <1>20 DEF BusReportsDown, Heard, ScheduleReconnect
<1>21. CASE BusIgnores
  BY <1>21 DEF BusIgnores, Heard
<1>22. CASE BusDrained
  BY <1>22 DEF BusDrained
<1>23. CASE BusFails
  BY <1>23 DEF BusFails
<1>24. CASE IpcReconnect
  BY <1>24 DEF IpcReconnect, Restart, AttemptDiscovery
<1>25. CASE RequestDropsLink
  BY <1>25 DEF RequestDropsLink, DropLink, ScheduleReconnect
<1>26. CASE IpcDone
  BY <1>26 DEF IpcDone
<1>27. CASE WakeUp
  BY <1>27 DEF WakeUp, Parked
<1>28. CASE TickTimeout
  BY <1>28 DEF TickTimeout, Parked, ScheduleReconnect
<1>29. CASE TickRetry
  BY <1>29 DEF TickRetry, Parked, AttemptDiscovery
<1>30. CASE TickQuiet
  BY <1>30 DEF TickQuiet, Parked
<1>31. CASE RefreshDone
  BY <1>31 DEF RefreshDone
<1>32. CASE RequestAnswered
  BY <1>32 DEF RequestAnswered, Up, Emit, ScheduleDiscoveryRetry
<1>33. CASE BackoffElapses
  BY <1>33 DEF BackoffElapses
<1>34. CASE ConnectElapses
  BY <1>34 DEF ConnectElapses, Disturb
<1>35. CASE NudgeElapses
  BY <1>35 DEF NudgeElapses
<1>36. CASE SocketAccepted
  BY <1>36 DEF SocketAccepted
<1>37. CASE SocketRefused
  BY <1>37 DEF SocketRefused
<1>38. CASE SocketDies
  BY <1>38 DEF SocketDies, Disturb
<1>39. ASSUME NEW d \in Devices, LinkUp(d) PROVE Accepted'
  BY <1>39 DEF LinkUp, Up, Disturb, Emit
<1>40. ASSUME NEW d \in Devices, LinkDown(d) PROVE Accepted'
  BY <1>40 DEF LinkDown, Up, Disturb, Broken, Emit
<1>41. ASSUME NEW d \in Devices,
              ServiceOpens(d) \/ ServiceCloses(d) \/ Pair(d) \/ Unpair(d)
       PROVE  Accepted'
  BY <1>41 DEF ServiceOpens, ServiceCloses, Disturb, Broken, Pair, Unpair, Up
<1>42. CASE UNCHANGED vars
  BY <1>42 DEF vars
<1> QED
  BY <1>1, <1>2, <1>3, <1>4, <1>5, <1>6, <1>7, <1>8, <1>9, <1>10, <1>11,
     <1>12, <1>13, <1>14, <1>15, <1>16, <1>17, <1>18, <1>19, <1>20, <1>21,
     <1>22, <1>23, <1>24, <1>25, <1>26, <1>27, <1>28, <1>29, <1>30, <1>31,
     <1>32, <1>33, <1>34, <1>35, <1>36, <1>37, <1>38, <1>39, <1>40, <1>41,
     <1>42 DEF Next, Daemon, Clock, Environment

\* Whatever is signalled, timed out or lost, a link the headset has not accepted
\* is CONNECTED only inside onConnected, and only where SIGUSR1 may be used.
THEOREM LinkIsReal == Spec => []LinkedMeansAccepted
<1>1. Init => Accepted
  BY DEF Init, Accepted, EventInv, LinkedMeansAccepted
<1>2. TypeOK /\ SafeInv /\ Accepted /\ [Next]_vars => Accepted'
  BY EventStep DEF TypeOK
<1>3. Accepted => LinkedMeansAccepted
  BY DEF Accepted
<1> QED
  BY <1>1, <1>2, <1>3, SafeCorrect, PTL DEF Spec

----------------------------------------------------------------------------
(* Reports of the preferred headset.                                       *)

\* Appending a report: an "up" answers every "down" before it, and a report of
\* another headset changes nothing.
LEMMA AppendUp ==
    ASSUME NEW q \in Seq(Reports), NEW m \in Reports, IsUp(m)
    PROVE  DownsAnswered(Append(q, m)) /\ UpAhead(Append(q, m))
<1> DEFINE r == Append(q, m)
<1>1. /\ Len(q) + 1 \in DOMAIN r /\ r[Len(q) + 1] = m
      /\ \A i \in DOMAIN r : i = Len(q) + 1 \/ i < Len(q) + 1
  OBVIOUS
<1>2. UpAhead(r)
  BY <1>1 DEF UpAhead
<1>3. ASSUME NEW i \in DOMAIN r, r[i].dev = Preferred, ~r[i].up
      PROVE  \E j \in DOMAIN r : j > i /\ IsUp(r[j])
  BY <1>1, <1>3 DEF IsUp
<1> QED
  BY <1>2, <1>3 DEF DownsAnswered

LEMMA AppendOther ==
    ASSUME NEW q \in Seq(Reports), NEW m \in Reports, m.dev # Preferred
    PROVE  /\ DownsAnswered(q) => DownsAnswered(Append(q, m))
           /\ UpAhead(q) => UpAhead(Append(q, m))
<1> DEFINE r == Append(q, m)
<1>1. /\ \A i \in DOMAIN q : i \in DOMAIN r /\ r[i] = q[i]
      /\ \A i \in DOMAIN r : i \in DOMAIN q \/ r[i] = m
  OBVIOUS
<1> QED
  BY <1>1 DEF DownsAnswered, UpAhead

\* Reading a report: the answers to later downs stay, and reading a "down" leaves
\* its answer in the queue.
LEMMA TailReports ==
    ASSUME NEW q \in Seq(Reports), q # <<>>, DownsAnswered(q)
    PROVE  /\ Tail(q) \in Seq(Reports)
           /\ DownsAnswered(Tail(q))
           /\ UpAhead(q) /\ ~IsUp(Head(q)) => UpAhead(Tail(q))
           /\ Head(q).dev = Preferred /\ ~Head(q).up => UpAhead(Tail(q))
<1> DEFINE r == Tail(q)
<1>1. /\ 1 \in DOMAIN q /\ Head(q) = q[1] /\ r \in Seq(Reports)
      /\ \A i \in DOMAIN r : i + 1 \in DOMAIN q /\ r[i] = q[i + 1] /\ i \in Nat
      /\ \A i \in DOMAIN q : i \in Nat /\ (i = 1 \/ (i > 1 /\ i - 1 \in DOMAIN r /\ r[i - 1] = q[i]))
  OBVIOUS
<1>2. ASSUME NEW i \in DOMAIN r, r[i].dev = Preferred, ~r[i].up
      PROVE  \E j \in DOMAIN r : j > i /\ IsUp(r[j])
  <2>1. PICK j \in DOMAIN q : j > i + 1 /\ IsUp(q[j])
    BY <1>1, <1>2 DEF DownsAnswered
  <2>2. j - 1 \in DOMAIN r /\ r[j - 1] = q[j] /\ j - 1 > i
    BY <1>1, <2>1
  <2> QED
    BY <2>1, <2>2
<1>3. ASSUME UpAhead(q), ~IsUp(Head(q)) PROVE UpAhead(r)
  BY <1>1, <1>3 DEF UpAhead
<1>4. ASSUME Head(q).dev = Preferred, ~Head(q).up PROVE UpAhead(r)
  <2>1. PICK j \in DOMAIN q : j > 1 /\ IsUp(q[j])
    BY <1>1, <1>4 DEF DownsAnswered
  <2> QED
    BY <1>1, <2>1 DEF UpAhead
<1> QED
  BY <1>1, <1>2, <1>3, <1>4 DEF DownsAnswered

LEMMA EmitUp ==
    ASSUME SignalShapes = {TRUE}, queue \in Seq(Reports), bus,
           Preferred \in Devices, Emit(Preferred, TRUE)
    PROVE  DownsAnswered(queue') /\ UpAhead(queue')
<1> DEFINE m == [dev |-> Preferred, up |-> TRUE, plain |-> TRUE]
<1>1. queue' = Append(queue, m) /\ m \in Reports /\ IsUp(m)
  BY DEF Emit, Reports, IsUp
<1> QED
  BY <1>1, AppendUp

LEMMA EmitOther ==
    ASSUME SignalShapes = {TRUE}, queue \in Seq(Reports), bus,
           NEW d \in Devices \ {Preferred}, NEW up \in BOOLEAN, Emit(d, up)
    PROVE  /\ DownsAnswered(queue) => DownsAnswered(queue')
           /\ UpAhead(queue) => UpAhead(queue')
<1> DEFINE m == [dev |-> d, up |-> up, plain |-> TRUE]
<1>1. queue' = Append(queue, m) /\ m \in Reports /\ m.dev # Preferred
  BY DEF Emit, Reports
<1> QED
  BY <1>1, AppendOther

LEMMA ReportStep ==
    ASSUME Preferred # NoDevice, ~ScrapeMayFail, SignalShapes = {TRUE},
           DataOK, SafeInv, ReportInv, [Next]_vars
    PROVE  ReportInv'
<1> USE LinkAssumption DEF DataOK, SafeInv, PhaseInv, ReportInv, Up,
        ParkedOnlyInBackoff, Idle, managerVars, blockVars, watcherVars,
        envVars, boundVars
<1>1. CASE Start
  BY <1>1 DEF Start, AttemptDiscovery
<1>2. CASE FindNothing
  BY <1>2 DEF FindNothing, Candidates, Disturb, ScheduleReconnect
<1>3. CASE FindUnpaired
  BY <1>3 DEF FindUnpaired, Candidates, ScheduleReconnect
<1>4. CASE FindDown
  BY <1>4 DEF FindDown, Candidates, ReadsAsDown, Disturb,
     ScheduleDiscoveryRetry
<1>5. CASE FindUp
  BY <1>5 DEF FindUp, Candidates
<1>6. CASE ConnectAtOnce
  BY <1>6 DEF ConnectAtOnce, EnterConnected
<1>7. CASE ConnectInProgress
  BY <1>7 DEF ConnectInProgress
<1>8. CASE ConnectFails
  BY <1>8 DEF ConnectFails, Disturb, ScheduleReconnect
<1>9. CASE SyncDropsLink
  BY <1>9 DEF SyncDropsLink, DropLink, ScheduleReconnect
<1>10. CASE Poll
  BY <1>10 DEF Poll, PollResults
<1>11. CASE Terminate
  BY <1>11 DEF Terminate
<1>12. CASE SignalUsr1
  BY <1>12 DEF SignalUsr1, Restart, AttemptDiscovery
<1>13. CASE SignalUsr2
  BY <1>13 DEF SignalUsr2, AttemptDiscovery
<1>14. CASE SocketConnected
  BY <1>14 DEF SocketConnected, EnterConnected
<1>15. CASE SocketLost
  BY <1>15 DEF SocketLost, SocketBroken, ScheduleReconnect
<1>16. CASE SocketQuiet
  BY <1>16 DEF SocketQuiet, SocketBroken
<1>17. CASE BusReportsUp
  <2>1. DownsAnswered(queue) => DownsAnswered(queue')
    BY <1>17, TailReports DEF BusReportsUp
  <2> QED
    BY <1>17, <2>1 DEF BusReportsUp, AttemptDiscovery
<1>18. CASE BusReportsDown
  <2>1. DownsAnswered(queue) => DownsAnswered(queue') /\ UpAhead(queue')
    BY <1>18, TailReports DEF BusReportsDown, Heard
  <2> QED
    BY <1>18, <2>1 DEF BusReportsDown
<1>19. CASE BusIgnores
  <2>1. DownsAnswered(queue) => DownsAnswered(queue')
    BY <1>19, TailReports DEF BusIgnores
  <2>2. waiting => ~IsUp(Head(queue))
    BY <1>19 DEF BusIgnores, Heard, IsUp
  <2>3. waiting /\ DownsAnswered(queue) /\ UpAhead(queue) => UpAhead(queue')
    BY <1>19, <2>2, TailReports DEF BusIgnores
  <2> QED
    BY <1>19, <2>1, <2>3 DEF BusIgnores
<1>20. CASE BusFails
  BY <1>20 DEF BusFails
<1>21. CASE IpcReconnect
  BY <1>21 DEF IpcReconnect, Restart, AttemptDiscovery
<1>22. CASE RequestDropsLink
  BY <1>22 DEF RequestDropsLink, DropLink, ScheduleReconnect
<1>23. CASE WakeUp
  BY <1>23 DEF WakeUp, Parked
<1>24. CASE TickTimeout
  BY <1>24 DEF TickTimeout, Parked, ScheduleReconnect
<1>25. CASE TickRetry
  BY <1>25 DEF TickRetry, Parked, AttemptDiscovery
<1>26. CASE RequestAnswered
  <2>1. asking = Preferred
    BY <1>26 DEF RequestAnswered
  <2>2. CASE UNCHANGED <<link, queue>>
    BY <1>26, <2>2 DEF RequestAnswered
  <2>3. CASE Emit(asking, TRUE)
    <3>1. bus => DownsAnswered(queue') /\ UpAhead(queue')
      BY <1>26, <2>1, <2>3, EmitUp
    <3> QED
      BY <1>26, <2>1, <3>1 DEF RequestAnswered
  <2> QED
    BY <1>26, <2>2, <2>3 DEF RequestAnswered
<1>27. CASE NoSignal \/ SyncDone \/ BusDrained \/ IpcDone \/ TickQuiet \/
        RefreshDone
  BY <1>27 DEF NoSignal, SyncDone, BusDrained, IpcDone, TickQuiet, Parked,
     RefreshDone
<1>28. CASE BackoffElapses \/ ConnectElapses \/ NudgeElapses
  BY <1>28 DEF BackoffElapses, ConnectElapses, Disturb, NudgeElapses
<1>29. CASE SocketAccepted \/ SocketRefused \/ SocketDies
  BY <1>29 DEF SocketAccepted, SocketRefused, SocketDies, Disturb
<1>30. ASSUME NEW d \in Devices, LinkUp(d) PROVE ReportInv'
  <2>1. Emit(d, TRUE) /\ UNCHANGED <<bus, target, dev, waiting, asking>>
    BY <1>30 DEF LinkUp
  <2>2. CASE d = Preferred
    <3>1. bus => DownsAnswered(queue') /\ UpAhead(queue')
      BY <2>1, <2>2, EmitUp
    <3> QED
      BY <2>1, <3>1
  <2>3. CASE d # Preferred
    <3>1. Up(Preferred)' <=> Up(Preferred)
      BY <1>30, <2>3 DEF LinkUp
    <3>2. bus => /\ DownsAnswered(queue) => DownsAnswered(queue')
                 /\ UpAhead(queue) => UpAhead(queue')
      BY <2>1, <2>3, EmitOther
    <3> QED
      BY <2>1, <3>1, <3>2
  <2> QED
    BY <2>2, <2>3
<1>31. ASSUME NEW d \in Devices, LinkDown(d) PROVE ReportInv'
  <2>1. Emit(d, FALSE) /\ UNCHANGED <<bus, target, dev, waiting, asking>>
    BY <1>31 DEF LinkDown
  <2>2. CASE d = Preferred
    <3>1. ~Up(Preferred)'
      BY <1>31, <2>2 DEF LinkDown
    <3> QED
      BY <2>1, <3>1
  <2>3. CASE d # Preferred
    <3>1. Up(Preferred)' <=> Up(Preferred)
      BY <1>31, <2>3 DEF LinkDown
    <3>2. bus => /\ DownsAnswered(queue) => DownsAnswered(queue')
                 /\ UpAhead(queue) => UpAhead(queue')
      BY <2>1, <2>3, EmitOther
    <3> QED
      BY <2>1, <3>1, <3>2
  <2> QED
    BY <2>2, <2>3
<1>32. ASSUME NEW d \in Devices,
              ServiceOpens(d) \/ ServiceCloses(d) \/ Pair(d) \/ Unpair(d)
       PROVE  ReportInv'
  BY <1>32 DEF ServiceOpens, ServiceCloses, Disturb, Broken, Pair, Unpair
<1>33. CASE UNCHANGED vars
  BY <1>33 DEF vars
<1> QED
  BY <1>1, <1>2, <1>3, <1>4, <1>5, <1>6, <1>7, <1>8, <1>9, <1>10, <1>11,
     <1>12, <1>13, <1>14, <1>15, <1>16, <1>17, <1>18, <1>19, <1>20, <1>21,
     <1>22, <1>23, <1>24, <1>25, <1>26, <1>27, <1>28, <1>29, <1>30, <1>31,
     <1>32, <1>33 DEF Next, Daemon, Clock, Environment

\* With a preferred headset, a bluetoothctl that answers and BlueZ putting
\* Connected first, no interleaving of reports, wake-up requests, reconnects and
\* bus failures parks the manager on a live link with nothing left to wake it.
THEOREM WakeUpNeverLost ==
    ASSUME Preferred # NoDevice, ~ScrapeMayFail, SignalShapes = {TRUE}
    PROVE  Spec => []NoLostWakeup
<1>1. Init => ReportInv
  BY DEF Init, ReportInv, DownsAnswered
<1>2. TypeOK /\ SafeInv /\ ReportInv /\ [Next]_vars => ReportInv'
  BY ReportStep DEF TypeOK
<1>3. SafeInv /\ ReportInv => NoLostWakeup
  BY DEF SafeInv, ParkedOnlyInBackoff, ReportInv, UpAhead, IsUp, NoLostWakeup, Parked
<1> QED
  BY <1>1, <1>2, <1>3, SafeCorrect, PTL DEF Spec

----------------------------------------------------------------------------
(* What a step may not do.                                                 *)

\* Nothing BlueZ sends makes an unread "down" unseen.
LEMMA EmitUnread ==
    ASSUME queue \in Seq(Reports), bus, NEW d \in Devices, NEW up \in BOOLEAN,
           Emit(d, up), UNCHANGED dev
    PROVE  /\ DownUnread(dev) => DownUnread(dev)'
           /\ d = dev /\ ~up => DownUnread(dev)'
<1>1. PICK plain \in SignalShapes :
          queue' = Append(queue, [dev |-> d, up |-> up, plain |-> plain])
  BY DEF Emit
<1> DEFINE m == [dev |-> d, up |-> up, plain |-> plain]
<1>2. m \in Reports /\ m.dev = d /\ m.up = up
  BY LinkAssumption DEF Reports
<1>3. /\ \A i \in DOMAIN queue : i \in DOMAIN queue' /\ queue'[i] = queue[i]
      /\ Len(queue) + 1 \in DOMAIN queue' /\ queue'[Len(queue) + 1] = m
  BY <1>1, <1>2
<1> QED
  BY <1>2, <1>3 DEF DownUnread

LEMMA LiveStep ==
    ASSUME DataOK, PhaseInv, LiveInv, [Next]_vars
    PROVE  LiveInv'
<1> USE LinkAssumption DEF DataOK, LiveInv, PhaseInv, Idle, Up, managerVars,
        blockVars, watcherVars, envVars, boundVars
<1>1. CASE Start
  BY <1>1 DEF Start, AttemptDiscovery, DownUnread
<1>2. CASE FindNothing
  BY <1>2 DEF FindNothing, Candidates, Disturb, ScheduleReconnect, DownUnread
<1>3. CASE FindUnpaired
  BY <1>3 DEF FindUnpaired, Candidates, ScheduleReconnect, DownUnread
<1>4. CASE FindDown
  BY <1>4 DEF FindDown, Candidates, ReadsAsDown, Disturb,
     ScheduleDiscoveryRetry, DownUnread
<1>5. CASE FindUp
  BY <1>5 DEF FindUp, Candidates, DownUnread
<1>6. CASE ConnectAtOnce
  BY <1>6 DEF ConnectAtOnce, EnterConnected, DownUnread
<1>7. CASE ConnectInProgress
  BY <1>7 DEF ConnectInProgress, DownUnread
<1>8. CASE ConnectFails
  BY <1>8 DEF ConnectFails, Disturb, ScheduleReconnect, DownUnread
<1>9. CASE SyncDropsLink
  BY <1>9 DEF SyncDropsLink, DropLink, ScheduleReconnect, DownUnread
<1>10. CASE Poll
  BY <1>10 DEF Poll, PollResults, DownUnread
<1>11. CASE Terminate
  BY <1>11 DEF Terminate, DownUnread
<1>12. CASE SignalUsr1
  BY <1>12 DEF SignalUsr1, Restart, AttemptDiscovery, DownUnread
<1>13. CASE SignalUsr2
  BY <1>13 DEF SignalUsr2, AttemptDiscovery, DownUnread
<1>14. CASE SocketConnected
  BY <1>14 DEF SocketConnected, EnterConnected, DownUnread
<1>15. CASE SocketLost
  BY <1>15 DEF SocketLost, SocketBroken, ScheduleReconnect, DownUnread
<1>16. CASE SocketQuiet
  BY <1>16 DEF SocketQuiet, SocketBroken, DownUnread
<1>17. CASE BusReportsUp
  BY <1>17 DEF BusReportsUp, Heard, AttemptDiscovery, DownUnread
<1>18. CASE BusReportsDown
  BY <1>18 DEF BusReportsDown, Heard, ScheduleReconnect, DownUnread
<1>19. CASE BusIgnores
  BY <1>19 DEF BusIgnores, Heard, DownUnread
<1>20. CASE BusFails
  BY <1>20 DEF BusFails, DownUnread
<1>21. CASE IpcReconnect
  BY <1>21 DEF IpcReconnect, Restart, AttemptDiscovery, DownUnread
<1>22. CASE RequestDropsLink
  BY <1>22 DEF RequestDropsLink, DropLink, ScheduleReconnect, DownUnread
<1>23. CASE WakeUp
  BY <1>23 DEF WakeUp, Parked, DownUnread
<1>24. CASE TickTimeout
  BY <1>24 DEF TickTimeout, Parked, ScheduleReconnect, DownUnread
<1>25. CASE TickRetry
  BY <1>25 DEF TickRetry, Parked, AttemptDiscovery, DownUnread
<1>26. CASE RequestAnswered
  BY <1>26 DEF RequestAnswered, Emit, ScheduleDiscoveryRetry, DownUnread
<1>27. CASE NoSignal \/ SyncDone \/ BusDrained \/ IpcDone \/ TickQuiet \/
        RefreshDone
  BY <1>27 DEF NoSignal, SyncDone, BusDrained, IpcDone, TickQuiet, Parked,
     RefreshDone, DownUnread
<1>28. CASE BackoffElapses \/ ConnectElapses \/ NudgeElapses
  BY <1>28 DEF BackoffElapses, ConnectElapses, Disturb, NudgeElapses,
     DownUnread
<1>29. CASE SocketAccepted \/ SocketRefused \/ SocketDies
  BY <1>29 DEF SocketAccepted, SocketRefused, SocketDies, Disturb, DownUnread
<1>30. ASSUME NEW d \in Devices, LinkUp(d) PROVE LiveInv'
  <2>1. Emit(d, TRUE) /\ UNCHANGED <<bus, dev, state>>
    BY <1>30 DEF LinkUp
  <2>2. bus /\ DownUnread(dev) => DownUnread(dev)'
    BY <2>1, EmitUnread
  <2>3. state = "RESOLVING_SDP" /\ Up(dev) => Up(dev)'
    BY <1>30, <2>1 DEF LinkUp
  <2> QED
    BY <2>1, <2>2, <2>3
<1>31. ASSUME NEW d \in Devices, LinkDown(d) PROVE LiveInv'
  <2>1. Emit(d, FALSE) /\ UNCHANGED <<bus, dev, state>>
    BY <1>31 DEF LinkDown
  <2>2. bus /\ DownUnread(dev) => DownUnread(dev)'
    BY <2>1, EmitUnread
  <2>3. bus /\ dev = d => DownUnread(dev)'
    BY <2>1, EmitUnread
  <2>4. dev # d /\ Up(dev) => Up(dev)'
    BY <1>31, <2>1 DEF LinkDown
  <2> QED
    BY <2>1, <2>2, <2>3, <2>4
<1>32. ASSUME NEW d \in Devices,
              ServiceOpens(d) \/ ServiceCloses(d) \/ Pair(d) \/ Unpair(d)
       PROVE  LiveInv'
  BY <1>32 DEF ServiceOpens, ServiceCloses, Disturb, Broken, Pair, Unpair,
     DownUnread
<1>33. CASE UNCHANGED vars
  BY <1>33 DEF vars, DownUnread
<1> QED
  BY <1>1, <1>2, <1>3, <1>4, <1>5, <1>6, <1>7, <1>8, <1>9, <1>10, <1>11,
     <1>12, <1>13, <1>14, <1>15, <1>16, <1>17, <1>18, <1>19, <1>20, <1>21,
     <1>22, <1>23, <1>24, <1>25, <1>26, <1>27, <1>28, <1>29, <1>30, <1>31,
     <1>32, <1>33 DEF Next, Daemon, Clock, Environment

LEMMA OpensLemma ==
    ASSUME SocketMatchesState, LiveInv, [Next]_vars
    PROVE  OpensOnLiveLink
<1> USE LinkAssumption DEF OpensOnLiveLink, LiveInv, SocketMatchesState, Idle,
        managerVars, blockVars, watcherVars, envVars, boundVars
<1>1. CASE FindDown
  BY <1>1 DEF FindDown, Candidates, ReadsAsDown, Disturb,
     ScheduleDiscoveryRetry
<1>2. CASE FindUp
  BY <1>2 DEF FindUp, Candidates
<1>3. CASE ConnectAtOnce
  BY <1>3 DEF ConnectAtOnce, EnterConnected
<1>4. CASE ConnectInProgress
  BY <1>4 DEF ConnectInProgress
<1>5. CASE Terminate
  BY <1>5 DEF Terminate
<1>6. CASE SignalUsr2
  BY <1>6 DEF SignalUsr2, AttemptDiscovery
<1>7. CASE SocketConnected
  BY <1>7 DEF SocketConnected, EnterConnected
<1>8. CASE BusReportsDown
  BY <1>8 DEF BusReportsDown, Heard, ScheduleReconnect
<1>9. CASE WakeUp
  BY <1>9 DEF WakeUp, Parked
<1>10. CASE RequestAnswered
  BY <1>10 DEF RequestAnswered, Up, Emit, ScheduleDiscoveryRetry
<1>11. CASE FindNothing \/ FindUnpaired \/ ConnectFails \/ SyncDropsLink \/
        SocketLost \/ RequestDropsLink \/ TickTimeout
  BY <1>11 DEF FindNothing, Candidates, Disturb, ScheduleReconnect,
     FindUnpaired, ConnectFails, SyncDropsLink, DropLink, SocketLost,
     SocketBroken, RequestDropsLink, TickTimeout, Parked
<1>12. CASE Start \/ SignalUsr1 \/ BusReportsUp \/ IpcReconnect \/ TickRetry
  BY <1>12 DEF Start, AttemptDiscovery, SignalUsr1, Restart, BusReportsUp,
     Heard, IpcReconnect, TickRetry, Parked
<1>13. CASE Poll \/ SocketQuiet \/ BusIgnores \/ BusFails
  BY <1>13 DEF Poll, PollResults, SocketQuiet, SocketBroken, BusIgnores,
     Heard, BusFails
<1>14. CASE NoSignal \/ SyncDone \/ BusDrained \/ IpcDone \/ TickQuiet \/
        RefreshDone
  BY <1>14 DEF NoSignal, SyncDone, BusDrained, IpcDone, TickQuiet, Parked,
     RefreshDone
<1>15. CASE BackoffElapses \/ ConnectElapses \/ NudgeElapses
  BY <1>15 DEF BackoffElapses, ConnectElapses, Disturb, NudgeElapses
<1>16. CASE SocketAccepted \/ SocketRefused \/ SocketDies
  BY <1>16 DEF SocketAccepted, SocketRefused, SocketDies, Disturb
<1>17. ASSUME NEW d \in Devices, LinkUp(d) PROVE OpensOnLiveLink
  BY <1>17 DEF LinkUp, Up, Disturb, Emit
<1>18. ASSUME NEW d \in Devices, LinkDown(d) PROVE OpensOnLiveLink
  BY <1>18 DEF LinkDown, Up, Disturb, Broken, Emit
<1>19. ASSUME NEW d \in Devices,
              ServiceOpens(d) \/ ServiceCloses(d) \/ Pair(d) \/ Unpair(d)
       PROVE  OpensOnLiveLink
  BY <1>19 DEF ServiceOpens, ServiceCloses, Disturb, Broken, Pair, Unpair, Up
<1>20. CASE UNCHANGED vars
  BY <1>20 DEF vars
<1> QED
  BY <1>1, <1>2, <1>3, <1>4, <1>5, <1>6, <1>7, <1>8, <1>9, <1>10, <1>11,
     <1>12, <1>13, <1>14, <1>15, <1>16, <1>17, <1>18, <1>19, <1>20 DEF Next,
     Daemon, Clock, Environment

\* While the watcher lives, connect(2) is never called on a headset that is down,
\* unless the report of that is waiting to be read.
THEOREM NoBlindConnect == Spec => RfcommOnlyOnLiveLink
<1>1. Init => LiveInv
  BY DEF Init, LiveInv
<1>2. TypeOK /\ SafeInv /\ LiveInv /\ [Next]_vars => LiveInv'
  BY LiveStep DEF TypeOK, SafeInv
<1>3. SafeInv /\ LiveInv /\ [Next]_vars => [OpensOnLiveLink]_vars
  BY OpensLemma DEF SafeInv
<1> QED
  BY <1>1, <1>2, <1>3, SafeCorrect, PTL DEF Spec, RfcommOnlyOnLiveLink

LEMMA TargetStep ==
    ASSUME SafeInv, TargetInv, [Next]_vars
    PROVE  TargetInv'
<1> USE LinkAssumption DEF TargetInv, SafeInv, PhaseInv, ParkedOnlyInBackoff,
        Idle, managerVars, blockVars, watcherVars, envVars, boundVars
<1>1. CASE FindDown
  BY <1>1 DEF FindDown, Candidates, ReadsAsDown, Disturb,
     ScheduleDiscoveryRetry
<1>2. CASE FindUp
  BY <1>2 DEF FindUp, Candidates
<1>3. CASE ConnectAtOnce
  BY <1>3 DEF ConnectAtOnce, EnterConnected
<1>4. CASE ConnectInProgress
  BY <1>4 DEF ConnectInProgress
<1>5. CASE Terminate
  BY <1>5 DEF Terminate
<1>6. CASE SignalUsr2
  BY <1>6 DEF SignalUsr2, AttemptDiscovery
<1>7. CASE SocketConnected
  BY <1>7 DEF SocketConnected, EnterConnected
<1>8. CASE BusReportsDown
  BY <1>8 DEF BusReportsDown, Heard, ScheduleReconnect
<1>9. CASE WakeUp
  BY <1>9 DEF WakeUp, Parked
<1>10. CASE RequestAnswered
  BY <1>10 DEF RequestAnswered, Up, Emit, ScheduleDiscoveryRetry
<1>11. CASE FindNothing \/ FindUnpaired \/ ConnectFails \/ SyncDropsLink \/
        SocketLost \/ RequestDropsLink \/ TickTimeout
  BY <1>11 DEF FindNothing, Candidates, Disturb, ScheduleReconnect,
     FindUnpaired, ConnectFails, SyncDropsLink, DropLink, SocketLost,
     SocketBroken, RequestDropsLink, TickTimeout, Parked
<1>12. CASE Start \/ SignalUsr1 \/ BusReportsUp \/ IpcReconnect \/ TickRetry
  BY <1>12 DEF Start, AttemptDiscovery, SignalUsr1, Restart, BusReportsUp,
     Heard, IpcReconnect, TickRetry, Parked
<1>13. CASE Poll \/ SocketQuiet \/ BusIgnores \/ BusFails
  BY <1>13 DEF Poll, PollResults, SocketQuiet, SocketBroken, BusIgnores,
     Heard, BusFails
<1>14. CASE NoSignal \/ SyncDone \/ BusDrained \/ IpcDone \/ TickQuiet \/
        RefreshDone
  BY <1>14 DEF NoSignal, SyncDone, BusDrained, IpcDone, TickQuiet, Parked,
     RefreshDone
<1>15. CASE BackoffElapses \/ ConnectElapses \/ NudgeElapses
  BY <1>15 DEF BackoffElapses, ConnectElapses, Disturb, NudgeElapses
<1>16. CASE SocketAccepted \/ SocketRefused \/ SocketDies
  BY <1>16 DEF SocketAccepted, SocketRefused, SocketDies, Disturb
<1>17. ASSUME NEW d \in Devices, LinkUp(d) PROVE TargetInv'
  BY <1>17 DEF LinkUp, Up, Disturb, Emit
<1>18. ASSUME NEW d \in Devices, LinkDown(d) PROVE TargetInv'
  BY <1>18 DEF LinkDown, Up, Disturb, Broken, Emit
<1>19. ASSUME NEW d \in Devices,
              ServiceOpens(d) \/ ServiceCloses(d) \/ Pair(d) \/ Unpair(d)
       PROVE  TargetInv'
  BY <1>19 DEF ServiceOpens, ServiceCloses, Disturb, Broken, Pair, Unpair, Up
<1>20. CASE UNCHANGED vars
  BY <1>20 DEF vars
<1> QED
  BY <1>1, <1>2, <1>3, <1>4, <1>5, <1>6, <1>7, <1>8, <1>9, <1>10, <1>11,
     <1>12, <1>13, <1>14, <1>15, <1>16, <1>17, <1>18, <1>19, <1>20 DEF Next,
     Daemon, Clock, Environment

LEMMA OwnLemma ==
    ASSUME PhaseInv, TargetInv, [Next]_vars
    PROVE  DropIsOwn
<1> USE LinkAssumption DEF TargetInv, PhaseInv, Idle, DropIsOwn, managerVars,
        blockVars, watcherVars, envVars, boundVars
<1>1. CASE FindDown
  BY <1>1 DEF FindDown, Candidates, ReadsAsDown, Disturb,
     ScheduleDiscoveryRetry
<1>2. CASE FindUp
  BY <1>2 DEF FindUp, Candidates
<1>3. CASE ConnectAtOnce
  BY <1>3 DEF ConnectAtOnce, EnterConnected
<1>4. CASE ConnectInProgress
  BY <1>4 DEF ConnectInProgress
<1>5. CASE Terminate
  BY <1>5 DEF Terminate
<1>6. CASE SignalUsr2
  BY <1>6 DEF SignalUsr2, AttemptDiscovery
<1>7. CASE SocketConnected
  BY <1>7 DEF SocketConnected, EnterConnected
<1>8. CASE BusReportsDown
  BY <1>8 DEF BusReportsDown, Heard, ScheduleReconnect
<1>9. CASE WakeUp
  BY <1>9 DEF WakeUp, Parked
<1>10. CASE RequestAnswered
  BY <1>10 DEF RequestAnswered, Up, Emit, ScheduleDiscoveryRetry
<1>11. CASE FindNothing \/ FindUnpaired \/ ConnectFails \/ SyncDropsLink \/
        SocketLost \/ RequestDropsLink \/ TickTimeout
  BY <1>11 DEF FindNothing, Candidates, Disturb, ScheduleReconnect,
     FindUnpaired, ConnectFails, SyncDropsLink, DropLink, SocketLost,
     SocketBroken, RequestDropsLink, TickTimeout, Parked
<1>12. CASE Start \/ SignalUsr1 \/ BusReportsUp \/ IpcReconnect \/ TickRetry
  BY <1>12 DEF Start, AttemptDiscovery, SignalUsr1, Restart, BusReportsUp,
     Heard, IpcReconnect, TickRetry, Parked
<1>13. CASE Poll \/ SocketQuiet \/ BusIgnores \/ BusFails
  BY <1>13 DEF Poll, PollResults, SocketQuiet, SocketBroken, BusIgnores,
     Heard, BusFails
<1>14. CASE NoSignal \/ SyncDone \/ BusDrained \/ IpcDone \/ TickQuiet \/
        RefreshDone
  BY <1>14 DEF NoSignal, SyncDone, BusDrained, IpcDone, TickQuiet, Parked,
     RefreshDone
<1>15. CASE BackoffElapses \/ ConnectElapses \/ NudgeElapses
  BY <1>15 DEF BackoffElapses, ConnectElapses, Disturb, NudgeElapses
<1>16. CASE SocketAccepted \/ SocketRefused \/ SocketDies
  BY <1>16 DEF SocketAccepted, SocketRefused, SocketDies, Disturb
<1>17. ASSUME NEW d \in Devices, LinkUp(d) PROVE DropIsOwn
  BY <1>17 DEF LinkUp, Up, Disturb, Emit
<1>18. ASSUME NEW d \in Devices, LinkDown(d) PROVE DropIsOwn
  BY <1>18 DEF LinkDown, Up, Disturb, Broken, Emit
<1>19. ASSUME NEW d \in Devices,
              ServiceOpens(d) \/ ServiceCloses(d) \/ Pair(d) \/ Unpair(d)
       PROVE  DropIsOwn
  BY <1>19 DEF ServiceOpens, ServiceCloses, Disturb, Broken, Pair, Unpair, Up
<1>20. CASE UNCHANGED vars
  BY <1>20 DEF vars
<1> QED
  BY <1>1, <1>2, <1>3, <1>4, <1>5, <1>6, <1>7, <1>8, <1>9, <1>10, <1>11,
     <1>12, <1>13, <1>14, <1>15, <1>16, <1>17, <1>18, <1>19, <1>20 DEF Next,
     Daemon, Clock, Environment

\* An established link is never dropped for what BlueZ says of another headset.
THEOREM OthersDoNoHarm == Spec => OnlyOwnReportsDropLink
<1>1. Init => TargetInv
  BY DEF Init, TargetInv
<1>2. TypeOK /\ SafeInv /\ TargetInv /\ [Next]_vars => TargetInv'
  BY TargetStep
<1>3. SafeInv /\ TargetInv /\ [Next]_vars => [DropIsOwn]_vars
  BY OwnLemma DEF SafeInv
<1> QED
  BY <1>1, <1>2, <1>3, SafeCorrect, PTL DEF Spec, OnlyOwnReportsDropLink

LEMMA PacedLemma ==
    ASSUME DataOK, PhaseInv, [Next]_vars
    PROVE  PacedStep
<1> USE LinkAssumption DEF PacedStep, PhaseInv, Idle, managerVars, blockVars,
        watcherVars, envVars, boundVars
<1>1. CASE FindDown
  BY <1>1 DEF FindDown, Candidates, ReadsAsDown, Disturb,
     ScheduleDiscoveryRetry
<1>2. CASE FindUp
  BY <1>2 DEF FindUp, Candidates
<1>3. CASE ConnectAtOnce
  BY <1>3 DEF ConnectAtOnce, EnterConnected
<1>4. CASE ConnectInProgress
  BY <1>4 DEF ConnectInProgress
<1>5. CASE Terminate
  BY <1>5 DEF Terminate
<1>6. CASE SignalUsr2
  BY <1>6 DEF SignalUsr2, AttemptDiscovery
<1>7. CASE SocketConnected
  BY <1>7 DEF SocketConnected, EnterConnected
<1>8. CASE BusReportsDown
  BY <1>8 DEF BusReportsDown, Heard, ScheduleReconnect
<1>9. CASE WakeUp
  BY <1>9 DEF WakeUp, Parked
<1>10. CASE RequestAnswered
  BY <1>10 DEF RequestAnswered, Up, Emit, ScheduleDiscoveryRetry
<1>11. CASE FindNothing \/ FindUnpaired \/ ConnectFails \/ SyncDropsLink \/
        SocketLost \/ RequestDropsLink \/ TickTimeout
  BY <1>11 DEF FindNothing, Candidates, Disturb, ScheduleReconnect,
     FindUnpaired, ConnectFails, SyncDropsLink, DropLink, SocketLost,
     SocketBroken, RequestDropsLink, TickTimeout, Parked
<1>12. CASE Start \/ SignalUsr1 \/ BusReportsUp \/ IpcReconnect \/ TickRetry
  BY <1>12 DEF Start, AttemptDiscovery, SignalUsr1, Restart, BusReportsUp,
     Heard, IpcReconnect, TickRetry, Parked
<1>13. CASE Poll \/ SocketQuiet \/ BusIgnores \/ BusFails
  BY <1>13 DEF Poll, PollResults, SocketQuiet, SocketBroken, BusIgnores,
     Heard, BusFails
<1>14. CASE NoSignal \/ SyncDone \/ BusDrained \/ IpcDone \/ TickQuiet \/
        RefreshDone
  BY <1>14 DEF NoSignal, SyncDone, BusDrained, IpcDone, TickQuiet, Parked,
     RefreshDone
<1>15. CASE BackoffElapses \/ ConnectElapses \/ NudgeElapses
  BY <1>15 DEF BackoffElapses, ConnectElapses, Disturb, NudgeElapses
<1>16. CASE SocketAccepted \/ SocketRefused \/ SocketDies
  BY <1>16 DEF SocketAccepted, SocketRefused, SocketDies, Disturb
<1>17. ASSUME NEW d \in Devices, LinkUp(d) PROVE PacedStep
  BY <1>17 DEF LinkUp, Up, Disturb, Emit
<1>18. ASSUME NEW d \in Devices, LinkDown(d) PROVE PacedStep
  BY <1>18 DEF LinkDown, Up, Disturb, Broken, Emit
<1>19. ASSUME NEW d \in Devices,
              ServiceOpens(d) \/ ServiceCloses(d) \/ Pair(d) \/ Unpair(d)
       PROVE  PacedStep
  BY <1>19 DEF ServiceOpens, ServiceCloses, Disturb, Broken, Pair, Unpair, Up
<1>20. CASE UNCHANGED vars
  BY <1>20 DEF vars
<1> QED
  BY <1>1, <1>2, <1>3, <1>4, <1>5, <1>6, <1>7, <1>8, <1>9, <1>10, <1>11,
     <1>12, <1>13, <1>14, <1>15, <1>16, <1>17, <1>18, <1>19, <1>20 DEF Next,
     Daemon, Clock, Environment

\* A discovery out of back-off has the timer, a signal, a client or an "up"
\* report of the watched headset behind it.
THEOREM RetriesArePaced == Spec => RetryIsPaced
<1>1. TypeOK /\ SafeInv /\ [Next]_vars => [PacedStep]_vars
  BY PacedLemma DEF TypeOK, SafeInv
<1> QED
  BY <1>1, SafeCorrect, PTL DEF Spec, RetryIsPaced
=============================================================================
