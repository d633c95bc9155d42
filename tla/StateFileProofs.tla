-------------------------- MODULE StateFileProofs --------------------------
(* What StateFile promises, for every set of processes and every bound.    *)
EXTENDS StateFile, TLAPS

\* from the write on, the temporary file holds the status in memory
TmpIsLatest ==
    \A p \in Pids :
        /\ pc[p] \in {"fsync", "close", "rename"} => tmp[p] = Latest(p)
        /\ pc[p] \in {"close", "rename"} => tmpSynced[p]

\* who is alone has nobody beside it
AloneIsAlone ==
    \A p, q \in Pids :
        alone[p] /\ pc[p] # "dead" /\ q # p => pc[q] = "dead"

IInv ==
    /\ TypeOK
    /\ synced /\ OnlyWholeStatuses
    /\ TmpIsLatest
    /\ NoStrayTemp
    /\ AloneIsAlone
    /\ FileIsCurrent

LEMMA LatestIsWhole ==
    ASSUME NEW p \in Pids, mem \in [Pids -> Nat]
    PROVE  Latest(p) \in Statuses /\ Latest(p) # Absent /\ Latest(p) # Part
BY StateFileAssumption DEF Latest, Statuses

LEMMA InitIInv == Init => IInv
BY StateFileAssumption
   DEF Init, IInv, TypeOK, OnlyWholeStatuses, TmpIsLatest, NoStrayTemp,
       AloneIsAlone, FileIsCurrent, Texts, Writing, Leaving

LEMMA StartIInv ==
    ASSUME IInv, NEW p \in Pids, Start(p) PROVE IInv'
<1> USE DEF Start, Publish, tmpVars
<1>1. TypeOK'
  BY DEF IInv, TypeOK, Writing, Leaving
<1>2. (synced /\ OnlyWholeStatuses)'
  BY DEF IInv, OnlyWholeStatuses
<1>3. TmpIsLatest'
  BY DEF IInv, TypeOK, TmpIsLatest, Latest
<1>4. NoStrayTemp'
  BY DEF IInv, TypeOK, NoStrayTemp, Writing
<1>5. AloneIsAlone'
  BY DEF IInv, TypeOK, AloneIsAlone, Alive
<1>6. FileIsCurrent'
  BY DEF IInv, TypeOK, FileIsCurrent, Latest, Alive
<1> QED BY <1>1, <1>2, <1>3, <1>4, <1>5, <1>6 DEF IInv

LEMMA SetIInv ==
    ASSUME IInv, NEW p \in Pids, Set(p) PROVE IInv'
<1> USE DEF Set, Publish, tmpVars
<1>1. TypeOK'
  BY DEF IInv, TypeOK, Writing, Leaving
<1>2. (synced /\ OnlyWholeStatuses)'
  BY DEF IInv, OnlyWholeStatuses
<1>3. TmpIsLatest'
  BY DEF IInv, TypeOK, TmpIsLatest, Latest
<1>4. NoStrayTemp'
  BY DEF IInv, TypeOK, NoStrayTemp, Writing
<1>5. AloneIsAlone'
  BY DEF IInv, TypeOK, AloneIsAlone
<1>6. FileIsCurrent'
  BY DEF IInv, TypeOK, FileIsCurrent, Latest
<1> QED BY <1>1, <1>2, <1>3, <1>4, <1>5, <1>6 DEF IInv

LEMMA CallIInv ==
    ASSUME IInv, NEW p \in Pids, Call(p) PROVE IInv'
<1> USE DEF tmpVars, Goto, Return, GiveUp
<1> p \in Pids /\ Latest(p) \in Statuses /\ Latest(p) # Part
  BY LatestIsWhole DEF IInv, TypeOK
<1>a. Absent \in Texts /\ Part \in Texts /\ Statuses \subseteq Texts
      /\ Absent # Part
  BY StateFileAssumption DEF Texts
<1>b. mem' = mem /\ cut' = cut /\ disk' = disk /\ stops' = stops
      /\ alone' = alone
  BY DEF Call, Open, Fchmod, Write, Fsync, Close, Rename, RemoveFile,
         RemoveTmp
<1>c. /\ pc[p] # "dead"
      /\ \A q \in Pids : q # p => pc'[q] = pc[q] /\ tmp'[q] = tmp[q]
                                  /\ tmpSynced'[q] = tmpSynced[q]
                                  /\ saved'[q] = saved[q]
  BY DEF IInv, TypeOK, Call, Open, Fchmod, Write, Fsync, Close, Rename,
         RemoveFile, RemoveTmp
<1>1. TypeOK'
  <2>1. pc' \in [Pids -> Writing \cup Leaving \cup {"dead", "run"}]
    BY DEF IInv, TypeOK, Call, Open, Fchmod, Write, Fsync, Close, Rename,
           RemoveFile, RemoveTmp, Writing, Leaving
  <2>2. /\ starting' \in [Pids -> BOOLEAN] /\ saved' \in [Pids -> BOOLEAN]
        /\ tmpSynced' \in [Pids -> BOOLEAN] /\ synced' \in BOOLEAN
    BY DEF IInv, TypeOK, Call, Open, Fchmod, Write, Fsync, Close, Rename,
           RemoveFile, RemoveTmp
  <2>3. tmp' \in [Pids -> Texts] /\ file' \in Texts
    <3> tmp \in [Pids -> Texts] /\ file \in Texts
      BY DEF IInv, TypeOK
    <3>1. CASE Open(p)
      BY <3>1, <1>a DEF Open
    <3>2. CASE Fchmod(p)
      BY <3>2, <1>a DEF Fchmod
    <3>3. CASE Write(p)
      BY <3>3, <1>a DEF Write
    <3>4. CASE Fsync(p)
      BY <3>4, <1>a DEF Fsync
    <3>5. CASE Close(p)
      BY <3>5, <1>a DEF Close
    <3>6. CASE Rename(p)
      BY <3>6, <1>a DEF Rename
    <3>7. CASE RemoveFile(p)
      BY <3>7, <1>a DEF RemoveFile
    <3>8. CASE RemoveTmp(p)
      BY <3>8, <1>a DEF RemoveTmp
    <3> QED BY <3>1, <3>2, <3>3, <3>4, <3>5, <3>6, <3>7, <3>8 DEF Call
  <2> QED BY <1>b, <2>1, <2>2, <2>3 DEF IInv, TypeOK
<1>2. (synced /\ OnlyWholeStatuses)'
  <2>1. CASE Open(p)
    BY <2>1, <1>a, <1>b DEF Open, IInv, OnlyWholeStatuses, TmpIsLatest
  <2>2. CASE Fchmod(p)
    BY <2>2, <1>a, <1>b DEF Fchmod, IInv, OnlyWholeStatuses, TmpIsLatest
  <2>3. CASE Write(p)
    BY <2>3, <1>a, <1>b DEF Write, IInv, OnlyWholeStatuses, TmpIsLatest
  <2>4. CASE Fsync(p)
    BY <2>4, <1>a, <1>b DEF Fsync, IInv, OnlyWholeStatuses, TmpIsLatest
  <2>5. CASE Close(p)
    BY <2>5, <1>a, <1>b DEF Close, IInv, OnlyWholeStatuses, TmpIsLatest
  <2>6. CASE Rename(p)
    BY <2>6, <1>a, <1>b DEF Rename, IInv, OnlyWholeStatuses, TmpIsLatest
  <2>7. CASE RemoveFile(p)
    BY <2>7, <1>a, <1>b DEF RemoveFile, IInv, OnlyWholeStatuses, TmpIsLatest
  <2>8. CASE RemoveTmp(p)
    BY <2>8, <1>a, <1>b DEF RemoveTmp, IInv, OnlyWholeStatuses, TmpIsLatest
  <2> QED BY <2>1, <2>2, <2>3, <2>4, <2>5, <2>6, <2>7, <2>8 DEF Call
<1>3. TmpIsLatest'
  <2> SUFFICES ASSUME NEW q \in Pids
               PROVE  (/\ pc[q] \in {"fsync", "close", "rename"}
                              => tmp[q] = Latest(q)
                       /\ pc[q] \in {"close", "rename"} => tmpSynced[q])'
    BY DEF TmpIsLatest
  <2>1. CASE q # p
    BY <2>1, <1>b, <1>c DEF IInv, TmpIsLatest, Latest
  <2>2. CASE q = p
    <3>1. CASE Open(p)
      BY <3>1, <2>2, <1>b DEF Open, IInv, TypeOK, TmpIsLatest, Latest
    <3>2. CASE Fchmod(p)
      BY <3>2, <2>2, <1>b DEF Fchmod, IInv, TypeOK, TmpIsLatest, Latest
    <3>3. CASE Write(p)
      BY <3>3, <2>2, <1>b DEF Write, IInv, TypeOK, TmpIsLatest, Latest
    <3>4. CASE Fsync(p)
      BY <3>4, <2>2, <1>b DEF Fsync, IInv, TypeOK, TmpIsLatest, Latest
    <3>5. CASE Close(p)
      BY <3>5, <2>2, <1>b DEF Close, IInv, TypeOK, TmpIsLatest, Latest
    <3>6. CASE Rename(p)
      BY <3>6, <2>2, <1>b DEF Rename, IInv, TypeOK, TmpIsLatest, Latest
    <3>7. CASE RemoveFile(p)
      BY <3>7, <2>2, <1>b DEF RemoveFile, IInv, TypeOK, TmpIsLatest, Latest
    <3>8. CASE RemoveTmp(p)
      BY <3>8, <2>2, <1>b DEF RemoveTmp, IInv, TypeOK, TmpIsLatest, Latest
    <3> QED BY <3>1, <3>2, <3>3, <3>4, <3>5, <3>6, <3>7, <3>8 DEF Call
  <2> QED BY <2>1, <2>2
<1>4. NoStrayTemp'
  <2> SUFFICES ASSUME NEW q \in Pids
               PROVE  (tmp[q] # Absent
                            => pc[q] \in Writing \ {"open"} \/ cut[q])'
    BY DEF NoStrayTemp
  <2>1. CASE q # p
    BY <2>1, <1>b, <1>c DEF IInv, NoStrayTemp
  <2>2. CASE q = p
    <3>1. CASE Open(p)
      BY <3>1, <2>2, <1>b DEF Open, IInv, TypeOK, NoStrayTemp, Writing
    <3>2. CASE Fchmod(p)
      BY <3>2, <2>2, <1>b DEF Fchmod, IInv, TypeOK, NoStrayTemp, Writing
    <3>3. CASE Write(p)
      BY <3>3, <2>2, <1>b DEF Write, IInv, TypeOK, NoStrayTemp, Writing
    <3>4. CASE Fsync(p)
      BY <3>4, <2>2, <1>b DEF Fsync, IInv, TypeOK, NoStrayTemp, Writing
    <3>5. CASE Close(p)
      BY <3>5, <2>2, <1>b DEF Close, IInv, TypeOK, NoStrayTemp, Writing
    <3>6. CASE Rename(p)
      BY <3>6, <2>2, <1>b DEF Rename, IInv, TypeOK, NoStrayTemp, Writing
    <3>7. CASE RemoveFile(p)
      BY <3>7, <2>2, <1>b DEF RemoveFile, IInv, TypeOK, NoStrayTemp, Writing
    <3>8. CASE RemoveTmp(p)
      BY <3>8, <2>2, <1>b DEF RemoveTmp, IInv, TypeOK, NoStrayTemp, Writing
    <3> QED BY <3>1, <3>2, <3>3, <3>4, <3>5, <3>6, <3>7, <3>8 DEF Call
  <2> QED BY <2>1, <2>2
<1>5. AloneIsAlone'
  BY <1>b, <1>c DEF IInv, AloneIsAlone
<1>6. FileIsCurrent'
  <2> SUFFICES ASSUME NEW q \in Pids,
                      (pc[q] = "run" /\ saved[q] /\ alone[q])'
               PROVE  (file = Latest(q))'
    BY DEF FileIsCurrent
  <2>1. CASE q # p
    BY <2>1, <1>b, <1>c DEF IInv, AloneIsAlone
  <2>2. CASE q = p
    <3>1. CASE Open(p)
      BY <3>1, <2>2, <1>b DEF Open, IInv, TypeOK, TmpIsLatest, Latest
    <3>2. CASE Fchmod(p)
      BY <3>2, <2>2, <1>b DEF Fchmod, IInv, TypeOK, TmpIsLatest, Latest
    <3>3. CASE Write(p)
      BY <3>3, <2>2, <1>b DEF Write, IInv, TypeOK, TmpIsLatest, Latest
    <3>4. CASE Fsync(p)
      BY <3>4, <2>2, <1>b DEF Fsync, IInv, TypeOK, TmpIsLatest, Latest
    <3>5. CASE Close(p)
      BY <3>5, <2>2, <1>b DEF Close, IInv, TypeOK, TmpIsLatest, Latest
    <3>6. CASE Rename(p)
      BY <3>6, <2>2, <1>b DEF Rename, IInv, TypeOK, TmpIsLatest, Latest
    <3>7. CASE RemoveFile(p)
      BY <3>7, <2>2, <1>b DEF RemoveFile, IInv, TypeOK, TmpIsLatest, Latest
    <3>8. CASE RemoveTmp(p)
      BY <3>8, <2>2, <1>b DEF RemoveTmp, IInv, TypeOK, TmpIsLatest, Latest
    <3> QED BY <3>1, <3>2, <3>3, <3>4, <3>5, <3>6, <3>7, <3>8 DEF Call
  <2> QED BY <2>1, <2>2
<1> QED BY <1>1, <1>2, <1>3, <1>4, <1>5, <1>6 DEF IInv

LEMMA StopIInv ==
    ASSUME IInv, NEW p \in Pids, Quit(p) \/ Kill(p) PROVE IInv'
<1> USE DEF Quit, Kill, Goto, tmpVars
<1>1. TypeOK'
  <2>1. stops \in 0..MaxStops /\ MaxStops \in Nat
    BY StateFileAssumption DEF IInv, TypeOK
  <2>2. stops' = stops \/ (stops < MaxStops /\ stops' = stops + 1)
    OBVIOUS
  <2>3. stops' \in 0..MaxStops
    BY <2>1, <2>2
  <2> QED BY <2>3 DEF IInv, TypeOK, Writing, Leaving
<1>2. (synced /\ OnlyWholeStatuses)'
  BY DEF IInv, OnlyWholeStatuses
<1>3. TmpIsLatest'
  BY DEF IInv, TypeOK, TmpIsLatest, Latest
<1>4. NoStrayTemp'
  BY DEF IInv, TypeOK, NoStrayTemp, Writing
<1>5. AloneIsAlone'
  <2>1. alone' = alone /\ \A q \in Pids : pc'[q] # "dead" => pc[q] # "dead"
    BY DEF IInv, TypeOK
  <2>2. \A q \in Pids : pc[q] = "dead" => pc'[q] = "dead"
    <3>1. CASE Quit(p)
      BY <3>1 DEF IInv, TypeOK
    <3>2. CASE Kill(p)
      BY <3>2 DEF IInv, TypeOK
    <3> QED BY <3>1, <3>2
  <2> QED BY <2>1, <2>2 DEF IInv, AloneIsAlone
<1>6. FileIsCurrent'
  BY DEF IInv, TypeOK, FileIsCurrent, Latest
<1> QED BY <1>1, <1>2, <1>3, <1>4, <1>5, <1>6 DEF IInv

LEMMA MachineIInv ==
    ASSUME IInv,
           Flush \/ \E torn, lost \in SUBSET Pids : PowerFails(torn, lost)
    PROVE  IInv'
<1>1. CASE Flush
  <2> USE <1>1 DEF Flush, procVars, tmpVars
  <2>1. TypeOK'
    BY DEF IInv, TypeOK
  <2>2. (synced /\ OnlyWholeStatuses)'
    BY DEF IInv, OnlyWholeStatuses
  <2>3. (TmpIsLatest /\ NoStrayTemp /\ AloneIsAlone /\ FileIsCurrent)'
    BY DEF IInv, TmpIsLatest, NoStrayTemp, AloneIsAlone, FileIsCurrent,
           Latest
  <2> QED BY <2>1, <2>2, <2>3 DEF IInv
<1>2. ASSUME NEW torn \in SUBSET Pids, NEW lost \in SUBSET Pids,
             PowerFails(torn, lost)
      PROVE  IInv'
  <2> USE <1>2 DEF PowerFails
  <2>1. TypeOK'
    BY StateFileAssumption DEF IInv, TypeOK, Texts
  <2>2. (synced /\ OnlyWholeStatuses)'
    BY DEF IInv, OnlyWholeStatuses
  <2>3. (TmpIsLatest /\ AloneIsAlone /\ FileIsCurrent)'
    BY DEF TmpIsLatest, AloneIsAlone, FileIsCurrent
  <2>4. NoStrayTemp'
    BY DEF IInv, TypeOK, NoStrayTemp, Writing
  <2> QED BY <2>1, <2>2, <2>3, <2>4 DEF IInv
<1> QED BY <1>1, <1>2

LEMMA NextIInv == IInv /\ [Next]_vars => IInv'
<1> SUFFICES ASSUME IInv, [Next]_vars PROVE IInv'
  OBVIOUS
<1>1. ASSUME NEW p \in Pids,
             Start(p) \/ Set(p) \/ Call(p) \/ Quit(p) \/ Kill(p)
      PROVE  IInv'
  BY <1>1, StartIInv, SetIInv, CallIInv, StopIInv
<1>2. CASE UNCHANGED vars
  BY <1>2 DEF vars, procVars, tmpVars, IInv, TypeOK, OnlyWholeStatuses,
              TmpIsLatest, NoStrayTemp, AloneIsAlone, FileIsCurrent, Latest
<1> QED BY <1>1, <1>2, MachineIInv DEF Next

LEMMA Invariant == Spec => []IInv
BY InitIInv, NextIInv, PTL DEF Spec

(* For every number of daemons, calls that fail, kills and power failures, *)
(* the variables of the model keep their types.                            *)
THEOREM StateFileTypes == Spec => []TypeOK
<1>1. IInv => TypeOK
  BY DEF IInv
<1> QED BY <1>1, Invariant, PTL

(* A reader of status.json never finds a part of a status, also after a    *)
(* power failure, for every number of daemons and failures.                *)
THEOREM ReadersFindWholeStatuses == Spec => []OnlyWholeStatuses
<1>1. IInv => OnlyWholeStatuses
  BY DEF IInv
<1> QED BY <1>1, Invariant, PTL

(* A daemon that is alone, at rest, and whose last save succeeded has its  *)
(* memory in status.json.                                                  *)
THEOREM FileFollowsMemory == Spec => []FileIsCurrent
<1>1. IInv => FileIsCurrent
  BY DEF IInv
<1> QED BY <1>1, Invariant, PTL

(* Only a daemon that was killed leaves a temporary file behind.           *)
THEOREM TempsAreRemoved == Spec => []NoStrayTemp
<1>1. IInv => NoStrayTemp
  BY DEF IInv
<1> QED BY <1>1, Invariant, PTL

-----------------------------------------------------------------------------
(* The refinement of StatusRegister *)

LEMMA RegisterInit == Init => Register!RegInit
BY DEF Init, Register!RegInit, Alive, Latest, Statuses

LEMMA RegisterPublishes ==
    ASSUME IInv, NEW p \in Pids, Publish(p)
    PROVE  Register!Renewed(p)
<1> DEFINE l == [q \in Pids |-> Latest(q)]
<1>1. mem[p] + 1 \in Nat /\ mem' = [mem EXCEPT ![p] = mem[p] + 1]
  BY DEF Publish, IInv, TypeOK
<1>2. l' = [q \in Pids |-> <<q, mem'[q]>>]
  BY DEF Latest
<1>3. l'[p] = <<p, mem[p] + 1>> /\ l'[p] \in Statuses
  BY <1>1, <1>2 DEF IInv, TypeOK, Statuses
<1>4. l' = [l EXCEPT ![p] = l'[p]]
  BY <1>1, <1>2, <1>3 DEF IInv, TypeOK, Latest
<1> QED BY <1>3, <1>4 DEF Register!Renewed

LEMMA RegisterCalls ==
    ASSUME IInv, NEW p \in Pids, Call(p)
    PROVE  \/ UNCHANGED Register!regVars
           \/ Register!Show(p) \/ Register!Hide(p) \/ Register!End(p)
<1> USE DEF tmpVars, Goto, GiveUp, Return
<1> DEFINE l == [q \in Pids |-> Latest(q)]
<1>a. mem' = mem /\ l' = l
  BY DEF Call, Open, Fchmod, Write, Fsync, Close, Rename, RemoveFile,
         RemoveTmp, Latest
<1>b. p \in Alive /\ pc \in [Pids -> Writing \cup Leaving \cup {"dead", "run"}]
  BY DEF Call, Open, Fchmod, Write, Fsync, Close, Rename, RemoveFile,
         RemoveTmp, Alive, IInv, TypeOK
<1>1. CASE Open(p) \/ Fchmod(p) \/ Write(p) \/ Fsync(p) \/ Close(p)
  <2>1. Alive' = Alive
    BY <1>1, <1>b DEF Open, Fchmod, Write, Fsync, Close, Alive
  <2> QED
    BY <1>1, <1>a, <2>1
       DEF Open, Fchmod, Write, Fsync, Close, Register!regVars
<1>2. CASE Rename(p)
  <2>1. Alive' = Alive /\ disk' = disk
    BY <1>2, <1>b DEF Rename, Alive
  <2>2. file' = file \/ file' = l[p]
    BY <1>2 DEF Rename, IInv, TmpIsLatest
  <2> QED
    BY <1>a, <1>b, <2>1, <2>2 DEF Register!regVars, Register!Show
<1>3. CASE RemoveFile(p)
  <2>1. Alive' = Alive /\ disk' = disk /\ file' = Absent
    BY <1>3, <1>b DEF RemoveFile, Alive
  <2> QED BY <1>a, <1>b, <2>1 DEF Register!Hide
<1>4. CASE RemoveTmp(p)
  <2>1. Alive' = Alive \ {p} /\ disk' = disk /\ file' = file
    BY <1>4, <1>b DEF RemoveTmp, Alive
  <2> QED BY <1>a, <1>b, <2>1 DEF Register!End
<1> QED BY <1>1, <1>2, <1>3, <1>4 DEF Call

LEMMA RegisterNext ==
    ASSUME IInv, [Next]_vars
    PROVE  [Register!RegNext]_Register!regVars
<1> DEFINE l == [q \in Pids |-> Latest(q)]
<1>l. mem' = mem => l' = l
  BY DEF Latest
<1>t. pc \in [Pids -> Writing \cup Leaving \cup {"dead", "run"}]
  BY DEF IInv, TypeOK
<1>1. ASSUME NEW p \in Pids, Start(p)
      PROVE  Register!Begin(p)
  <2>1. p \notin Alive /\ Alive' = Alive \cup {p}
    BY <1>1, <1>t DEF Start, Publish, Alive
  <2>2. Register!Renewed(p)
    BY <1>1, RegisterPublishes DEF Start
  <2> QED BY <1>1, <2>1, <2>2 DEF Start, Register!Begin
<1>2. ASSUME NEW p \in Pids, Set(p)
      PROVE  Register!Change(p)
  <2>1. p \in Alive /\ Alive' = Alive
    BY <1>2, <1>t DEF Set, Publish, Alive
  <2>2. Register!Renewed(p)
    BY <1>2, RegisterPublishes DEF Set
  <2> QED BY <1>2, <2>1, <2>2 DEF Set, Register!Change
<1>3. ASSUME NEW p \in Pids, Quit(p)
      PROVE  UNCHANGED Register!regVars
  <2>1. Alive' = Alive
    BY <1>3, <1>t DEF Quit, Goto, Alive
  <2> QED BY <1>3, <1>l, <2>1 DEF Quit, Goto, Register!regVars
<1>4. ASSUME NEW p \in Pids, Kill(p)
      PROVE  Register!End(p)
  <2>1. p \in Alive /\ Alive' = Alive \ {p}
    BY <1>4, <1>t DEF Kill, Alive
  <2> QED BY <1>4, <1>l, <2>1 DEF Kill, Register!End
<1>5. CASE Flush
  <2>1. Alive' = Alive /\ mem' = mem
    BY <1>5 DEF Flush, procVars, Alive
  <2>2. disk' = file /\ file' = file
    BY <1>5 DEF Flush, IInv
  <2> QED BY <1>l, <2>1, <2>2 DEF Register!RegNext, Register!Settle
<1>6. ASSUME NEW torn \in SUBSET Pids, NEW lost \in SUBSET Pids,
             PowerFails(torn, lost)
      PROVE  Register!RegNext
  <2>1. Alive' = {} /\ mem' = mem /\ file' = disk /\ disk' = disk
    BY <1>6 DEF PowerFails, Alive
  <2> QED BY <1>l, <2>1 DEF Register!RegNext, Register!Blackout
<1>7. CASE UNCHANGED vars
  BY <1>7, <1>l DEF vars, procVars, Alive, Register!regVars
<1> QED
  BY <1>1, <1>2, <1>3, <1>4, <1>5, <1>6, <1>7, RegisterCalls
     DEF Next, Register!RegNext

(* The calls of writeAtomic, initialize and cleanup implement a register   *)
(* that changes in one step, whatever fails and whoever is killed.         *)
THEOREM StateFileIsAtomic == Spec => ImplementsRegister
<1>1. IInv /\ [Next]_vars => [Register!RegNext]_Register!regVars
  BY RegisterNext
<1> QED
  BY <1>1, RegisterInit, Invariant, PTL
     DEF Spec, ImplementsRegister, Register!RegSpec
=============================================================================
