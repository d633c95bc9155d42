----------------------------- MODULE StateFile -----------------------------
(***************************************************************************)
(* status.json: how StateEngine puts the status of the daemon on disk, one *)
(* action per system call of writeAtomic, initialize and cleanup.          *)
(*                                                                         *)
(* Every call may fail, the daemon may be killed between any two of them,  *)
(* and the machine may lose power, which keeps of the directory what was   *)
(* flushed and of a file that was not synced whatever it likes.  Nothing   *)
(* in the code keeps a second daemon from being started by hand beside the *)
(* one of the session, and a process number may come back, so any process  *)
(* may start at any time, over the leftovers of the ones before it.        *)
(*                                                                         *)
(* A status is its daemon and the number of the change it shows.           *)
(***************************************************************************)
EXTENDS Naturals, FiniteSets

CONSTANTS
    Pids,       \* processes that may run the daemon
    Absent,     \* no such file
    Part,       \* a file that holds a part of a status, or none
    MaxRuns,    \* bound on the daemons alive at one time
    MaxChanges, \* bound on the changes of the status, for each process
    MaxStops    \* bound on kills and power failures

Statuses == Pids \X Nat

ASSUME StateFileAssumption ==
    /\ Absent \notin Statuses /\ Part \notin Statuses /\ Absent # Part
    /\ MaxRuns \in Nat /\ MaxChanges \in Nat /\ MaxStops \in Nat

VARIABLES
    pc,         \* where a daemon is: the call it makes next
    starting,   \* it is in initialize
    mem,        \* the number of its last change, state_
    file,       \* status.json
    synced,     \* what it holds has reached the disk
    tmp,        \* status.json.tmp.<pid>
    tmpSynced,
    disk,       \* status.json after a power failure
    saved,      \* history: the last writeAtomic of the process succeeded
    alone,      \* history: it was the only daemon ever since it started
    cut,        \* history: it was stopped without cleaning up
    stops       \* bound

procVars == <<pc, starting, mem, saved, alone>>
tmpVars  == <<tmp, tmpSynced>>
vars == <<procVars, tmpVars, file, synced, disk, cut, stops>>

Texts   == Statuses \cup {Absent, Part}
Writing == {"open", "fchmod", "write", "fsync", "close", "rename"}
Leaving == {"removeFile", "removeTmp"}
Latest(p) == <<p, mem[p]>>
Alive == {p \in Pids : pc[p] # "dead"}

TypeOK ==
    /\ pc \in [Pids -> Writing \cup Leaving \cup {"dead", "run"}]
    /\ starting \in [Pids -> BOOLEAN]
    /\ mem \in [Pids -> Nat]
    /\ file \in Texts /\ synced \in BOOLEAN
    /\ tmp \in [Pids -> Texts] /\ tmpSynced \in [Pids -> BOOLEAN]
    /\ disk \in Texts
    /\ saved \in [Pids -> BOOLEAN] /\ alone \in [Pids -> BOOLEAN]
    /\ cut \in [Pids -> BOOLEAN]
    /\ stops \in 0..MaxStops

Init ==
    /\ pc = [p \in Pids |-> "dead"]
    /\ starting = [p \in Pids |-> FALSE]
    /\ mem = [p \in Pids |-> 0]
    /\ file = Absent /\ synced = TRUE
    /\ tmp = [p \in Pids |-> Absent]
    /\ tmpSynced = [p \in Pids |-> FALSE]
    /\ disk = Absent
    /\ saved = [p \in Pids |-> FALSE]
    /\ alone = [p \in Pids |-> FALSE]
    /\ cut = [p \in Pids |-> FALSE]
    /\ stops = 0

-----------------------------------------------------------------------------
(* The state in memory *)

\* touchAndPublishLocked: clients see the change before the file does
Publish(p) ==
    /\ mem[p] < MaxChanges
    /\ mem' = [mem EXCEPT ![p] = @ + 1]
    /\ pc' = [pc EXCEPT ![p] = "open"]

\* initialize, up to its writeAtomic
Start(p) ==
    /\ pc[p] = "dead" /\ Cardinality(Alive) < MaxRuns
    /\ Publish(p)
    /\ starting' = [starting EXCEPT ![p] = TRUE]
    /\ alone' = [q \in Pids |-> q = p /\ Alive = {}]
    /\ UNCHANGED <<tmpVars, file, synced, disk, saved, cut, stops>>

\* a setter, or commit
Set(p) ==
    /\ pc[p] = "run"
    /\ Publish(p)
    /\ UNCHANGED <<starting, tmpVars, file, synced, disk, saved, alone, cut,
                   stops>>

-----------------------------------------------------------------------------
(* writeAtomic *)

\* writeAtomic returns; only initialize looks at what it returns
Return(p, ok) ==
    /\ pc' = [pc EXCEPT ![p] =
                IF starting[p] /\ ~ok THEN "removeFile" ELSE "run"]
    /\ starting' = [starting EXCEPT ![p] = FALSE]
    /\ saved' = [saved EXCEPT ![p] = ok]
    /\ UNCHANGED <<mem, alone>>

Goto(p, next) ==
    /\ pc' = [pc EXCEPT ![p] = next]
    /\ UNCHANGED <<starting, mem, saved, alone>>

\* mutant: a failing save leaves its temporary file
GiveUpLeavesTemp(p) == UNCHANGED tmpVars /\ Return(p, FALSE)

\* the file is removed again before writeAtomic fails
GiveUp(p) ==
    /\ tmp' = [tmp EXCEPT ![p] = Absent]
    /\ UNCHANGED tmpSynced
    /\ Return(p, FALSE)

\* ensureStateDirectory and open; O_TRUNC empties what an earlier process
\* of the same number left
Open(p) ==
    /\ pc[p] = "open"
    /\ \/ /\ tmp' = [tmp EXCEPT ![p] = Part]
          /\ tmpSynced' = [tmpSynced EXCEPT ![p] = FALSE]
          /\ Goto(p, "fchmod")
       \/ UNCHANGED tmpVars /\ Return(p, FALSE)
    /\ UNCHANGED <<file, synced, disk, cut, stops>>

Fchmod(p) ==
    /\ pc[p] = "fchmod"
    /\ \/ UNCHANGED tmpVars /\ Goto(p, "write")
       \/ GiveUp(p)
    /\ UNCHANGED <<file, synced, disk, cut, stops>>

\* mutant: a status taken before the change
WriteOld(p) ==
    /\ pc[p] = "write"
    /\ \/ /\ tmp' = [tmp EXCEPT ![p] = <<p, mem[p] - 1>>]
          /\ UNCHANGED tmpSynced
          /\ Goto(p, "fsync")
       \/ GiveUp(p)
    /\ UNCHANGED <<file, synced, disk, cut, stops>>

\* all of the loop: until the last of it, the file holds a part
Write(p) ==
    /\ pc[p] = "write"
    /\ \/ /\ tmp' = [tmp EXCEPT ![p] = Latest(p)]
          /\ UNCHANGED tmpSynced
          /\ Goto(p, "fsync")
       \/ GiveUp(p)
    /\ UNCHANGED <<file, synced, disk, cut, stops>>

\* mutant: no fsync
FsyncSkipped(p) ==
    /\ pc[p] = "fsync"
    /\ UNCHANGED tmpVars /\ Goto(p, "close")
    /\ UNCHANGED <<file, synced, disk, cut, stops>>

Fsync(p) ==
    /\ pc[p] = "fsync"
    /\ \/ /\ tmpSynced' = [tmpSynced EXCEPT ![p] = TRUE]
          /\ UNCHANGED tmp
          /\ Goto(p, "close")
       \/ GiveUp(p)
    /\ UNCHANGED <<file, synced, disk, cut, stops>>

Close(p) ==
    /\ pc[p] = "close"
    /\ \/ UNCHANGED tmpVars /\ Goto(p, "rename")
       \/ GiveUp(p)
    /\ UNCHANGED <<file, synced, disk, cut, stops>>

\* mutant: a file that is there is not replaced, as with link
RenameNew(p) ==
    /\ pc[p] = "rename"
    /\ file' = IF file = Absent THEN tmp[p] ELSE file
    /\ tmp' = [tmp EXCEPT ![p] = Absent]
    /\ Return(p, TRUE)
    /\ UNCHANGED <<synced, tmpSynced, disk, cut, stops>>

Rename(p) ==
    /\ pc[p] = "rename"
    /\ \/ /\ file' = tmp[p] /\ synced' = tmpSynced[p]
          /\ tmp' = [tmp EXCEPT ![p] = Absent]
          /\ UNCHANGED tmpSynced
          /\ Return(p, TRUE)
       \/ GiveUp(p) /\ UNCHANGED <<file, synced>>
    /\ UNCHANGED <<disk, cut, stops>>

-----------------------------------------------------------------------------
(* cleanup, and other ends *)

\* SIGTERM, or the IPC server does not start
Quit(p) ==
    /\ pc[p] = "run"
    /\ Goto(p, "removeFile")
    /\ UNCHANGED <<tmpVars, file, synced, disk, cut, stops>>

\* whoever wrote it
RemoveFile(p) ==
    /\ pc[p] = "removeFile"
    /\ file' = Absent /\ synced' = TRUE
    /\ Goto(p, "removeTmp")
    /\ UNCHANGED <<tmpVars, disk, cut, stops>>

RemoveTmp(p) ==
    /\ pc[p] = "removeTmp"
    /\ tmp' = [tmp EXCEPT ![p] = Absent]
    /\ Goto(p, "dead")
    /\ UNCHANGED <<tmpSynced, file, synced, disk, cut, stops>>

\* the kernel writes the directory back
Flush ==
    /\ disk' = IF synced THEN file ELSE Part
    /\ UNCHANGED <<procVars, tmpVars, file, synced, cut, stops>>

Kill(p) ==
    /\ pc[p] # "dead" /\ stops < MaxStops
    /\ pc' = [pc EXCEPT ![p] = "dead"]
    /\ cut' = [cut EXCEPT ![p] = TRUE]
    /\ stops' = stops + 1
    /\ UNCHANGED <<starting, mem, saved, alone, tmpVars, file, synced, disk>>

\* temporary files survive whole, in part, or not at all
PowerFails(torn, lost) ==
    /\ stops < MaxStops
    /\ pc' = [p \in Pids |-> "dead"]
    /\ cut' = [p \in Pids |-> cut[p] \/ pc[p] # "dead"]
    /\ file' = disk /\ synced' = TRUE
    /\ tmp' = [p \in Pids |-> IF p \in lost \/ tmp[p] = Absent THEN Absent
                              ELSE IF p \in torn THEN Part ELSE tmp[p]]
    /\ stops' = stops + 1
    /\ UNCHANGED <<starting, mem, saved, alone, tmpSynced, disk>>

Call(p) ==
    \/ Open(p) \/ Fchmod(p) \/ Write(p) \/ Fsync(p) \/ Close(p) \/ Rename(p)
    \/ RemoveFile(p) \/ RemoveTmp(p)

Next ==
    \/ \E p \in Pids : Start(p) \/ Set(p) \/ Call(p) \/ Quit(p) \/ Kill(p)
    \/ Flush
    \/ \E torn, lost \in SUBSET Pids : PowerFails(torn, lost)

Spec == Init /\ [][Next]_vars

-----------------------------------------------------------------------------
(* Properties *)

(* Whoever opens status.json, while daemons run, after they crashed and    *)
(* after a power failure, finds one whole status or no file: never a part  *)
(* of one (writeAtomic syncs the temporary file before it renames it).     *)
OnlyWholeStatuses == file # Part /\ disk # Part

(* A daemon that is at rest, whose last save did not fail and that had no  *)
(* other daemon beside it, has its memory in the file.  The setters ignore *)
(* the failure of a save, so after one the file may be behind until the    *)
(* next; a second daemon may overwrite the file, and removes it when it    *)
(* ends or does not come up.                                               *)
FileIsCurrent ==
    \A p \in Pids : pc[p] = "run" /\ saved[p] /\ alone[p] => file = Latest(p)

(* A save that fails at any call, and a daemon that ends by itself, leave  *)
(* no temporary file: one that is there is being written, or its process   *)
(* was killed.                                                             *)
NoStrayTemp ==
    \A p \in Pids : tmp[p] # Absent => pc[p] \in Writing \ {"open"} \/ cut[p]

Register == INSTANCE StatusRegister WITH
    running <- Alive,
    latest  <- [p \in Pids |-> Latest(p)],
    shown   <- file,
    durable <- disk

(* The system calls together are one atomic write: to a reader, status.json*)
(* is a register that a running daemon sets to the status it has in memory *)
(* at that moment, removes, and that a power failure turns back as a whole.*)
ImplementsRegister == Register!RegSpec
=============================================================================
