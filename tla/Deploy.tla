------------------------------- MODULE Deploy -------------------------------
(***************************************************************************)
(* bose-700-deploy (installer/deploy.cpp): puts named files into one       *)
(* directory under the home directory, and removes named entries from it.  *)
(*                                                                         *)
(* Several calls may run side by side, be killed, or fail on a full disk,  *)
(* while the user changes the directory.  One action is one system call on *)
(* the directory, with the test that follows it.  The directory may itself *)
(* be removed and made again: a call keeps the descriptor of the one it    *)
(* opened.  Of a file the model keeps which text it holds, whether that is *)
(* all of it, and whether its mode is the one asked for.                   *)
(***************************************************************************)
EXTENDS Naturals, FiniteSets

CONSTANTS
    Procs,        \* process identifiers, used again and again
    Given,        \* the names a call is given
    Matching,     \* other names that the pattern given to remove matches
    Rest,         \* names no call is given
    Git,          \* ".git", one of them
    Texts,        \* what a file may hold
    MaxStarts, MaxMeddles, MaxFaults   \* bounds

Names == Given \cup Matching \cup Rest
Temps == {<<n, p>> : n \in Given, p \in Procs}   \* .name.deploy.pid
Slots == Names \cup Temps

Part == "part"

ASSUME DeployAssumption ==
    /\ Git \in Rest /\ Rest \cap (Given \cup Matching) = {}
    /\ Part \notin Texts
    /\ Names \cap Temps = {} /\ Texts # {}
    /\ MaxStarts \in Nat /\ MaxMeddles \in Nat /\ MaxFaults \in Nat

File(text, mode) == [kind |-> "file", text |-> text, mode |-> mode]
Absent    == [kind |-> "absent"]
Directory == [kind |-> "directory"]
Symlink   == [kind |-> "symlink"]
Files   == {File(t, m) : t \in Texts \cup {Part}, m \in {"private", "asked"}}
Entries == Files \cup {Absent, Directory, Symlink}

VARIABLES
    dir,       \* the directory: 0, or its number
    made,      \* how many were made
    entry,     \* what it holds
    pc, job, todo, code,
    fd,        \* the number of the directory a call has open
    source,    \* the text of each source file, open since the start
    inPlace,   \* the sources were the very files of the directory
    others,    \* names that somebody else changed since the start
    missed,    \* names the pattern matched and the listing did not report
    starts, meddles, faults

callVars  == <<pc, job, todo, code, fd, source, inPlace, missed>>
boundVars == <<starts, meddles, faults>>
vars == <<dir, made, entry, callVars, others, boundVars>>

Steps == {"idle", "walk", "compare", "git", "target", "create", "copy", "seal",
          "rename", "list", "stat", "unlink", "rmdir", "exited", "killed"}
Jobs  == {"put", "put unless git", "remove", "remove and rmdir"}

TypeOK ==
    /\ dir \in Nat /\ made \in Nat
    /\ entry \in [Slots -> Entries]
    /\ pc \in [Procs -> Steps] /\ job \in [Procs -> Jobs]
    /\ todo \in [Procs -> SUBSET (Given \cup Matching)]
    /\ code \in [Procs -> {0, 1, 3}]
    /\ fd \in [Procs -> Nat]
    /\ source \in [Procs -> [Given -> Texts]]
    /\ inPlace \in [Procs -> BOOLEAN]
    /\ others \in [Procs -> SUBSET Slots]
    /\ missed \in [Procs -> SUBSET Matching]
    /\ starts \in 0..MaxStarts /\ meddles \in 0..MaxMeddles
    /\ faults \in 0..MaxFaults

Init ==
    /\ dir \in {0, 1} /\ made = dir
    /\ entry \in [Slots -> {Absent, Directory}]
    /\ \A s \in Slots : entry[s] = Directory => dir = 1 /\ s = Git
    /\ pc = [p \in Procs |-> "idle"] /\ job = [p \in Procs |-> "put"]
    /\ todo = [p \in Procs |-> {}] /\ code = [p \in Procs |-> 0]
    /\ fd = [p \in Procs |-> 0]
    /\ \E t \in Texts : source = [p \in Procs |-> [n \in Given |-> t]]
    /\ inPlace = [p \in Procs |-> FALSE]
    /\ others = [p \in Procs |-> {}] /\ missed = [p \in Procs |-> {}]
    /\ starts = 0 /\ meddles = 0 /\ faults = 0

-----------------------------------------------------------------------------
(* The directory *)

Reaches(p) == fd[p] = dir     \* the directory it has open is still there
At(p, s) == IF Reaches(p) THEN entry[s] ELSE Absent

\* the caller p puts e at s
Becomes(p, s, e) ==
    /\ entry' = [entry EXCEPT ![s] = e]
    /\ others' = [q \in Procs |-> IF q = p THEN others[q]
                                           ELSE others[q] \cup {s}]

Goto(p, step) == pc' = [pc EXCEPT ![p] = step]
Stays == UNCHANGED <<dir, made, entry, others>>

Exit(p, n) ==
    /\ Goto(p, "exited")
    /\ code' = [code EXCEPT ![p] = n]
    /\ UNCHANGED <<job, todo, fd, source, inPlace, missed>>

\* the next one, in the order of the arguments and of the listing
Name(p) == CHOOSE n \in todo[p] : TRUE
Temp(p) == <<Name(p), p>>

Continue(p, step) ==
    /\ Goto(p, step)
    /\ UNCHANGED <<job, todo, code, fd, source, inPlace, missed>>

Skip(p, step) ==
    /\ Goto(p, step)
    /\ todo' = [todo EXCEPT ![p] = @ \ {Name(p)}]
    /\ UNCHANGED <<job, code, fd, source, inPlace, missed>>

Fault == faults < MaxFaults /\ faults' = faults + 1
NoFault == UNCHANGED faults
Running == UNCHANGED <<starts, meddles>>

-----------------------------------------------------------------------------
(* A call *)

Start(p, j, t, here) ==
    /\ pc[p] \in {"idle", "exited", "killed"}
    /\ starts < MaxStarts /\ starts' = starts + 1
    /\ here => \A n \in Given : entry[n].kind = "file"
    /\ Goto(p, "walk")
    /\ job' = [job EXCEPT ![p] = j]
    /\ todo' = [todo EXCEPT ![p] = Given]
    /\ source' = [source EXCEPT ![p] =
                     [n \in Given |-> IF here THEN entry[n].text ELSE t]]
    /\ inPlace' = [inPlace EXCEPT ![p] = here]
    /\ others' = [others EXCEPT ![p] = {}]
    /\ missed' = [missed EXCEPT ![p] = {}]
    /\ UNCHANGED <<dir, made, entry, code, fd, meddles, faults>>

\* walkFromHome
Walk(p) ==
    /\ pc[p] = "walk" /\ Running
    /\ \/ dir # 0 /\ NoFault /\ Stays
          /\ fd' = [fd EXCEPT ![p] = dir]
          /\ Goto(p, IF job[p] \in {"put", "put unless git"} THEN "compare"
                                                              ELSE "list")
          /\ UNCHANGED <<job, todo, code, source, inPlace, missed>>
       \/ dir = 0 /\ NoFault
          /\ job[p] \in {"put", "put unless git"}
          /\ made' = made + 1 /\ dir' = made'
          /\ fd' = [fd EXCEPT ![p] = dir']
          /\ Goto(p, "compare")
          /\ UNCHANGED <<entry, others, job, todo, code, source, inPlace, missed>>
       \/ dir = 0 /\ NoFault /\ Stays
          /\ job[p] \in {"remove", "remove and rmdir"}
          /\ Exit(p, 0)
       \/ Fault /\ Stays /\ Exit(p, 1)   \* a component it does not accept

-----------------------------------------------------------------------------
(* put *)

Compare(p) ==
    /\ pc[p] = "compare" /\ Running /\ NoFault /\ Stays
    /\ LET same == inPlace[p] /\ Reaches(p) /\ others[p] \cap Given = {}
       IN \/ same /\ Exit(p, 0)
          \/ ~same /\ Continue(p, IF job[p] = "put" THEN "target" ELSE "git")

Checkout(p) ==
    /\ pc[p] = "git" /\ Running /\ NoFault /\ Stays
    /\ \/ At(p, Git) # Absent /\ Exit(p, 3)
       \/ At(p, Git) = Absent /\ Continue(p, "target")

\* placeFile, until there is nothing left to place
Target(p) ==
    /\ pc[p] = "target" /\ Running /\ NoFault /\ Stays
    /\ \/ todo[p] = {} /\ Exit(p, 0)
       \/ /\ todo[p] # {}
          /\ \/ At(p, Name(p)) = Directory /\ Exit(p, 1)
             \/ At(p, Name(p)) # Directory /\ Continue(p, "create")

\* O_EXCL
Create(p) ==
    /\ pc[p] = "create" /\ Running /\ NoFault
    /\ \/ Reaches(p) /\ entry[Temp(p)] = Absent
          /\ Becomes(p, Temp(p), File(Part, "private"))
          /\ Continue(p, "copy")
          /\ UNCHANGED <<dir, made>>
       \/ ~(Reaches(p) /\ entry[Temp(p)] = Absent)
          /\ Stays /\ Exit(p, 1)

\* mutant: what one write took is taken for all of it
CopyShort(p) ==
    /\ pc[p] = "copy" /\ Running
    /\ \/ NoFault /\ Stays /\ Continue(p, "seal")
       \/ Fault /\ Stays /\ Exit(p, 1)

\* copyAll: when a write fails, it ends the program, and the file stays
Copy(p) ==
    /\ pc[p] = "copy" /\ Running
    /\ \/ NoFault /\ UNCHANGED <<dir, made>>
          /\ Becomes(p, Temp(p), File(source[p][Name(p)], "private"))
          /\ Continue(p, "seal")
       \/ Fault /\ Stays /\ Exit(p, 1)

\* fail: the temporary is removed
Fail(p) ==
    /\ Becomes(p, Temp(p), Absent) /\ UNCHANGED <<dir, made>>
    /\ Exit(p, 1)

\* fchmod and fsync
Seal(p) ==
    /\ pc[p] = "seal" /\ Running
    /\ \/ NoFault /\ UNCHANGED <<dir, made>>
          /\ Becomes(p, Temp(p), File(entry[Temp(p)].text, "asked"))
          /\ Continue(p, "rename")
       \/ Fault /\ Fail(p)

\* mutant: only the other failures remove the temporary
RenameLeavesTemp(p) ==
    /\ pc[p] = "rename" /\ Running /\ NoFault
    /\ \/ entry[Name(p)] = Directory /\ Stays /\ Exit(p, 1)
       \/ entry[Name(p)] # Directory
          /\ entry' = [entry EXCEPT ![Name(p)] = entry[Temp(p)],
                                    ![Temp(p)] = Absent]
          /\ others' = [q \in Procs |->
                          IF q = p THEN others[q]
                                   ELSE others[q] \cup {Name(p), Temp(p)}]
          /\ Skip(p, "target")
          /\ UNCHANGED <<dir, made>>

Rename(p) ==
    /\ pc[p] = "rename" /\ Running /\ NoFault
    /\ \/ entry[Name(p)] = Directory /\ Fail(p)
       \/ entry[Name(p)] # Directory
          /\ entry' = [entry EXCEPT ![Name(p)] = entry[Temp(p)],
                                    ![Temp(p)] = Absent]
          /\ others' = [q \in Procs |->
                          IF q = p THEN others[q]
                                   ELSE others[q] \cup {Name(p), Temp(p)}]
          /\ Skip(p, "target")
          /\ UNCHANGED <<dir, made>>

-----------------------------------------------------------------------------
(* remove *)

\* mutant: the pattern is not looked at
ListAll(p) ==
    /\ pc[p] = "list" /\ Running /\ NoFault /\ Stays
    /\ todo' = [todo EXCEPT ![p] = @ \cup {n \in Names : At(p, n) # Absent}]
    /\ Goto(p, "stat")
    /\ UNCHANGED <<job, code, fd, source, inPlace, missed>>

\* the listing reports seen, of the names there
Reported(p, seen, there) ==
    /\ todo' = [todo EXCEPT ![p] = @ \cup seen]
    /\ missed' = [missed EXCEPT ![p] = there \ seen]
    /\ Goto(p, "stat")
    /\ UNCHANGED <<job, code, fd, source, inPlace>>

\* expandNames: what is given, and what matches at this moment.  A directory
\* that cannot be opened for reading ends the call; one that readdir stops
\* reading counts as read, for its NULL is taken for the end.
List(p) ==
    /\ pc[p] = "list" /\ Running /\ Stays
    /\ LET there == {n \in Matching : At(p, n) # Absent}
       IN \/ NoFault /\ Reported(p, there, there)
          \/ Fault /\ \E seen \in SUBSET there : Reported(p, seen, there)
          \/ Fault /\ Exit(p, 1)

\* fstatat of the next name, until there is none left
Stat(p) ==
    /\ pc[p] = "stat" /\ Running /\ Stays
    /\ \/ NoFault /\ todo[p] = {} /\ job[p] = "remove" /\ Exit(p, 0)
       \/ NoFault /\ todo[p] = {} /\ job[p] = "remove and rmdir"
          /\ Continue(p, "rmdir")
       \/ /\ todo[p] # {}
          /\ \/ NoFault /\ At(p, Name(p)) \in {Absent, Directory}
                /\ Skip(p, "stat")
             \/ NoFault /\ At(p, Name(p)) \notin {Absent, Directory}
                /\ Continue(p, "unlink")
             \/ Fault /\ Exit(p, 1)

\* mutant: a failure is not noticed
UnlinkUnseen(p) ==
    /\ pc[p] = "unlink" /\ Running
    /\ \/ NoFault /\ At(p, Name(p)) \notin {Absent, Directory}
          /\ Becomes(p, Name(p), Absent) /\ UNCHANGED <<dir, made>>
          /\ Skip(p, "stat")
       \/ NoFault /\ At(p, Name(p)) \in {Absent, Directory}
          /\ Stays /\ Skip(p, "stat")
       \/ Fault /\ Stays /\ Skip(p, "stat")

\* what has gone since, or is a directory now, cannot be unlinked
Unlink(p) ==
    /\ pc[p] = "unlink" /\ Running
    /\ \/ NoFault /\ At(p, Name(p)) \notin {Absent, Directory}
          /\ Becomes(p, Name(p), Absent) /\ UNCHANGED <<dir, made>>
          /\ Skip(p, "stat")
       \/ NoFault /\ At(p, Name(p)) \in {Absent, Directory}
          /\ Stays /\ Exit(p, 1)
       \/ Fault /\ Stays /\ Exit(p, 1)

\* unlinkat with AT_REMOVEDIR: whatever has the name now, if it is empty
Rmdir(p) ==
    /\ pc[p] = "rmdir" /\ Running
    /\ \/ NoFault /\ dir = 0 /\ Stays /\ Exit(p, 1)
       \/ Fault /\ Stays /\ Exit(p, 1)
       \/ NoFault /\ dir # 0 /\ (\E s \in Slots : entry[s] # Absent)
          /\ Stays /\ Exit(p, 0)
       \/ NoFault /\ dir # 0 /\ (\A s \in Slots : entry[s] = Absent)
          /\ dir' = 0 /\ UNCHANGED <<made, entry, others>>
          /\ Exit(p, 0)

-----------------------------------------------------------------------------
(* The rest of the world *)

\* a signal
Kill(p) ==
    /\ pc[p] \notin {"idle", "exited", "killed"}
    /\ Fault /\ Running /\ Stays
    /\ Continue(p, "killed")

\* the user, or another program
Meddle(n, e) ==
    /\ dir # 0 /\ entry[n] # e
    /\ meddles < MaxMeddles /\ meddles' = meddles + 1
    /\ entry' = [entry EXCEPT ![n] = e]
    /\ others' = [q \in Procs |-> others[q] \cup {n}]
    /\ UNCHANGED <<dir, made, callVars, starts, faults>>

-----------------------------------------------------------------------------
Call(p) ==
    \/ Walk(p) \/ Compare(p) \/ Checkout(p) \/ Target(p) \/ Create(p)
    \/ Copy(p) \/ Seal(p) \/ Rename(p)
    \/ List(p) \/ Stat(p) \/ Unlink(p) \/ Rmdir(p)
    \/ Kill(p)

Users == {Absent, Directory, Symlink} \cup {File(t, "asked") : t \in Texts}

Next ==
    \/ \E p \in Procs : Call(p)
    \/ \E p \in Procs, j \in Jobs, t \in Texts, here \in BOOLEAN :
          Start(p, j, t, here)
    \/ \E n \in Names, e \in Users : Meddle(n, e)

Spec == Init /\ [][Next]_vars

-----------------------------------------------------------------------------
(* Properties *)

(* No name that the user or a program looks up holds a part of a file, or  *)
(* one whose mode is not the one asked for, wherever a call was killed or  *)
(* failed.                                                                 *)
OnlyWholeFiles ==
    \A n \in Names : entry[n].kind = "file" =>
        entry[n].text # Part /\ entry[n].mode = "asked"

(* What a call was not given, and every directory in its way, is left as   *)
(* it is, even when it takes the place of a file between two steps.        *)
LeavesTheRest ==
    [][meddles' = meddles => \A n \in Names :
          n \in Rest \/ entry[n] = Directory => entry'[n] = entry[n]]_vars

(* An exit code of 0 is true: of every name that nobody else touched since *)
(* the call began, put has installed its file, and remove has removed what *)
(* is not a directory.  Names the pattern matches are excepted only when a *)
(* listing that ended early did not report them: the call cannot tell.     *)
ExitZeroIsTrue ==
    \A p \in Procs : pc[p] = "exited" /\ code[p] = 0 =>
        /\ job[p] \in {"put", "put unless git"} =>
              \A n \in Given \ others[p] :
                 entry[n] = File(source[p][n], "asked")
        /\ job[p] \in {"remove", "remove and rmdir"} =>
              \A n \in (Given \cup (Matching \ missed[p])) \ others[p] :
                 entry[n] \in {Absent, Directory}

(* Temporary files that no call works on are left by a signal or a failed  *)
(* write only, and each of those leaves one at most.                       *)
InUse(t) == pc[t[2]] \in {"copy", "seal", "rename"} /\ Temp(t[2]) = t
StrayTempsAreFew ==
    Cardinality({t \in Temps : entry[t] # Absent /\ ~InUse(t)}) <= faults
=============================================================================
