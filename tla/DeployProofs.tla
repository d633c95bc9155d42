---------------------------- MODULE DeployProofs ----------------------------
(* What bose-700-deploy keeps, for every set of names and calls, and any   *)
(* number of starts, faults and changes by others.                         *)
EXTENDS Deploy, FiniteSetTheorems, TLAPS

DirTypes ==
    /\ dir \in Nat /\ made \in Nat
    /\ entry \in [Slots -> Entries]
CallTypes ==
    /\ pc \in [Procs -> Steps] /\ job \in [Procs -> Jobs]
    /\ todo \in [Procs -> SUBSET (Given \cup Matching)]
    /\ code \in [Procs -> {0, 1, 3}]
    /\ fd \in [Procs -> Nat]
    /\ source \in [Procs -> [Given -> Texts]]
    /\ inPlace \in [Procs -> BOOLEAN]
    /\ missed \in [Procs -> SUBSET Matching]
BoundTypes ==
    /\ others \in [Procs -> SUBSET Slots]
    /\ starts \in 0..MaxStarts /\ meddles \in 0..MaxMeddles
    /\ faults \in 0..MaxFaults

\* put works on what it was given
PutSteps == {"walk", "compare", "git", "target", "create", "copy", "seal",
             "rename"}
OnTask ==
    \A p \in Procs :
        /\ pc[p] \in PutSteps => todo[p] \subseteq Given
        /\ pc[p] \in {"create", "copy", "seal", "rename", "unlink"} =>
              todo[p] # {}

\* the temporary of a call holds all of its file before it is renamed
TempIsReady ==
    \A p \in Procs :
        /\ pc[p] = "seal" =>
              entry[Temp(p)] = File(source[p][Name(p)], "private")
        /\ pc[p] = "rename" =>
              entry[Temp(p)] = File(source[p][Name(p)], "asked")

IInv == TypeOK /\ OnTask /\ TempIsReady /\ OnlyWholeFiles

-----------------------------------------------------------------------------
(* The parts of the state *)

LEMMA TypesInParts == TypeOK <=> DirTypes /\ CallTypes /\ BoundTypes
BY DEF TypeOK, DirTypes, CallTypes, BoundTypes

LEMMA TypesInPartsNext == (DirTypes /\ CallTypes /\ BoundTypes)' => TypeOK'
BY DEF TypeOK, DirTypes, CallTypes, BoundTypes

LEMMA FileFacts ==
    /\ \A t \in Texts, mode \in {"private", "asked"} :
          /\ File(t, mode) \in Entries /\ File(t, mode) # Directory
          /\ File(t, mode).kind = "file" /\ File(t, mode).text = t
          /\ File(t, mode).mode = mode /\ t # Part
    /\ File(Part, "private") \in Entries
    /\ {Absent, Directory, Symlink} \subseteq Entries
    /\ Absent.kind # "file" /\ Directory.kind # "file" /\ Symlink.kind # "file"
    /\ \A e \in Entries : e.kind = "file" => e.text \in Texts \cup {Part}
<1>1. Part \notin Texts
  BY DeployAssumption
<1>2. /\ \A t \in Texts, mode \in {"private", "asked"} :
             File(t, mode) \in Entries
      /\ File(Part, "private") \in Entries
      /\ {Absent, Directory, Symlink} \subseteq Entries
  BY DEF Entries, Files
<1>3. \A t \in Texts, mode \in {"private", "asked"} :
          /\ File(t, mode) # Directory
          /\ File(t, mode).kind = "file" /\ File(t, mode).text = t
          /\ File(t, mode).mode = mode
  BY DEF File, Directory
<1>4. Absent.kind # "file" /\ Directory.kind # "file" /\ Symlink.kind # "file"
  BY DEF Absent, Directory, Symlink
<1>5. \A e \in Entries : e.kind = "file" => e.text \in Texts \cup {Part}
  BY <1>4 DEF Entries, Files, File
<1> QED BY <1>1, <1>2, <1>3, <1>4, <1>5

LEMMA SlotFacts ==
    /\ Names \subseteq Slots /\ Given \subseteq Names
    /\ Matching \subseteq Names /\ Rest \subseteq Names
    /\ Rest \cap (Given \cup Matching) = {} /\ Git \in Rest
    /\ \A n \in Given, p \in Procs : <<n, p>> \in Slots /\ <<n, p>> \notin Names
    /\ \A n, n2, p, q : p # q => <<n, p>> # <<n2, q>>
<1>1. Git \in Rest /\ Rest \cap (Given \cup Matching) = {}
      /\ Names \cap Temps = {}
  BY DeployAssumption
<1> QED BY <1>1 DEF Names, Slots, Temps

LEMMA NameIsNext ==
    ASSUME NEW p \in Procs, todo[p] # {}
    PROVE  Name(p) \in todo[p]
BY DEF Name

LEMMA NameOnTask ==
    ASSUME CallTypes, OnTask, NEW p \in Procs
    PROVE  /\ pc[p] \in {"create", "copy", "seal", "rename"} =>
                 /\ Name(p) \in Given /\ Name(p) \in Names
                 /\ Temp(p) \in Slots /\ Temp(p) \notin Names
           /\ pc[p] = "unlink" =>
                 Name(p) \in Given \cup Matching /\ Name(p) \in Names
<1>1. pc[p] \in {"create", "copy", "seal", "rename"} => Name(p) \in Given
  BY NameIsNext DEF OnTask, PutSteps
<1>2. pc[p] = "unlink" => Name(p) \in Given \cup Matching
  BY NameIsNext DEF OnTask, CallTypes
<1> QED BY <1>1, <1>2, SlotFacts DEF Temp

LEMMA DirTypesNext ==
    ASSUME DirTypes, CallTypes, OnTask, TempIsReady, Next
    PROVE  DirTypes'
<1>f. /\ File(Part, "private") \in Entries /\ Absent \in Entries
      /\ \A t \in Texts \cup {Part} : File(t, "private") \in Entries
                                    /\ File(t, "asked") \in Entries
  BY DEF Entries, Files
<1>n. \A p \in Procs : pc[p] \in {"create", "copy", "seal", "rename"} =>
          /\ source[p][Name(p)] \in Texts
          /\ Temp(p) \in Slots
  BY NameOnTask DEF CallTypes
<1>u. Users \subseteq Entries /\ Names \subseteq Slots
  BY SlotFacts DEF Users, Entries, Files
<1> USE DEF Becomes, Stays, Exit, Continue, Skip, Goto, Fail, Fault, NoFault, Running,
        callVars, boundVars, DirTypes
<1>1. ASSUME NEW p \in Procs, Walk(p)
      PROVE  DirTypes'
  <2>1. made + 1 \in Nat
    OBVIOUS
  <2>2. entry' = entry
    BY <1>1 DEF Walk
  <2>3. \/ dir' = dir /\ made' = made
        \/ dir' = made + 1 /\ made' = made + 1
    BY <1>1 DEF Walk
  <2> QED BY <2>1, <2>2, <2>3
<1>2. ASSUME NEW p \in Procs, Compare(p)
      PROVE  DirTypes'
  BY <1>2 DEF Compare
<1>3. ASSUME NEW p \in Procs, Checkout(p)
      PROVE  DirTypes'
  BY <1>3 DEF Checkout
<1>4. ASSUME NEW p \in Procs, Target(p)
      PROVE  DirTypes'
  BY <1>4 DEF Target
<1>5. ASSUME NEW p \in Procs, Create(p)
      PROVE  DirTypes'
  BY <1>5, <1>f, <1>n DEF Create
<1>6. ASSUME NEW p \in Procs, Copy(p)
      PROVE  DirTypes'
  BY <1>6, <1>f, <1>n DEF Copy
<1>7. ASSUME NEW p \in Procs, Seal(p)
      PROVE  DirTypes'
  <2>1. entry[Temp(p)] = File(source[p][Name(p)], "private")
    BY <1>7 DEF Seal, TempIsReady
  <2>2. entry[Temp(p)].text \in Texts
    BY <1>7, <2>1, <1>n, FileFacts DEF Seal
  <2> QED BY <1>7, <2>2, <1>f, <1>n DEF Seal
<1>8. ASSUME NEW p \in Procs, Rename(p)
      PROVE  DirTypes'
  BY <1>8, <1>f, <1>n DEF Rename
<1>9. ASSUME NEW p \in Procs, List(p)
      PROVE  DirTypes'
  BY <1>9 DEF List
<1>10. ASSUME NEW p \in Procs, Stat(p)
      PROVE  DirTypes'
  BY <1>10 DEF Stat
<1>11. ASSUME NEW p \in Procs, Unlink(p)
      PROVE  DirTypes'
  BY <1>11, <1>f, <1>n DEF Unlink
<1>12. ASSUME NEW p \in Procs, Rmdir(p)
      PROVE  DirTypes'
  BY <1>12 DEF Rmdir
<1>13. ASSUME NEW p \in Procs, Kill(p)
      PROVE  DirTypes'
  BY <1>13 DEF Kill
<1>14. ASSUME NEW p \in Procs, NEW j \in Jobs, NEW t \in Texts,
             NEW here \in BOOLEAN, Start(p, j, t, here)
      PROVE  DirTypes'
  BY <1>14 DEF Start
<1>15. ASSUME NEW n \in Names, NEW e \in Users, Meddle(n, e)
      PROVE  DirTypes'
  BY <1>15, <1>f, <1>u DEF Meddle
<1> QED
  BY <1>1, <1>2, <1>3, <1>4, <1>5, <1>6, <1>7, <1>8, <1>9, <1>10, <1>11, <1>12, <1>13, <1>14, <1>15
     DEF Next, Call
\* the listing ends the call, or reports some of what is there
LEMMA ListEnds ==
    ASSUME NEW p \in Procs, List(p)
    PROVE  /\ pc[p] = "list" /\ Stays
           /\ \/ Exit(p, 1)
              \/ \E seen \in SUBSET {n \in Matching : At(p, n) # Absent} :
                    Reported(p, seen, {n \in Matching : At(p, n) # Absent})
BY DEF List

LEMMA CallTypesNext ==
    ASSUME DirTypes, CallTypes, OnlyWholeFiles, Next
    PROVE  CallTypes'
<1>j. Steps = {"idle", "walk", "compare", "git", "target", "create", "copy",
               "seal", "rename", "list", "stat", "unlink", "rmdir", "exited",
               "killed"}
  BY DEF Steps
<1>s. \A n \in Given : entry[n].kind = "file" => entry[n].text \in Texts
  BY FileFacts, SlotFacts DEF DirTypes, OnlyWholeFiles
<1>d. dir \in Nat /\ made + 1 \in Nat
  BY DEF DirTypes
<1> USE DEF Becomes, Stays, Exit, Continue, Skip, Goto, Fail, Fault, NoFault, Running,
        callVars, boundVars, CallTypes
<1>1. ASSUME NEW p \in Procs, Walk(p)
      PROVE  CallTypes'
  <2>1. \/ /\ UNCHANGED <<job, todo, code, source, inPlace, missed>>
           /\ \/ fd' = [fd EXCEPT ![p] = dir]
              \/ fd' = [fd EXCEPT ![p] = made + 1]
           /\ \E step \in Steps : pc' = [pc EXCEPT ![p] = step]
        \/ \E n \in {0, 1} : Exit(p, n)
    BY <1>1, <1>j DEF Walk
  <2>2. CASE \E n \in {0, 1} : Exit(p, n)
    BY <2>2, <1>j
  <2>3. CASE ~\E n \in {0, 1} : Exit(p, n)
    <3>1. fd' \in [Procs -> Nat]
      BY <2>1, <2>3, <1>d
    <3>2. pc' \in [Procs -> Steps]
      BY <2>1, <2>3
    <3> QED BY <2>1, <2>3, <3>1, <3>2
  <2> QED BY <2>2, <2>3
<1>2. ASSUME NEW p \in Procs, Compare(p)
      PROVE  CallTypes'
  BY <1>2, <1>j DEF Compare
<1>3. ASSUME NEW p \in Procs, Checkout(p)
      PROVE  CallTypes'
  BY <1>3, <1>j DEF Checkout
<1>4. ASSUME NEW p \in Procs, Target(p)
      PROVE  CallTypes'
  BY <1>4, <1>j DEF Target
<1>5. ASSUME NEW p \in Procs, Create(p)
      PROVE  CallTypes'
  BY <1>5, <1>j DEF Create
<1>6. ASSUME NEW p \in Procs, Copy(p)
      PROVE  CallTypes'
  BY <1>6, <1>j DEF Copy
<1>7. ASSUME NEW p \in Procs, Seal(p)
      PROVE  CallTypes'
  BY <1>7, <1>j DEF Seal
<1>8. ASSUME NEW p \in Procs, Rename(p)
      PROVE  CallTypes'
  <2>1. Exit(p, 1) \/ Skip(p, "target")
    BY <1>8 DEF Rename
  <2> QED BY <2>1, <1>j
<1>9. ASSUME NEW p \in Procs, List(p)
      PROVE  CallTypes'
  <2>1. CASE Exit(p, 1)
    BY <1>9, <2>1, <1>j
  <2>2. ASSUME NEW there \in SUBSET Matching, NEW seen \in SUBSET there,
               Reported(p, seen, there)
        PROVE  CallTypes'
    <3>1. /\ UNCHANGED <<job, code, fd, source, inPlace>>
          /\ pc' \in [Procs -> Steps]
      BY <2>2, <1>j DEF Reported
    <3>2. todo' \in [Procs -> SUBSET (Given \cup Matching)]
      BY <2>2 DEF Reported
    <3>3. missed' \in [Procs -> SUBSET Matching]
      BY <2>2 DEF Reported
    <3> QED BY <3>1, <3>2, <3>3
  <2> QED BY <1>9, <2>1, <2>2, ListEnds
<1>10. ASSUME NEW p \in Procs, Stat(p)
      PROVE  CallTypes'
  BY <1>10, <1>j DEF Stat
<1>11. ASSUME NEW p \in Procs, Unlink(p)
      PROVE  CallTypes'
  <2>1. Exit(p, 1) \/ Skip(p, "stat")
    BY <1>11 DEF Unlink
  <2> QED BY <2>1, <1>j
<1>12. ASSUME NEW p \in Procs, Rmdir(p)
      PROVE  CallTypes'
  BY <1>12, <1>j DEF Rmdir
<1>13. ASSUME NEW p \in Procs, Kill(p)
      PROVE  CallTypes'
  BY <1>13, <1>j DEF Kill
<1>14. ASSUME NEW p \in Procs, NEW j \in Jobs, NEW t \in Texts,
             NEW here \in BOOLEAN, Start(p, j, t, here)
      PROVE  CallTypes'
  BY <1>14, <1>s, <1>j DEF Start
<1>15. ASSUME NEW n \in Names, NEW e \in Users, Meddle(n, e)
      PROVE  CallTypes'
  BY <1>15 DEF Meddle
<1> QED
  BY <1>1, <1>2, <1>3, <1>4, <1>5, <1>6, <1>7, <1>8, <1>9, <1>10, <1>11, <1>12, <1>13, <1>14, <1>15
     DEF Next, Call

LEMMA BoundTypesNext ==
    ASSUME BoundTypes, CallTypes, OnTask, Next
    PROVE  BoundTypes'
<1>b. MaxStarts \in Nat /\ MaxMeddles \in Nat /\ MaxFaults \in Nat
  BY DeployAssumption
<1>n. \A p \in Procs :
          /\ pc[p] \in {"create", "copy", "seal", "rename"} =>
                Temp(p) \in Slots /\ Name(p) \in Slots
          /\ pc[p] = "unlink" => Name(p) \in Slots
  BY NameOnTask, SlotFacts
<1>u. Names \subseteq Slots
  BY SlotFacts
<1> USE <1>b
<1> USE DEF Becomes, Stays, Exit, Continue, Skip, Goto, Fail, Fault, NoFault, Running,
        callVars, boundVars, BoundTypes
<1>1. ASSUME NEW p \in Procs, Walk(p)
      PROVE  BoundTypes'
  <2>1. UNCHANGED <<others, starts, meddles>>
    BY <1>1 DEF Walk
  <2>2. faults' = faults \/ (faults < MaxFaults /\ faults' = faults + 1)
    BY <1>1 DEF Walk
  <2> QED BY <2>1, <2>2
<1>2. ASSUME NEW p \in Procs, Compare(p)
      PROVE  BoundTypes'
  BY <1>2 DEF Compare
<1>3. ASSUME NEW p \in Procs, Checkout(p)
      PROVE  BoundTypes'
  BY <1>3 DEF Checkout
<1>4. ASSUME NEW p \in Procs, Target(p)
      PROVE  BoundTypes'
  BY <1>4 DEF Target
<1>5. ASSUME NEW p \in Procs, Create(p)
      PROVE  BoundTypes'
  BY <1>5, <1>n DEF Create
<1>6. ASSUME NEW p \in Procs, Copy(p)
      PROVE  BoundTypes'
  BY <1>6, <1>n DEF Copy
<1>7. ASSUME NEW p \in Procs, Seal(p)
      PROVE  BoundTypes'
  BY <1>7, <1>n DEF Seal
<1>8. ASSUME NEW p \in Procs, Rename(p)
      PROVE  BoundTypes'
  BY <1>8, <1>n DEF Rename
<1>9. ASSUME NEW p \in Procs, List(p)
      PROVE  BoundTypes'
  <2>1. UNCHANGED <<others, starts, meddles>>
    BY <1>9, ListEnds DEF List
  <2>2. faults' = faults \/ (faults < MaxFaults /\ faults' = faults + 1)
    <3>1. CASE NoFault
      BY <3>1
    <3>2. CASE Fault
      BY <3>2
    <3> QED BY <1>9, <3>1, <3>2 DEF List
  <2> QED BY <2>1, <2>2
<1>10. ASSUME NEW p \in Procs, Stat(p)
      PROVE  BoundTypes'
  <2>1. UNCHANGED <<others, starts, meddles>>
    BY <1>10 DEF Stat
  <2>2. faults' = faults \/ (faults < MaxFaults /\ faults' = faults + 1)
    BY <1>10 DEF Stat
  <2> QED BY <2>1, <2>2
<1>11. ASSUME NEW p \in Procs, Unlink(p)
      PROVE  BoundTypes'
  BY <1>11, <1>n DEF Unlink
<1>12. ASSUME NEW p \in Procs, Rmdir(p)
      PROVE  BoundTypes'
  BY <1>12 DEF Rmdir
<1>13. ASSUME NEW p \in Procs, Kill(p)
      PROVE  BoundTypes'
  BY <1>13 DEF Kill
<1>14. ASSUME NEW p \in Procs, NEW j \in Jobs, NEW t \in Texts,
             NEW here \in BOOLEAN, Start(p, j, t, here)
      PROVE  BoundTypes'
  BY <1>14 DEF Start
<1>15. ASSUME NEW n \in Names, NEW e \in Users, Meddle(n, e)
      PROVE  BoundTypes'
  BY <1>15, <1>u DEF Meddle
<1> QED
  BY <1>1, <1>2, <1>3, <1>4, <1>5, <1>6, <1>7, <1>8, <1>9, <1>10, <1>11, <1>12, <1>13, <1>14, <1>15
     DEF Next, Call

LEMMA OnTaskNext ==
    ASSUME CallTypes, OnTask, Next
    PROVE  OnTask'
<1> USE DEF Becomes, Stays, Exit, Continue, Skip, Goto, Fail, Fault, NoFault, Running,
        callVars, boundVars, CallTypes, OnTask, PutSteps
<1>1. ASSUME NEW p \in Procs, Walk(p)
      PROVE  OnTask'
  BY <1>1 DEF Walk
<1>2. ASSUME NEW p \in Procs, Compare(p)
      PROVE  OnTask'
  BY <1>2 DEF Compare
<1>3. ASSUME NEW p \in Procs, Checkout(p)
      PROVE  OnTask'
  BY <1>3 DEF Checkout
<1>4. ASSUME NEW p \in Procs, Target(p)
      PROVE  OnTask'
  BY <1>4 DEF Target
<1>5. ASSUME NEW p \in Procs, Create(p)
      PROVE  OnTask'
  BY <1>5 DEF Create
<1>6. ASSUME NEW p \in Procs, Copy(p)
      PROVE  OnTask'
  BY <1>6 DEF Copy
<1>7. ASSUME NEW p \in Procs, Seal(p)
      PROVE  OnTask'
  BY <1>7 DEF Seal
<1>8. ASSUME NEW p \in Procs, Rename(p)
      PROVE  OnTask'
  BY <1>8 DEF Rename
<1>9. ASSUME NEW p \in Procs, List(p)
      PROVE  OnTask'
  <2>1. pc'[p] \in {"stat", "exited"}
    BY <1>9, ListEnds DEF Reported
  <2>2. \A q \in Procs : q # p => pc'[q] = pc[q] /\ todo'[q] = todo[q]
    BY <1>9, ListEnds DEF Reported
  <2> QED BY <2>1, <2>2
<1>10. ASSUME NEW p \in Procs, Stat(p)
      PROVE  OnTask'
  BY <1>10 DEF Stat
<1>11. ASSUME NEW p \in Procs, Unlink(p)
      PROVE  OnTask'
  BY <1>11 DEF Unlink
<1>12. ASSUME NEW p \in Procs, Rmdir(p)
      PROVE  OnTask'
  BY <1>12 DEF Rmdir
<1>13. ASSUME NEW p \in Procs, Kill(p)
      PROVE  OnTask'
  BY <1>13 DEF Kill
<1>14. ASSUME NEW p \in Procs, NEW j \in Jobs, NEW t \in Texts,
             NEW here \in BOOLEAN, Start(p, j, t, here)
      PROVE  OnTask'
  BY <1>14 DEF Start
<1>15. ASSUME NEW n \in Names, NEW e \in Users, Meddle(n, e)
      PROVE  OnTask'
  BY <1>15 DEF Meddle
<1> QED
  BY <1>1, <1>2, <1>3, <1>4, <1>5, <1>6, <1>7, <1>8, <1>9, <1>10, <1>11, <1>12, <1>13, <1>14, <1>15
     DEF Next, Call

-----------------------------------------------------------------------------
(* What a call does to the directory *)

LEMMA CallTouches ==
    ASSUME DirTypes, CallTypes, OnTask, NEW p \in Procs, Call(p)
    PROVE  \A s \in Slots :
             \/ entry'[s] = entry[s]
             \/ s = Temp(p) /\ pc[p] \in {"create", "copy", "seal", "rename"}
             \/ /\ s = Name(p) /\ pc[p] = "rename" /\ entry[s] # Directory
                /\ entry'[s] = entry[Temp(p)]
             \/ /\ s = Name(p) /\ pc[p] = "unlink" /\ entry[s] # Directory
                /\ entry'[s] = Absent
<1> DEFINE OK == \A s \in Slots :
             \/ entry'[s] = entry[s]
             \/ s = Temp(p) /\ pc[p] \in {"create", "copy", "seal", "rename"}
             \/ /\ s = Name(p) /\ pc[p] = "rename" /\ entry[s] # Directory
                /\ entry'[s] = entry[Temp(p)]
             \/ /\ s = Name(p) /\ pc[p] = "unlink" /\ entry[s] # Directory
                /\ entry'[s] = Absent
<1>n. pc[p] \in {"create", "copy", "seal", "rename"} => Temp(p) # Name(p)
  BY NameOnTask
<1>1. CASE Walk(p) \/ Compare(p) \/ Checkout(p) \/ Target(p) \/ List(p)
           \/ Stat(p) \/ Rmdir(p) \/ Kill(p)
  <2>1. entry' = entry
    BY <1>1 DEF Walk, Compare, Checkout, Target, List, Stat, Rmdir, Kill, Stays
  <2> QED BY <2>1
<1>2. CASE Create(p)
  <2>1. \/ entry' = entry
        \/ entry' = [entry EXCEPT ![Temp(p)] = File(Part, "private")]
    BY <1>2 DEF Create, Becomes, Stays
  <2>2. pc[p] = "create"
    BY <1>2 DEF Create
  <2> QED BY <2>1, <2>2 DEF DirTypes
<1>3. CASE Copy(p)
  <2>1. \/ entry' = entry
        \/ entry' = [entry EXCEPT
                       ![Temp(p)] = File(source[p][Name(p)], "private")]
    BY <1>3 DEF Copy, Becomes, Stays
  <2>2. pc[p] = "copy"
    BY <1>3 DEF Copy
  <2> QED BY <2>1, <2>2 DEF DirTypes
<1>4. CASE Seal(p)
  <2>1. \/ entry' = [entry EXCEPT ![Temp(p)] = Absent]
        \/ entry' = [entry EXCEPT
                       ![Temp(p)] = File(entry[Temp(p)].text, "asked")]
    BY <1>4 DEF Seal, Fail, Becomes
  <2>2. pc[p] = "seal"
    BY <1>4 DEF Seal
  <2> QED BY <2>1, <2>2 DEF DirTypes
<1>5. CASE Rename(p)
  <2>1. pc[p] = "rename"
    BY <1>5 DEF Rename
  <2>2. CASE entry' = [entry EXCEPT ![Temp(p)] = Absent]
    BY <2>1, <2>2 DEF DirTypes
  <2>3. CASE /\ entry[Name(p)] # Directory
             /\ entry' = [entry EXCEPT ![Name(p)] = entry[Temp(p)],
                                       ![Temp(p)] = Absent]
    BY <1>n, <2>1, <2>3 DEF DirTypes
  <2> QED BY <1>5, <2>2, <2>3 DEF Rename, Fail, Becomes
<1>6. CASE Unlink(p)
  <2>1. pc[p] = "unlink"
    BY <1>6 DEF Unlink
  <2>2. CASE entry' = entry
    BY <2>2
  <2>3. CASE /\ At(p, Name(p)) \notin {Absent, Directory}
             /\ entry' = [entry EXCEPT ![Name(p)] = Absent]
    <3>1. entry[Name(p)] # Directory
      BY <2>3 DEF At
    <3> QED BY <2>1, <2>3, <3>1 DEF DirTypes
  <2> QED BY <1>6, <2>2, <2>3 DEF Unlink, Becomes, Stays
<1> QED
  BY <1>1, <1>2, <1>3, <1>4, <1>5, <1>6 DEF Call

LEMMA CallLeavesCalls ==
    ASSUME CallTypes, NEW p \in Procs, Call(p) \/ \E j \in Jobs, t \in Texts, here \in BOOLEAN : Start(p, j, t, here),
           NEW q \in Procs, q # p
    PROVE  UNCHANGED <<pc[q], job[q], todo[q], code[q], fd[q], source[q],
                       inPlace[q], missed[q]>>
<1> USE DEF Becomes, Stays, Exit, Continue, Skip, Goto, Fail, CallTypes
<1>1. CASE Walk(p) \/ Compare(p) \/ Checkout(p) \/ Target(p)
  BY <1>1 DEF Walk, Compare, Checkout, Target
<1>2. CASE Create(p) \/ Copy(p) \/ Seal(p) \/ Rename(p)
  BY <1>2 DEF Create, Copy, Seal, Rename
<1>3. CASE List(p) \/ Stat(p) \/ Unlink(p)
  BY <1>3 DEF List, Reported, Stat, Unlink
<1>4. CASE Rmdir(p) \/ Kill(p)
  BY <1>4 DEF Rmdir, Kill
<1>5. CASE \E j \in Jobs, t \in Texts, here \in BOOLEAN : Start(p, j, t, here)
  BY <1>5 DEF Start
<1> QED BY <1>1, <1>2, <1>3, <1>4, <1>5 DEF Call

-----------------------------------------------------------------------------
(* The temporary file *)

Ready(p) ==
    /\ pc[p] = "seal" => entry[Temp(p)] = File(source[p][Name(p)], "private")
    /\ pc[p] = "rename" => entry[Temp(p)] = File(source[p][Name(p)], "asked")

LEMMA ReadyKept ==
    ASSUME NEW q \in Procs, Ready(q),
           UNCHANGED <<pc[q], todo[q], source[q]>>,
           pc[q] \in {"seal", "rename"} => entry'[Temp(q)] = entry[Temp(q)]
    PROVE  Ready(q)'
<1>1. Name(q)' = Name(q)
  BY DEF Name
<1>2. Temp(q)' = Temp(q)
  BY <1>1 DEF Temp
<1> QED BY <1>1, <1>2 DEF Ready

LEMMA OwnReady ==
    ASSUME DirTypes, CallTypes, OnTask, NEW p \in Procs, Ready(p), Call(p)
    PROVE  Ready(p)'
<1> USE DEF Exit, Continue, Skip, Goto, CallTypes
<1>1. CASE Walk(p) \/ Compare(p) \/ Checkout(p) \/ Target(p) \/ Create(p)
           \/ Rename(p)
  <2>1. pc'[p] \notin {"seal", "rename"}
    BY <1>1 DEF Walk, Compare, Checkout, Target, Create, Rename, Fail
  <2> QED BY <2>1 DEF Ready
<1>2. CASE List(p) \/ Stat(p) \/ Unlink(p) \/ Rmdir(p) \/ Kill(p)
  <2>1. pc'[p] \notin {"seal", "rename"}
    BY <1>2 DEF List, Reported, Stat, Unlink, Rmdir, Kill
  <2> QED BY <2>1 DEF Ready
<1>3. CASE Copy(p)
  <2>1. CASE pc'[p] = "exited"
    BY <2>1 DEF Ready
  <2>2. CASE pc'[p] # "exited"
    <3>1. /\ pc'[p] = "seal" /\ UNCHANGED <<todo, source>>
          /\ entry' = [entry EXCEPT
                         ![Temp(p)] = File(source[p][Name(p)], "private")]
      BY <1>3, <2>2 DEF Copy, Becomes
    <3>2. Temp(p) \in Slots
      BY <1>3, NameOnTask DEF Copy
    <3>3. Name(p)' = Name(p) /\ Temp(p)' = Temp(p)
      BY <3>1 DEF Name, Temp
    <3>4. entry'[Temp(p)] = File(source[p][Name(p)], "private")
      BY <3>1, <3>2 DEF DirTypes
    <3> QED BY <3>1, <3>3, <3>4 DEF Ready
  <2> QED BY <2>1, <2>2
<1>4. CASE Seal(p)
  <2>1. CASE pc'[p] = "exited"
    BY <2>1 DEF Ready
  <2>2. CASE pc'[p] # "exited"
    <3>1. /\ pc[p] = "seal" /\ pc'[p] = "rename" /\ UNCHANGED <<todo, source>>
          /\ entry' = [entry EXCEPT
                         ![Temp(p)] = File(entry[Temp(p)].text, "asked")]
      BY <1>4, <2>2 DEF Seal, Fail, Becomes
    <3>2. Temp(p) \in Slots /\ source[p][Name(p)] \in Texts
      BY <1>4, NameOnTask DEF Seal
    <3>3. Name(p)' = Name(p) /\ Temp(p)' = Temp(p)
      BY <3>1 DEF Name, Temp
    <3>4. entry[Temp(p)].text = source[p][Name(p)]
      BY <3>1, <3>2, FileFacts DEF Ready
    <3>5. entry'[Temp(p)] = File(source[p][Name(p)], "asked")
      BY <3>1, <3>2, <3>4 DEF DirTypes
    <3> QED BY <3>1, <3>3, <3>5 DEF Ready
  <2> QED BY <2>1, <2>2
<1> QED BY <1>1, <1>2, <1>3, <1>4 DEF Call

LEMMA ReadyNext ==
    ASSUME DirTypes, CallTypes, OnTask, TempIsReady, Next
    PROVE  TempIsReady'
<1>1. \A q \in Procs : Ready(q)
  BY DEF TempIsReady, Ready
<1>2. SUFFICES ASSUME NEW q \in Procs PROVE Ready(q)'
  BY <1>2 DEF TempIsReady, Ready
<1>3. pc[q] \in {"seal", "rename"} =>
          Temp(q) \in Slots /\ Temp(q) \notin Names
  BY NameOnTask
<1>4. ASSUME NEW p \in Procs, Call(p) PROVE Ready(q)'
  <2>1. CASE q = p
    BY <1>1, <1>4, <2>1, OwnReady
  <2>2. CASE q # p
    <3>1. UNCHANGED <<pc[q], todo[q], source[q]>>
      BY <1>4, <2>2, CallLeavesCalls
    <3>2. Temp(q) # Temp(p)
      BY <2>2 DEF Temp
    <3>3. pc[p] \in {"rename", "unlink"} => Name(p) \in Names
      BY NameOnTask
    <3>4. pc[q] \in {"seal", "rename"} => entry'[Temp(q)] = entry[Temp(q)]
      BY <1>3, <1>4, <3>2, <3>3, CallTouches
    <3> QED BY <1>1, <3>1, <3>4, ReadyKept
  <2> QED BY <2>1, <2>2
<1>5. ASSUME NEW p \in Procs, NEW j \in Jobs, NEW t \in Texts,
             NEW here \in BOOLEAN, Start(p, j, t, here)
      PROVE  Ready(q)'
  <2>1. CASE q = p
    <3>1. pc'[q] = "walk"
      BY <1>5, <2>1 DEF Start, Goto, CallTypes
    <3> QED BY <3>1 DEF Ready
  <2>2. CASE q # p
    <3>1. UNCHANGED <<pc[q], todo[q], source[q]>>
      BY <1>5, <2>2, CallLeavesCalls
    <3>2. entry' = entry
      BY <1>5 DEF Start
    <3> QED BY <1>1, <3>1, <3>2, ReadyKept
  <2> QED BY <2>1, <2>2
<1>6. ASSUME NEW n \in Names, NEW e \in Users, Meddle(n, e)
      PROVE  Ready(q)'
  <2>1. UNCHANGED <<pc, todo, source>>
        /\ entry' = [entry EXCEPT ![n] = e]
    BY <1>6 DEF Meddle, callVars
  <2>2. pc[q] \in {"seal", "rename"} => entry'[Temp(q)] = entry[Temp(q)]
    BY <1>3, <2>1 DEF DirTypes
  <2> QED BY <1>1, <2>1, <2>2, ReadyKept
<1> QED BY <1>4, <1>5, <1>6 DEF Next

LEMMA WholeNext ==
    ASSUME DirTypes, CallTypes, OnTask, TempIsReady, OnlyWholeFiles, Next
    PROVE  OnlyWholeFiles'
<1> DEFINE Whole(e) == e.kind = "file" => e.text # Part /\ e.mode = "asked"
<1>1. \A n \in Names : Whole(entry[n])
  BY DEF OnlyWholeFiles
<1>2. SUFFICES ASSUME NEW n \in Names PROVE Whole(entry'[n])
  BY <1>2 DEF OnlyWholeFiles
<1>3. n \in Slots
  BY SlotFacts
<1>4. ASSUME NEW p \in Procs, Call(p) PROVE Whole(entry'[n])
  <2>1. CASE entry'[n] = entry[n]
    BY <1>1, <2>1
  <2>2. CASE n = Temp(p) /\ pc[p] \in {"create", "copy", "seal", "rename"}
    BY <2>2, NameOnTask
  <2>3. CASE n = Name(p) /\ pc[p] = "rename" /\ entry'[n] = entry[Temp(p)]
    <3>1. source[p][Name(p)] \in Texts
      BY <2>3, NameOnTask DEF CallTypes
    <3>2. entry'[n] = File(source[p][Name(p)], "asked")
      BY <2>3 DEF TempIsReady
    <3> QED BY <3>1, <3>2, FileFacts
  <2>4. CASE entry'[n] = Absent
    BY <2>4, FileFacts
  <2> QED BY <1>3, <1>4, <2>1, <2>2, <2>3, <2>4, CallTouches
<1>5. ASSUME NEW p \in Procs, NEW j \in Jobs, NEW t \in Texts,
             NEW here \in BOOLEAN, Start(p, j, t, here)
      PROVE  Whole(entry'[n])
  BY <1>1, <1>5 DEF Start
<1>6. ASSUME NEW m \in Names, NEW e \in Users, Meddle(m, e)
      PROVE  Whole(entry'[n])
  <2>1. Whole(e)
    <3>1. CASE e \in {Absent, Directory, Symlink}
      BY <3>1, FileFacts
    <3>2. CASE \E t \in Texts : e = File(t, "asked")
      BY <3>2, FileFacts
    <3> QED BY <3>1, <3>2 DEF Users
  <2>2. entry' = [entry EXCEPT ![m] = e]
    BY <1>6 DEF Meddle
  <2>3. entry'[n] = e \/ entry'[n] = entry[n]
    BY <1>3, <2>2 DEF DirTypes
  <2> QED BY <1>1, <2>1, <2>3
<1> QED BY <1>4, <1>5, <1>6 DEF Next

-----------------------------------------------------------------------------
(* What an exit code of 0 rests on *)

RemoveSteps == {"list", "stat", "unlink", "rmdir"}
Puts(p) == job[p] \in {"put", "put unless git"}
Installed(p, n) == entry[n] = File(source[p][n], "asked")
Gone(n) == entry[n] \in {Absent, Directory}

\* a directory that is not there holds nothing, and a call that may make an
\* entry has one open
Opened(p) ==
    /\ pc[p] \in PutSteps \ {"walk"} => fd[p] # 0
    /\ pc[p] = "copy" => entry[Temp(p)] # Absent
NothingNowhere == dir = 0 => \A s \in Slots : entry[s] = Absent

\* what a call has done so far, of what nobody else touched
PutEarned(p) ==
    /\ pc[p] \in PutSteps \ {"walk"} => Puts(p)
    /\ pc[p] \in PutSteps /\ Puts(p) =>
          \A n \in (Given \ todo[p]) \ others[p] : Installed(p, n)
    /\ pc[p] \in {"walk", "compare"} /\ inPlace[p] =>
          \A n \in Given \ others[p] : Installed(p, n)
RemoveEarned(p) ==
    /\ pc[p] \in RemoveSteps => ~Puts(p)
    /\ pc[p] \in {"walk"} \cup RemoveSteps /\ ~Puts(p) =>
          \A n \in (Given \ todo[p]) \ others[p] : Gone(n)
    /\ pc[p] \in {"stat", "unlink", "rmdir"} =>
          \A n \in ((Matching \ missed[p]) \ todo[p]) \ others[p] : Gone(n)
    /\ pc[p] \in RemoveSteps /\ fd[p] # dir =>
          \A n \in (Given \cup Matching) \ others[p] : Gone(n)
    /\ pc[p] = "rmdir" => todo[p] = {}
TrueAtExit(p) ==
    pc[p] = "exited" /\ code[p] = 0 =>
        /\ Puts(p) => \A n \in Given \ others[p] : Installed(p, n)
        /\ ~Puts(p) =>
              \A n \in (Given \cup (Matching \ missed[p])) \ others[p] : Gone(n)
Earned(p) == PutEarned(p) /\ RemoveEarned(p) /\ TrueAtExit(p)

EInv ==
    /\ NothingNowhere
    /\ \A p \in Procs : Opened(p) /\ Earned(p)

LEMMA TempsApart ==
    ASSUME CallTypes, OnTask, NEW p \in Procs, NEW q \in Procs, q # p,
           pc[q] \in {"create", "copy", "seal", "rename"}
    PROVE  /\ Temp(q) \in Slots /\ Temp(q) # Temp(p)
           /\ pc[p] \in {"rename", "unlink"} => Temp(q) # Name(p)
<1>1. Temp(q) \in Slots /\ Temp(q) \notin Names
  BY NameOnTask
<1>2. Temp(q) # Temp(p)
  BY DEF Temp
<1>3. pc[p] \in {"rename", "unlink"} => Name(p) \in Names
  BY NameOnTask
<1> QED BY <1>1, <1>2, <1>3

LEMMA OthersKnow ==
    ASSUME DirTypes, CallTypes, BoundTypes, OnTask, NEW p \in Procs, Call(p)
    PROVE  /\ others'[p] = others[p]
           /\ \A q \in Procs : q # p =>
                 /\ others[q] \subseteq others'[q]
                 /\ \A s \in Slots : entry'[s] = entry[s] \/ s \in others'[q]
<1> DEFINE Known == /\ others'[p] = others[p]
                    /\ \A q \in Procs : q # p =>
                          /\ others[q] \subseteq others'[q]
                          /\ \A s \in Slots : \/ entry'[s] = entry[s]
                                              \/ s \in others'[q]
<1>1. ASSUME Stays PROVE Known
  BY <1>1 DEF Stays
<1>2. ASSUME NEW s, NEW e, Becomes(p, s, e) PROVE Known
  BY <1>2 DEF Becomes, DirTypes, BoundTypes
<1>3. CASE Walk(p) \/ Compare(p) \/ Checkout(p) \/ Target(p) \/ List(p)
           \/ Stat(p) \/ Rmdir(p) \/ Kill(p)
  <2>1. entry' = entry /\ others' = others
    BY <1>3 DEF Walk, Compare, Checkout, Target, List, Stat, Rmdir, Kill, Stays
  <2> QED BY <2>1
<1>4. CASE Create(p) \/ Copy(p) \/ Seal(p) \/ Unlink(p)
  BY <1>1, <1>2, <1>4 DEF Create, Copy, Seal, Unlink, Fail
<1>5. CASE Rename(p)
  <2>1. CASE entry[Name(p)] = Directory
    BY <1>2, <1>5, <2>1 DEF Rename, Fail
  <2>2. CASE entry[Name(p)] # Directory
    <3>1. /\ entry' = [entry EXCEPT ![Name(p)] = entry[Temp(p)],
                                    ![Temp(p)] = Absent]
          /\ others' = [q \in Procs |->
                          IF q = p THEN others[q]
                                   ELSE others[q] \cup {Name(p), Temp(p)}]
      BY <1>5, <2>2 DEF Rename
    <3>2. \A s \in Slots : s # Name(p) /\ s # Temp(p) => entry'[s] = entry[s]
      BY <3>1 DEF DirTypes
    <3> QED BY <3>1, <3>2
  <2> QED BY <2>1, <2>2
<1> QED BY <1>3, <1>4, <1>5 DEF Call

\* the directory is made, or removed, only with nothing in it
LEMMA DirMoves ==
    ASSUME NothingNowhere, Next
    PROVE  \/ dir' = dir
           \/ entry' = entry /\ (\A s \in Slots : entry[s] = Absent)
<1>1. ASSUME NEW p \in Procs, Walk(p)
      PROVE  dir' = dir \/ (dir = 0 /\ entry' = entry)
  BY <1>1 DEF Walk, Stays
<1>2. ASSUME NEW p \in Procs, Rmdir(p)
      PROVE  \/ dir' = dir
             \/ entry' = entry /\ (\A s \in Slots : entry[s] = Absent)
  BY <1>2 DEF Rmdir, Stays
<1>3. ASSUME NEW p \in Procs,
             Compare(p) \/ Checkout(p) \/ Target(p) \/ Create(p) \/ Copy(p)
             \/ Seal(p) \/ Rename(p) \/ List(p) \/ Stat(p) \/ Unlink(p)
             \/ Kill(p)
      PROVE  dir' = dir
  BY <1>3 DEF Compare, Checkout, Target, Create, Copy, Seal, Rename, List,
              Stat, Unlink, Kill, Stays, Fail
<1>4. ASSUME NEW p \in Procs, NEW j \in Jobs, NEW t \in Texts,
             NEW here \in BOOLEAN, Start(p, j, t, here)
      PROVE  dir' = dir
  BY <1>4 DEF Start
<1>5. ASSUME NEW n \in Names, NEW e \in Users, Meddle(n, e)
      PROVE  dir' = dir
  BY <1>5 DEF Meddle
<1> QED BY <1>1, <1>2, <1>3, <1>4, <1>5 DEF Next, Call, NothingNowhere

LEMMA NothingNowhereNext ==
    ASSUME DirTypes, CallTypes, OnTask, TempIsReady, NothingNowhere,
           \A p \in Procs : Opened(p), Next
    PROVE  NothingNowhere'
<1>1. CASE dir' # dir
  BY <1>1, DirMoves DEF NothingNowhere
<1>2. CASE dir' = dir
  <2>1. SUFFICES ASSUME dir = 0, NEW s \in Slots PROVE entry'[s] = Absent
    BY <1>2, <2>1 DEF NothingNowhere
  <2>2. \A x \in Slots : entry[x] = Absent
    BY <2>1 DEF NothingNowhere
  <2>3. ASSUME NEW p \in Procs, Call(p) PROVE entry'[s] = Absent
    <3>1. pc[p] \in {"create", "copy", "seal", "rename"} =>
              /\ Temp(p) \in Slots /\ Name(p) \in Given
              /\ source[p][Name(p)] \in Texts
      BY NameOnTask DEF CallTypes
    <3>2. pc[p] \notin {"copy", "seal", "rename"}
      <4>1. pc[p] # "copy"
        BY <2>2, <3>1 DEF Opened
      <4>2. pc[p] \in {"seal", "rename"} => entry[Temp(p)].kind = "file"
        BY <3>1, FileFacts DEF TempIsReady
      <4> QED BY <2>2, <3>1, <4>1, <4>2, FileFacts
    <3>3. CASE Create(p)
      BY <2>1, <2>2, <3>3 DEF Create, Reaches, Opened, Stays, PutSteps
    <3>4. CASE Kill(p)
      BY <2>2, <3>4 DEF Kill, Stays
    <3>5. CASE ~Create(p) /\ ~Kill(p)
      <4>1. pc[p] # "create"
        BY <2>3, <3>5 DEF Call, Walk, Compare, Checkout, Target, Copy, Seal,
                          Rename, List, Stat, Unlink, Rmdir
      <4> QED BY <2>2, <2>3, <3>2, <4>1, CallTouches
    <3> QED BY <3>3, <3>4, <3>5
  <2>4. ASSUME NEW p \in Procs, NEW j \in Jobs, NEW t \in Texts,
               NEW here \in BOOLEAN, Start(p, j, t, here)
        PROVE  entry'[s] = Absent
    BY <2>2, <2>4 DEF Start
  <2>5. ASSUME NEW n \in Names, NEW e \in Users, Meddle(n, e) PROVE FALSE
    BY <2>1, <2>5 DEF Meddle
  <2> QED BY <2>3, <2>4, <2>5 DEF Next
<1> QED BY <1>1, <1>2

LEMMA OpenedNext ==
    ASSUME DirTypes, CallTypes, OnTask, NEW q \in Procs, Opened(q), Next
    PROVE  Opened(q)'
<1>1. ASSUME UNCHANGED <<pc[q], todo[q], fd[q]>>,
             pc[q] = "copy" => entry'[Temp(q)] = entry[Temp(q)]
      PROVE  Opened(q)'
  <2>1. Temp(q)' = Temp(q)
    BY <1>1 DEF Temp, Name
  <2> QED BY <1>1, <2>1 DEF Opened
<1>2. ASSUME NEW p \in Procs, Call(p), p # q PROVE Opened(q)'
  <2>1. UNCHANGED <<pc[q], todo[q], fd[q]>>
    BY <1>2, CallLeavesCalls
  <2>2. pc[q] = "copy" => entry'[Temp(q)] = entry[Temp(q)]
    BY <1>2, CallTouches, TempsApart
  <2> QED BY <1>1, <2>1, <2>2
<1>3. ASSUME Call(q) PROVE Opened(q)'
  <2> USE DEF Exit, Continue, Skip, Goto, CallTypes, Opened, PutSteps
  <2>1. CASE Walk(q)
    <3>1. made + 1 # 0
      BY DEF DirTypes
    <3> QED BY <2>1, <3>1 DEF Walk
  <2>2. CASE Compare(q) \/ Checkout(q) \/ Target(q)
    BY <2>2 DEF Compare, Checkout, Target
  <2>3. CASE Create(q)
    <3>1. CASE pc'[q] = "copy"
      <4>1. /\ entry' = [entry EXCEPT ![Temp(q)] = File(Part, "private")]
            /\ pc[q] = "create" /\ UNCHANGED <<todo, fd>>
        BY <2>3, <3>1 DEF Create, Becomes
      <4>2. Temp(q) \in Slots
        BY <2>3, NameOnTask DEF Create
      <4>3. Temp(q)' = Temp(q)
        BY <4>1 DEF Temp, Name
      <4>4. File(Part, "private") # Absent
        BY DEF File, Absent
      <4> QED BY <3>1, <4>1, <4>2, <4>3, <4>4 DEF DirTypes
    <3>2. CASE pc'[q] # "copy"
      BY <2>3, <3>2 DEF Create
    <3> QED BY <3>1, <3>2
  <2>4. CASE Copy(q) \/ Seal(q)
    BY <2>4 DEF Copy, Seal, Fail
  <2>5. CASE Rename(q) \/ Unlink(q)
    <3>1. /\ pc'[q] \in {"exited", "target", "stat"}
          /\ pc'[q] = "target" => pc[q] = "rename"
          /\ fd' = fd
      BY <2>5 DEF Rename, Unlink, Fail
    <3> QED BY <3>1
  <2>6. CASE List(q) \/ Stat(q) \/ Rmdir(q) \/ Kill(q)
    BY <2>6 DEF List, Reported, Stat, Rmdir, Kill
  <2> QED BY <1>3, <2>1, <2>2, <2>3, <2>4, <2>5, <2>6 DEF Call
<1>4. ASSUME NEW p \in Procs, NEW j \in Jobs, NEW t \in Texts,
             NEW here \in BOOLEAN, Start(p, j, t, here)
      PROVE  Opened(q)'
  <2>1. CASE p = q
    BY <1>4, <2>1 DEF Start, Goto, CallTypes, Opened
  <2>2. CASE p # q
    <3>1. UNCHANGED <<pc[q], todo[q], fd[q]>> /\ entry' = entry
      BY <1>4, <2>2, CallLeavesCalls DEF Start
    <3> QED BY <1>1, <3>1
  <2> QED BY <2>1, <2>2
<1>5. ASSUME NEW n \in Names, NEW e \in Users, Meddle(n, e)
      PROVE  Opened(q)'
  <2>1. /\ UNCHANGED <<pc, todo, fd>>
        /\ entry' = [entry EXCEPT ![n] = e]
    BY <1>5 DEF Meddle, callVars
  <2>2. pc[q] = "copy" => entry'[Temp(q)] = entry[Temp(q)]
    BY <2>1, NameOnTask DEF DirTypes
  <2> QED BY <1>1, <2>1, <2>2
<1> QED BY <1>2, <1>3, <1>4, <1>5 DEF Next

\* what others do takes nothing away
LEMMA EarnedKept ==
    ASSUME NEW q \in Procs, Earned(q),
           UNCHANGED <<pc[q], job[q], todo[q], code[q], fd[q], source[q],
                       inPlace[q], missed[q]>>,
           others[q] \subseteq others'[q],
           \A n \in Names : entry'[n] = entry[n] \/ n \in others'[q],
           \/ dir' = dir
           \/ \A n \in Names : entry'[n] = Absent
    PROVE  Earned(q)'
<1>1. Given \subseteq Names /\ Matching \subseteq Names
  BY SlotFacts
<1>2. /\ Puts(q)' <=> Puts(q)
      /\ \A n \in Names \ others'[q] :
            /\ n \notin others[q]
            /\ Installed(q, n) => Installed(q, n)'
            /\ Gone(n) => Gone(n)'
            /\ dir' # dir => Gone(n)'
  BY DEF Puts, Installed, Gone
<1>3. PutEarned(q)'
  BY <1>1, <1>2 DEF Earned, PutEarned
<1>4. RemoveEarned(q)'
  BY <1>1, <1>2 DEF Earned, RemoveEarned
<1>5. TrueAtExit(q)'
  BY <1>1, <1>2 DEF Earned, TrueAtExit
<1> QED BY <1>3, <1>4, <1>5 DEF Earned

LEMMA NotZeroIsEarned ==
    ASSUME NEW p \in Procs,
           pc'[p] = "killed" \/ (pc'[p] = "exited" /\ code'[p] # 0)
    PROVE  Earned(p)'
BY DEF Earned, PutEarned, RemoveEarned, TrueAtExit, PutSteps, RemoveSteps

\* a step of put that changes no name, and is not the last one
LEMMA PutGoesOn ==
    ASSUME NEW p \in Procs, PutEarned(p), Puts(p), pc[p] \in PutSteps,
           UNCHANGED <<job, todo, source, inPlace>>, others'[p] = others[p],
           \A n \in Names : entry'[n] = entry[n],
           pc'[p] \in PutSteps \ {"walk"},
           pc'[p] = "compare" => pc[p] = "walk"
    PROVE  Earned(p)'
<1>1. Puts(p)' /\ Given \subseteq Names
  BY SlotFacts DEF Puts
<1>2. \A n \in Names : Installed(p, n) => Installed(p, n)'
  BY DEF Installed
<1>3. pc'[p] \notin RemoveSteps \cup {"walk", "exited"}
  BY DEF PutSteps, RemoveSteps
<1>4. PutEarned(p)'
  BY <1>1, <1>2 DEF PutEarned
<1>5. RemoveEarned(p)' /\ TrueAtExit(p)'
  BY <1>3 DEF RemoveEarned, TrueAtExit, RemoveSteps
<1> QED BY <1>4, <1>5 DEF Earned

LEMMA PutEarns ==
    ASSUME DirTypes, CallTypes, OnTask, TempIsReady, NEW p \in Procs,
           Earned(p), others'[p] = others[p],
           Compare(p) \/ Checkout(p) \/ Target(p) \/ Create(p) \/ Copy(p)
           \/ Seal(p) \/ Rename(p)
    PROVE  Earned(p)'
<1> USE DEF Exit, Continue, Skip, Goto, CallTypes
<1>t. pc[p] \in {"create", "copy", "seal", "rename"} =>
          /\ Name(p) \in Given /\ Name(p) \in Names
          /\ Temp(p) \in Slots /\ Temp(p) \notin Names
  BY NameOnTask
<1>g. Given \subseteq Names /\ Names \subseteq Slots
  BY SlotFacts
<1>p. pc[p] \in PutSteps \ {"walk"} /\ Puts(p) /\ PutEarned(p)
  BY DEF Compare, Checkout, Target, Create, Copy, Seal, Rename, Earned,
         PutEarned, PutSteps
<1>1. CASE Compare(p)
  <2>1. CASE pc'[p] = "exited"
    <3>1. /\ inPlace[p] /\ pc[p] = "compare"
          /\ UNCHANGED <<entry, job, source>>
      BY <1>1, <2>1 DEF Compare, Stays
    <3>2. \A n \in Given \ others[p] : Installed(p, n)'
      BY <3>1, <1>p DEF PutEarned, Installed
    <3>3. Puts(p)'
      BY <1>p, <3>1 DEF Puts
    <3> QED BY <2>1, <3>2, <3>3 DEF Earned, PutEarned, RemoveEarned, TrueAtExit, PutSteps,
               RemoveSteps
  <2>2. CASE pc'[p] # "exited"
    <3>1. /\ UNCHANGED <<job, todo, source, inPlace, entry>>
          /\ pc'[p] \in {"target", "git"}
      BY <1>1, <2>2 DEF Compare, Stays
    <3> QED BY <3>1, <1>p, PutGoesOn DEF PutSteps
  <2> QED BY <2>1, <2>2
<1>2. CASE Checkout(p)
  <2>1. CASE pc'[p] = "exited"
    <3>1. code'[p] = 3
      BY <1>2, <2>1 DEF Checkout
    <3> QED BY <2>1, <3>1, NotZeroIsEarned
  <2>2. CASE pc'[p] # "exited"
    <3>1. UNCHANGED <<job, todo, source, inPlace, entry>> /\ pc'[p] = "target"
      BY <1>2, <2>2 DEF Checkout, Stays
    <3> QED BY <3>1, <1>p, PutGoesOn DEF PutSteps
  <2> QED BY <2>1, <2>2
<1>3. CASE Target(p)
  <2>1. CASE pc'[p] = "exited" /\ code'[p] # 0
    BY <2>1, NotZeroIsEarned
  <2>2. CASE pc'[p] = "exited" /\ code'[p] = 0
    <3>1. todo[p] = {} /\ UNCHANGED <<entry, job, source>>
      BY <1>3, <2>2 DEF Target, Stays
    <3>2. \A n \in Given \ others[p] : Installed(p, n)'
      BY <3>1, <1>p DEF PutEarned, Installed
    <3>3. Puts(p)'
      BY <1>p, <3>1 DEF Puts
    <3> QED BY <2>2, <3>2, <3>3 DEF Earned, PutEarned, RemoveEarned, TrueAtExit, PutSteps,
               RemoveSteps
  <2>3. CASE pc'[p] # "exited"
    <3>1. UNCHANGED <<job, todo, source, inPlace, entry>> /\ pc'[p] = "create"
      BY <1>3, <2>3 DEF Target, Stays
    <3> QED BY <3>1, <1>p, PutGoesOn DEF PutSteps
  <2> QED BY <2>1, <2>2, <2>3
<1>4. CASE Create(p) \/ Copy(p) \/ Seal(p)
  <2>1. CASE pc'[p] = "exited"
    <3>1. code'[p] = 1
      BY <1>4, <2>1 DEF Create, Copy, Seal, Fail
    <3> QED BY <2>1, <3>1, NotZeroIsEarned
  <2>2. CASE pc'[p] # "exited"
    <3>1. UNCHANGED <<job, todo, source, inPlace>>
          /\ pc'[p] \in {"copy", "seal", "rename"}
      BY <1>4, <2>2 DEF Create, Copy, Seal, Fail
    <3>2. \E e : entry' = [entry EXCEPT ![Temp(p)] = e]
      BY <1>4, <2>2 DEF Create, Copy, Seal, Fail, Becomes
    <3>3. \A n \in Names : entry'[n] = entry[n]
      BY <1>4, <3>2, <1>t, <1>g DEF Create, Copy, Seal, DirTypes
    <3> QED BY <3>1, <3>3, <1>p, PutGoesOn DEF PutSteps
  <2> QED BY <2>1, <2>2
<1>5. CASE Rename(p)
  <2>1. CASE entry[Name(p)] = Directory
    BY <1>5, <2>1, NotZeroIsEarned DEF Rename, Fail
  <2>2. CASE entry[Name(p)] # Directory
    <3>1. /\ pc[p] = "rename" /\ pc'[p] = "target"
          /\ todo'[p] = todo[p] \ {Name(p)}
          /\ UNCHANGED <<job, source, inPlace>>
          /\ entry' = [entry EXCEPT ![Name(p)] = entry[Temp(p)],
                                    ![Temp(p)] = Absent]
      BY <1>5, <2>2 DEF Rename
    <3>2. entry'[Name(p)] = File(source[p][Name(p)], "asked")
      BY <3>1, <1>t, <1>g DEF DirTypes, TempIsReady
    <3>3. \A n \in Names : n # Name(p) => entry'[n] = entry[n]
      BY <3>1, <1>t, <1>g DEF DirTypes
    <3>4. \A n \in (Given \ todo'[p]) \ others[p] : Installed(p, n)'
      BY <3>1, <3>2, <3>3, <1>p, <1>g DEF PutEarned, Installed
    <3>5. Puts(p)'
      BY <1>p, <3>1 DEF Puts
    <3> QED BY <3>1, <3>4, <3>5 DEF Earned, PutEarned, RemoveEarned, TrueAtExit, PutSteps,
               RemoveSteps
  <2> QED BY <2>1, <2>2
<1> QED BY <1>1, <1>2, <1>3, <1>4, <1>5

LEMMA RemoveEarns ==
    ASSUME DirTypes, CallTypes, OnTask, NEW p \in Procs,
           Earned(p), others'[p] = others[p],
           List(p) \/ Stat(p) \/ Unlink(p)
    PROVE  Earned(p)'
<1> USE DEF Exit, Continue, Skip, Goto, CallTypes
<1>g. Given \subseteq Names /\ Matching \subseteq Names /\ Names \subseteq Slots
  BY SlotFacts
<1>p. pc[p] \in RemoveSteps /\ ~Puts(p) /\ RemoveEarned(p)
  BY DEF List, Stat, Unlink, Earned, RemoveEarned, RemoveSteps
<1>d. dir' = dir
  BY DEF List, Stat, Unlink, Stays
<1>a. \A n \in (Given \cup Matching) \ others[p] :
          At(p, n) \in {Absent, Directory} => Gone(n)
  BY <1>p DEF At, Reaches, Gone, RemoveEarned
<1>e. ASSUME UNCHANGED <<job, fd>>, pc'[p] \in {"stat", "unlink", "rmdir"},
             \A n \in Names : Gone(n) => Gone(n)',
             \A n \in ((Given \cup (Matching \ missed'[p])) \ todo'[p]) \ others[p] : Gone(n)',
             pc'[p] = "rmdir" => todo'[p] = {}
      PROVE  Earned(p)'
  <2>1. ~Puts(p)'
    BY <1>e, <1>p DEF Puts
  <2>2. fd'[p] # dir' =>
            \A n \in (Given \cup Matching) \ others[p] : Gone(n)'
    BY <1>e, <1>d, <1>p, <1>g DEF RemoveEarned
  <2> QED BY <1>e, <2>1, <2>2 DEF Earned, PutEarned, RemoveEarned, TrueAtExit, PutSteps,
             RemoveSteps
<1>1. CASE List(p)
  <2> DEFINE there == {n \in Matching : At(p, n) # Absent}
  <2>1. CASE Exit(p, 1)
    BY <2>1, NotZeroIsEarned
  <2>2. ASSUME NEW seen \in SUBSET there, Reported(p, seen, there)
        PROVE  Earned(p)'
    <3>1. pc[p] = "list" /\ entry' = entry
      BY <1>1, ListEnds DEF Stays
    <3>2. /\ pc'[p] = "stat" /\ UNCHANGED <<job, fd>>
          /\ todo'[p] = todo[p] \cup seen /\ missed'[p] = there \ seen
      BY <2>2 DEF Reported
    <3>3. \A n \in Names : Gone(n)' <=> Gone(n)
      BY <3>1 DEF Gone
    <3>4. ASSUME NEW n \in (Given \ todo[p]) \ others[p] PROVE Gone(n)
      BY <1>p, <3>1, <3>4 DEF RemoveEarned
    <3>5. ASSUME NEW n \in ((Matching \ missed'[p]) \ todo'[p]) \ others[p]
          PROVE  Gone(n)
      <4>1. At(p, n) = Absent
        BY <3>2, <3>5
      <4> QED BY <1>a, <3>5, <4>1
    <3>6. \A n \in ((Given \cup (Matching \ missed'[p])) \ todo'[p]) \ others[p] :
             Gone(n)
      BY <3>2, <3>4, <3>5
    <3> QED BY <1>e, <1>g, <3>2, <3>3, <3>6
  <2> QED BY <1>1, <2>1, <2>2, ListEnds
<1>k. ASSUME pc[p] \in {"stat", "unlink"}
      PROVE  \A n \in ((Given \cup (Matching \ missed[p])) \ todo[p]) \ others[p] : Gone(n)
  BY <1>k, <1>p DEF RemoveEarned
<1>2. CASE Stat(p)
  <2>1. pc[p] = "stat" /\ UNCHANGED <<job, fd, entry, missed>>
    BY <1>2 DEF Stat, Stays
  <2>2. \A n \in Names : Gone(n)' <=> Gone(n)
    BY <2>1 DEF Gone
  <2>7. CASE pc'[p] = "exited" /\ code'[p] # 0
    BY <2>7, NotZeroIsEarned
  <2>3. CASE pc'[p] = "exited" /\ code'[p] = 0
    <3>0. Exit(p, 1) => FALSE
      BY <2>3
    <3>1. todo[p] = {}
      BY <1>2, <2>3, <3>0 DEF Stat
    <3>2. \A n \in (Given \cup (Matching \ missed[p])) \ others[p] : Gone(n)'
      BY <1>k, <1>g, <2>1, <2>2, <3>1
    <3>3. ~Puts(p)'
      BY <1>p, <2>1 DEF Puts
    <3> QED BY <2>1, <2>3, <3>2, <3>3 DEF Earned, PutEarned, RemoveEarned, TrueAtExit, PutSteps,
               RemoveSteps
  <2>4. CASE pc'[p] \in {"unlink", "rmdir"}
    <3>1. todo' = todo /\ (pc'[p] = "rmdir" => todo[p] = {})
      BY <1>2, <2>4 DEF Stat
    <3> QED BY <1>e, <1>k, <1>g, <2>1, <2>2, <2>4, <3>1
  <2>5. CASE pc'[p] = "stat"
    <3>1. /\ todo'[p] = todo[p] \ {Name(p)}
          /\ At(p, Name(p)) \in {Absent, Directory}
      BY <1>2, <2>5 DEF Stat
    <3>2. \A n \in ((Given \cup (Matching \ missed[p])) \ todo'[p]) \ others[p] : Gone(n)
      BY <1>k, <1>a, <2>1, <3>1
    <3> QED BY <1>e, <1>g, <2>1, <2>2, <2>5, <3>1, <3>2
  <2>6. pc'[p] \in {"exited", "unlink", "rmdir", "stat"}
    BY <1>2 DEF Stat
  <2> QED BY <2>3, <2>4, <2>5, <2>6, <2>7
<1>3. CASE Unlink(p)
  <2>1. CASE pc'[p] = "exited"
    <3>1. code'[p] = 1
      BY <1>3, <2>1 DEF Unlink
    <3> QED BY <2>1, <3>1, NotZeroIsEarned
  <2>2. CASE pc'[p] # "exited"
    <3>1. /\ pc[p] = "unlink" /\ pc'[p] = "stat" /\ UNCHANGED <<job, fd, missed>>
          /\ todo'[p] = todo[p] \ {Name(p)}
          /\ entry' = [entry EXCEPT ![Name(p)] = Absent]
      BY <1>3, <2>2 DEF Unlink, Becomes
    <3>2. Name(p) \in Names
      BY <3>1, NameOnTask
    <3>3. /\ entry'[Name(p)] = Absent
          /\ \A n \in Names : n # Name(p) => entry'[n] = entry[n]
      BY <3>1, <3>2, <1>g DEF DirTypes
    <3>4. \A n \in ((Given \cup (Matching \ missed[p])) \ todo'[p]) \ others[p] : Gone(n)'
      BY <1>k, <1>g, <3>1, <3>3 DEF Gone
    <3>5. \A n \in Names : Gone(n) => Gone(n)'
      BY <3>3 DEF Gone
    <3> QED BY <1>e, <3>1, <3>4, <3>5
  <2> QED BY <2>1, <2>2
<1> QED BY <1>1, <1>2, <1>3

LEMMA OwnEarned ==
    ASSUME DirTypes, CallTypes, BoundTypes, OnTask, TempIsReady,
           NothingNowhere, NEW p \in Procs, Earned(p), Call(p)
    PROVE  Earned(p)'
<1> USE DEF Exit, Continue, Skip, Goto, CallTypes
<1>o. others'[p] = others[p]
  BY OthersKnow
<1>g. Given \subseteq Names /\ Matching \subseteq Names /\ Names \subseteq Slots
  BY SlotFacts
<1>1. CASE Walk(p)
  <2>1. /\ pc[p] = "walk" /\ entry' = entry /\ UNCHANGED <<job, source, inPlace, todo>>
        /\ \/ pc'[p] = (IF Puts(p) THEN "compare" ELSE "list") /\ fd'[p] = dir'
           \/ pc'[p] = "exited" /\ code'[p] = 1
           \/ pc'[p] = "exited" /\ dir = 0 /\ ~Puts(p)
    BY <1>1 DEF Walk, Stays, Puts
  <2>2. CASE pc'[p] = "exited" /\ code'[p] = 1
    BY <2>2, NotZeroIsEarned
  <2>3. CASE pc'[p] = "exited" /\ dir = 0 /\ ~Puts(p)
    <3>1. \A n \in Names : Gone(n)'
      BY <1>g, <2>1, <2>3 DEF NothingNowhere, Gone
    <3>2. ~Puts(p)'
      BY <2>1, <2>3 DEF Puts
    <3> QED BY <1>g, <2>3, <3>1, <3>2 DEF Earned, PutEarned, RemoveEarned, TrueAtExit,
               PutSteps, RemoveSteps
  <2>4. CASE pc'[p] = "compare" /\ Puts(p)
    BY <1>o, <2>1, <2>4, PutGoesOn DEF Earned, PutSteps
  <2>5. CASE pc'[p] = "list" /\ fd'[p] = dir' /\ ~Puts(p)
    <3>1. \A n \in (Given \ todo'[p]) \ others'[p] : Gone(n)'
      BY <1>o, <2>1, <2>5 DEF Earned, RemoveEarned, Gone
    <3>2. ~Puts(p)'
      BY <2>1, <2>5 DEF Puts
    <3> QED BY <2>5, <3>1, <3>2 DEF Earned, PutEarned, RemoveEarned, TrueAtExit, PutSteps,
               RemoveSteps
  <2> QED BY <2>1, <2>2, <2>3, <2>4, <2>5
<1>2. CASE Compare(p) \/ Checkout(p) \/ Target(p) \/ Create(p) \/ Copy(p)
           \/ Seal(p) \/ Rename(p)
  BY <1>2, <1>o, PutEarns
<1>3. CASE List(p) \/ Stat(p) \/ Unlink(p)
  BY <1>3, <1>o, RemoveEarns
<1>4. CASE Rmdir(p)
  <2>1. /\ pc[p] = "rmdir" /\ pc'[p] = "exited" /\ UNCHANGED <<entry, job, missed>>
    BY <1>4 DEF Rmdir, Stays
  <2>2. \A n \in (Given \cup (Matching \ missed[p])) \ others[p] : Gone(n)'
    BY <2>1 DEF Earned, RemoveEarned, Gone, RemoveSteps
  <2>3. ~Puts(p)'
    BY <2>1 DEF Earned, RemoveEarned, RemoveSteps, Puts
  <2> QED BY <1>o, <2>1, <2>2, <2>3
             DEF Earned, PutEarned, RemoveEarned, TrueAtExit, PutSteps, RemoveSteps
<1>5. CASE Kill(p)
  BY <1>5, NotZeroIsEarned DEF Kill
<1> QED BY <1>1, <1>2, <1>3, <1>4, <1>5 DEF Call

LEMMA StartEarned ==
    ASSUME DirTypes, CallTypes, BoundTypes, OnlyWholeFiles, NEW p \in Procs,
           NEW j \in Jobs, NEW t \in Texts, NEW here \in BOOLEAN,
           Start(p, j, t, here)
    PROVE  Earned(p)'
<1>1. /\ pc'[p] = "walk" /\ todo'[p] = Given /\ entry' = entry
      /\ inPlace'[p] = here
      /\ source'[p] = [n \in Given |-> IF here THEN entry[n].text ELSE t]
      /\ here => \A n \in Given : entry[n].kind = "file"
  BY DEF Start, Goto, CallTypes
<1>2. ASSUME here, NEW n \in Given PROVE Installed(p, n)'
  <2>1. entry[n] \in Entries /\ entry[n].kind = "file" /\ n \in Names
    BY <1>1, <1>2, SlotFacts DEF DirTypes
  <2>2. entry[n] \in Files
    BY <2>1, FileFacts DEF Entries
  <2>3. entry[n] = File(entry[n].text, "asked")
    BY <2>1, <2>2 DEF Files, File, OnlyWholeFiles
  <2> QED BY <1>1, <1>2, <2>3 DEF Installed
<1> QED BY <1>1, <1>2
           DEF Earned, PutEarned, RemoveEarned, TrueAtExit, PutSteps, RemoveSteps

LEMMA EarnedNext ==
    ASSUME DirTypes, CallTypes, BoundTypes, OnTask, TempIsReady,
           OnlyWholeFiles, NothingNowhere, NEW q \in Procs, Earned(q), Next
    PROVE  Earned(q)'
<1>g. Names \subseteq Slots
  BY SlotFacts
<1>d. \/ dir' = dir
      \/ \A n \in Names : entry'[n] = Absent
  BY <1>g, DirMoves
<1>1. ASSUME NEW p \in Procs, Call(p), p # q PROVE Earned(q)'
  <2>1. UNCHANGED <<pc[q], job[q], todo[q], code[q], fd[q], source[q],
                    inPlace[q], missed[q]>>
    BY <1>1, CallLeavesCalls
  <2>2. /\ others[q] \subseteq others'[q]
        /\ \A n \in Names : entry'[n] = entry[n] \/ n \in others'[q]
    BY <1>1, <1>g, OthersKnow
  <2> QED BY <1>d, <2>1, <2>2, EarnedKept
<1>2. ASSUME Call(q) PROVE Earned(q)'
  BY <1>2, OwnEarned
<1>3. ASSUME NEW p \in Procs, NEW j \in Jobs, NEW t \in Texts,
             NEW here \in BOOLEAN, Start(p, j, t, here)
      PROVE  Earned(q)'
  <2>1. CASE p = q
    BY <1>3, <2>1, StartEarned
  <2>2. CASE p # q
    <3>1. UNCHANGED <<pc[q], job[q], todo[q], code[q], fd[q], source[q],
                      inPlace[q], missed[q]>>
      BY <1>3, <2>2, CallLeavesCalls
    <3>2. entry' = entry /\ others'[q] = others[q]
      BY <1>3, <2>2 DEF Start, BoundTypes
    <3> QED BY <1>d, <3>1, <3>2, EarnedKept
  <2> QED BY <2>1, <2>2
<1>4. ASSUME NEW n \in Names, NEW e \in Users, Meddle(n, e)
      PROVE  Earned(q)'
  <2>1. /\ UNCHANGED <<pc, job, todo, code, fd, source, inPlace, missed>>
        /\ entry' = [entry EXCEPT ![n] = e]
        /\ others'[q] = others[q] \cup {n}
    BY <1>4 DEF Meddle, callVars
  <2>2. \A m \in Names : entry'[m] = entry[m] \/ m \in others'[q]
    BY <1>g, <2>1 DEF DirTypes
  <2> QED BY <1>d, <2>1, <2>2, EarnedKept
<1> QED BY <1>1, <1>2, <1>3, <1>4 DEF Next

-----------------------------------------------------------------------------
(* The temporaries that are left *)

Strays == {t \in Temps : entry[t] # Absent /\ ~InUse(t)}
FewStrays == IsFiniteSet(Strays) /\ Cardinality(Strays) <= faults

LEMMA TempFacts ==
    /\ Temps \subseteq Slots /\ Temps \cap Names = {} /\ Names \subseteq Slots
    /\ \A t \in Temps : t[2] \in Procs
BY DeployAssumption DEF Slots, Temps

\* a temporary that nobody works on stays one, where its call stands still
LEMMA StrayKept ==
    ASSUME NEW t \in Temps, t \in Strays', entry'[t] = entry[t],
           \/ UNCHANGED <<pc[t[2]], todo[t[2]]>>
           \/ ~InUse(t)
    PROVE  t \in Strays
<1>1. ASSUME UNCHANGED <<pc[t[2]], todo[t[2]]>> PROVE InUse(t)' <=> InUse(t)
  BY <1>1 DEF InUse, Temp, Name
<1> QED BY <1>1 DEF Strays

\* a call's own temporary is left only where a fault is counted
LEMMA OwnStray ==
    ASSUME DirTypes, CallTypes, OnTask, NEW p \in Procs, Call(p),
           faults' = faults, faults \in Nat,
           Temp(p) \in Strays'
    PROVE  Temp(p) \in Strays
<1> USE DEF Exit, Continue, Skip, Goto, CallTypes
<1>f. faults + 1 # faults
  OBVIOUS
<1>t. Temp(p) \in Temps /\ Temp(p) \in Slots /\ Temp(p)[2] = p
  BY TempFacts DEF Strays, Temp
<1>u. ASSUME pc'[p] \in {"copy", "seal", "rename"}, todo' = todo PROVE FALSE
  <2>1. Temp(p)' = Temp(p)
    BY <1>u DEF Temp, Name
  <2> QED BY <1>u, <1>t, <2>1 DEF Strays, InUse
<1>1. CASE Create(p)
  <2>1. entry' = entry
    BY <1>1, <1>u DEF Create, Stays
  <2>2. ~InUse(Temp(p))
    BY <1>1, <1>t DEF Create, InUse
  <2> QED BY <1>t, <2>1, <2>2, StrayKept
<1>2. CASE Copy(p) \/ Seal(p)
  BY <1>2, <1>f, <1>u DEF Copy, Seal, Fault
<1>3. CASE Rename(p)
  <2>1. entry'[Temp(p)] = Absent
    BY <1>3, <1>t DEF Rename, Fail, Becomes, DirTypes
  <2> QED BY <2>1 DEF Strays
<1>4. CASE Kill(p)
  BY <1>4, <1>f DEF Kill, Fault
<1>5. CASE Walk(p) \/ Compare(p) \/ Checkout(p) \/ Target(p) \/ List(p)
           \/ Stat(p) \/ Unlink(p) \/ Rmdir(p)
  <2>1. pc[p] \notin {"create", "copy", "seal", "rename"}
    BY <1>5 DEF Walk, Compare, Checkout, Target, List, Stat, Unlink, Rmdir
  <2>2. entry'[Temp(p)] = entry[Temp(p)]
    BY <1>t, <2>1, TempFacts, NameOnTask, CallTouches
  <2> QED BY <1>t, <2>1, <2>2, StrayKept DEF InUse
<1> QED BY <1>1, <1>2, <1>3, <1>4, <1>5 DEF Call

LEMMA StraysStep ==
    ASSUME DirTypes, CallTypes, OnTask, faults \in Nat, Next
    PROVE  \/ faults' = faults /\ Strays' \subseteq Strays
           \/ /\ faults' = faults + 1
              /\ \E t : Strays' \subseteq Strays \cup {t}
<1>1. ASSUME NEW p \in Procs, Call(p)
      PROVE  Strays' \subseteq Strays \cup {Temp(p)}
  <2>1. SUFFICES ASSUME NEW t \in Strays', t # Temp(p) PROVE t \in Strays
    BY <2>1
  <2>2. t \in Temps
    BY <2>1 DEF Strays
  <2>3. entry'[t] = entry[t]
    BY <1>1, <2>1, <2>2, TempFacts, NameOnTask, CallTouches
  <2>4. CASE t[2] = p
    BY <2>1, <2>2, <2>3, <2>4, StrayKept DEF InUse
  <2>5. CASE t[2] # p
    BY <1>1, <2>1, <2>2, <2>3, <2>5, TempFacts, CallLeavesCalls, StrayKept
  <2> QED BY <2>4, <2>5
<1>2. ASSUME NEW p \in Procs, Call(p) PROVE faults' \in {faults, faults + 1}
  BY <1>2 DEF Call, Walk, Compare, Checkout, Target, Create, Copy, Seal,
              Rename, List, Stat, Unlink, Rmdir, Kill, Fault, NoFault
<1>3. ASSUME NEW p \in Procs, NEW j \in Jobs, NEW t \in Texts,
             NEW here \in BOOLEAN, Start(p, j, t, here)
      PROVE  faults' = faults /\ Strays' \subseteq Strays
  <2>1. /\ UNCHANGED <<entry, faults>>
        /\ pc[p] \in {"idle", "exited", "killed"}
    BY <1>3 DEF Start
  <2>2. SUFFICES ASSUME NEW s \in Strays' PROVE s \in Strays
    BY <2>1, <2>2
  <2>3. s \in Temps
    BY <2>2 DEF Strays
  <2>4. CASE s[2] = p
    BY <2>1, <2>2, <2>3, <2>4, StrayKept DEF InUse
  <2>5. CASE s[2] # p
    BY <1>3, <2>1, <2>2, <2>3, <2>5, TempFacts, CallLeavesCalls, StrayKept
  <2> QED BY <2>4, <2>5
<1>4. ASSUME NEW n \in Names, NEW e \in Users, Meddle(n, e)
      PROVE  faults' = faults /\ Strays' \subseteq Strays
  <2>1. /\ UNCHANGED <<pc, todo, faults>>
        /\ entry' = [entry EXCEPT ![n] = e]
    BY <1>4 DEF Meddle, callVars
  <2>2. SUFFICES ASSUME NEW s \in Strays' PROVE s \in Strays
    BY <2>1, <2>2
  <2>3. s \in Temps
    BY <2>2 DEF Strays
  <2>4. entry'[s] = entry[s]
    BY <2>1, <2>3, TempFacts DEF DirTypes
  <2> QED BY <2>1, <2>2, <2>3, <2>4, StrayKept
<1>5. ASSUME NEW p \in Procs, Call(p)
      PROVE  \/ faults' = faults /\ Strays' \subseteq Strays
             \/ /\ faults' = faults + 1
                /\ \E t : Strays' \subseteq Strays \cup {t}
  <2>1. CASE faults' = faults
    BY <1>1, <1>5, <2>1, OwnStray
  <2>2. CASE faults' # faults
    BY <1>1, <1>2, <1>5, <2>2
  <2> QED BY <2>1, <2>2
<1> QED BY <1>3, <1>4, <1>5 DEF Next

LEMMA FewStraysNext ==
    ASSUME DirTypes, CallTypes, BoundTypes, OnTask, FewStrays, Next
    PROVE  FewStrays'
<1>1. faults \in Nat /\ Cardinality(Strays) \in Nat
  BY DeployAssumption, FS_CardinalityType DEF BoundTypes, FewStrays
<1>2. CASE faults' = faults /\ Strays' \subseteq Strays
  <2>1. /\ IsFiniteSet(Strays') /\ Cardinality(Strays') \in Nat
        /\ Cardinality(Strays') <= Cardinality(Strays)
    BY <1>2, FS_Subset, FS_CardinalityType DEF FewStrays
  <2> QED BY <1>1, <1>2, <2>1 DEF FewStrays
<1>3. CASE /\ faults' = faults + 1
           /\ \E t : Strays' \subseteq Strays \cup {t}
  <2>1. PICK t : Strays' \subseteq Strays \cup {t}
    BY <1>3
  <2>2. /\ IsFiniteSet(Strays \cup {t})
        /\ Cardinality(Strays \cup {t}) <= Cardinality(Strays) + 1
        /\ Cardinality(Strays \cup {t}) \in Nat
    <3>1. IsFiniteSet(Strays)
      BY DEF FewStrays
    <3>2. /\ IsFiniteSet(Strays \cup {t})
          /\ Cardinality(Strays \cup {t}) =
                IF t \in Strays THEN Cardinality(Strays)
                                ELSE Cardinality(Strays) + 1
      BY ONLY <3>1, FS_AddElement
    <3> QED BY <1>1, <3>2
  <2>3. /\ IsFiniteSet(Strays') /\ Cardinality(Strays') \in Nat
        /\ Cardinality(Strays') <= Cardinality(Strays \cup {t})
    BY <2>1, <2>2, FS_Subset, FS_CardinalityType
  <2> QED BY <1>1, <1>3, <2>2, <2>3 DEF FewStrays
<1> QED BY <1>1, <1>2, <1>3, StraysStep

-----------------------------------------------------------------------------
(* The theorems *)

LEMMA InitIInv == Init => IInv
<1> SUFFICES ASSUME Init PROVE IInv
  OBVIOUS
<1>1. DirTypes
  BY DEF Init, DirTypes, Entries
<1>2. CallTypes
  BY DEF Init, CallTypes, Steps, Jobs
<1>3. BoundTypes
  BY DeployAssumption DEF Init, BoundTypes
<1>4. OnTask /\ TempIsReady
  BY DEF Init, OnTask, TempIsReady, PutSteps
<1>5. OnlyWholeFiles
  <2>1. \A s \in Slots : entry[s] \in {Absent, Directory}
    BY DEF Init
  <2> QED BY <2>1, SlotFacts, FileFacts DEF OnlyWholeFiles
<1> QED BY <1>1, <1>2, <1>3, <1>4, <1>5, TypesInParts DEF IInv

LEMMA NextIInv == IInv /\ [Next]_vars => IInv'
<1> SUFFICES ASSUME IInv, [Next]_vars PROVE IInv'
  OBVIOUS
<1>1. DirTypes /\ CallTypes /\ BoundTypes /\ OnTask /\ TempIsReady
      /\ OnlyWholeFiles
  BY TypesInParts DEF IInv
<1>2. CASE Next
  <2>1. DirTypes' /\ CallTypes' /\ BoundTypes'
    BY <1>1, <1>2, DirTypesNext, CallTypesNext, BoundTypesNext
  <2>2. OnTask' /\ TempIsReady' /\ OnlyWholeFiles'
    BY <1>1, <1>2, OnTaskNext, ReadyNext, WholeNext
  <2> QED BY <2>1, <2>2, TypesInPartsNext DEF IInv
<1>3. CASE UNCHANGED vars
  BY <1>3
     DEF vars, callVars, boundVars, IInv, TypeOK, OnTask, TempIsReady,
         OnlyWholeFiles, Name, Temp
<1> QED BY <1>2, <1>3

LEMMA Invariance == Spec => []IInv
BY InitIInv, NextIInv, PTL DEF Spec

\* what the calls have done, and what they leave, on top of that
LEMMA InitDone == Init => EInv /\ FewStrays
<1> SUFFICES ASSUME Init PROVE EInv /\ FewStrays
  OBVIOUS
<1>1. NothingNowhere
  BY DEF Init, NothingNowhere
<1>2. \A p \in Procs : Opened(p) /\ Earned(p)
  BY DEF Init, Opened, Earned, PutEarned, RemoveEarned, TrueAtExit, PutSteps,
         RemoveSteps
<1>3. Strays = {}
  <2>1. \A t \in Temps : entry[t] = Absent
    <3>1. Git \in Names
      BY SlotFacts
    <3> QED BY <3>1, TempFacts DEF Init
  <2> QED BY <2>1 DEF Strays
<1>4. FewStrays
  BY <1>3, FS_EmptySet DEF FewStrays, Init
<1> QED BY <1>1, <1>2, <1>4 DEF EInv

LEMMA NextDone == IInv /\ EInv /\ FewStrays /\ [Next]_vars => EInv' /\ FewStrays'
<1> SUFFICES ASSUME IInv, EInv, FewStrays, [Next]_vars
             PROVE  EInv' /\ FewStrays'
  OBVIOUS
<1>1. DirTypes /\ CallTypes /\ BoundTypes /\ OnTask /\ TempIsReady
      /\ OnlyWholeFiles
  BY TypesInParts DEF IInv
<1>2. CASE Next
  <2>1. NothingNowhere'
    BY <1>1, <1>2, NothingNowhereNext DEF EInv
  <2>2. \A p \in Procs : Opened(p)' /\ Earned(p)'
    BY <1>1, <1>2, OpenedNext, EarnedNext DEF EInv
  <2>3. FewStrays'
    BY <1>1, <1>2, FewStraysNext
  <2> QED BY <2>1, <2>2, <2>3 DEF EInv
<1>3. CASE UNCHANGED vars
  <2> USE <1>3 DEF vars, callVars, boundVars
  <2>1. NothingNowhere'
    BY DEF EInv, NothingNowhere
  <2>2. \A p \in Procs : Opened(p)' /\ Earned(p)'
    BY DEF EInv, Opened, Earned, PutEarned, RemoveEarned, TrueAtExit, Puts, Installed,
           Gone, Temp, Name
  <2>3. FewStrays'
    BY DEF FewStrays, Strays, InUse, Temp, Name
  <2> QED BY <2>1, <2>2, <2>3 DEF EInv
<1> QED BY <1>2, <1>3

LEMMA DoneInvariance == Spec => [](EInv /\ FewStrays)
<1>1. IInv /\ (EInv /\ FewStrays) /\ [Next]_vars => (EInv /\ FewStrays)'
  BY NextDone
<1> QED BY <1>1, InitDone, Invariance, PTL DEF Spec

(* The tool's state keeps its shape, whatever the calls and their faults.  *)
THEOREM DeployTypes == Spec => []TypeOK
<1>1. IInv => TypeOK
  BY DEF IInv
<1> QED BY <1>1, Invariance, PTL

(* A name is never seen to hold a part of a file, or a file without its    *)
(* mode, for any number of calls side by side.                             *)
THEOREM NamesHoldWholeFiles == Spec => []OnlyWholeFiles
<1>1. IInv => OnlyWholeFiles
  BY DEF IInv
<1> QED BY <1>1, Invariance, PTL

(* No call changes what it was not given, nor a directory.                 *)
THEOREM TheRestIsLeft == Spec => LeavesTheRest
<1>1. ASSUME IInv, [Next]_vars, meddles' = meddles, NEW n \in Names,
             n \in Rest \/ entry[n] = Directory
      PROVE  entry'[n] = entry[n]
  <2>1. DirTypes /\ CallTypes /\ OnTask /\ BoundTypes /\ n \in Slots
    BY <1>1, TypesInParts, SlotFacts DEF IInv
  <2>2. ASSUME NEW p \in Procs, Call(p) PROVE entry'[n] = entry[n]
    <3>1. pc[p] \in {"create", "copy", "seal", "rename"} => n # Temp(p)
      BY <2>1, NameOnTask
    <3>2. pc[p] \in {"rename", "unlink"} => Name(p) \notin Rest
      BY <2>1, NameOnTask, SlotFacts
    <3> QED BY <1>1, <2>1, <2>2, <3>1, <3>2, CallTouches
  <2>3. ASSUME NEW m \in Names, NEW e \in Users, Meddle(m, e) PROVE FALSE
    BY <1>1, <2>1, <2>3, DeployAssumption DEF Meddle, BoundTypes
  <2>4. CASE \E p \in Procs, j \in Jobs, t \in Texts, here \in BOOLEAN :
                Start(p, j, t, here)
    BY <2>4 DEF Start
  <2>5. CASE UNCHANGED vars
    BY <2>5 DEF vars
  <2> QED BY <1>1, <2>2, <2>3, <2>4, <2>5 DEF Next
<1>2. IInv /\ [Next]_vars =>
          [meddles' = meddles => \A n \in Names :
              n \in Rest \/ entry[n] = Directory => entry'[n] = entry[n]]_vars
  BY <1>1
<1> QED BY <1>2, Invariance, PTL DEF Spec, LeavesTheRest

(* A call that exits with 0 has done what it was asked: every file it was  *)
(* given is there, whole and with its mode, or everything it was to remove *)
(* is gone but for directories, unless somebody else touched the name      *)
(* since the call began, or a listing that ended early left it out.        *)
THEOREM ExitCodesAreTrue == Spec => []ExitZeroIsTrue
<1>1. IInv /\ EInv => ExitZeroIsTrue
  <2> SUFFICES ASSUME IInv, EInv, NEW p \in Procs,
                      pc[p] = "exited", code[p] = 0
               PROVE  /\ job[p] \in {"put", "put unless git"} =>
                            \A n \in Given \ others[p] :
                               entry[n] = File(source[p][n], "asked")
                      /\ job[p] \in {"remove", "remove and rmdir"} =>
                            \A n \in (Given \cup (Matching \ missed[p])) \ others[p] :
                               entry[n] \in {Absent, Directory}
    BY DEF ExitZeroIsTrue
  <2>1. TrueAtExit(p)
    BY DEF EInv, Earned
  <2> QED BY <2>1 DEF TrueAtExit, Puts, Installed, Gone
<1> QED BY <1>1, Invariance, DoneInvariance, PTL

(* Every temporary file that no call works on was left by a kill or by a   *)
(* write that failed, and each of these left one at most, however many     *)
(* calls there are.                                                        *)
THEOREM StraysAreCounted == Spec => []StrayTempsAreFew
<1>1. FewStrays => StrayTempsAreFew
  BY DEF FewStrays, Strays, StrayTempsAreFew
<1> QED BY <1>1, DoneInvariance, PTL
=============================================================================
