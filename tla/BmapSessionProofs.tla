------------------------- MODULE BmapSessionProofs -------------------------
(***************************************************************************)
(* Proofs about BmapSession, for all fields, cells, values, orders and     *)
(* bounds: type correctness, framing, and the safety properties of the     *)
(* exchange.                                                               *)
(***************************************************************************)
EXTENDS BmapSession, SequenceTheorems, WellFoundedInduction, TLAPS

----------------------------------------------------------------------------
(* Least and greatest numbers, and what Applied computes.                  *)

\* A nonempty set of natural numbers has a least element.
LEMMA LeastOfNat ==
  ASSUME NEW S \in SUBSET Nat, S # {}
  PROVE  \E m \in S : \A y \in S : m <= y
<1>1. IsWellFoundedOn(OpToRel(<, Nat), Nat)
  BY NatLessThanWellFounded
<1>2. PICK m \in S : \A y \in S : ~(<<y, m>> \in OpToRel(<, Nat))
  BY <1>1, WFMin
<1>3. \A y \in S : ~(y < m)
  BY <1>2 DEF OpToRel
<1> QED BY <1>3

\* Min returns it.
LEMMA MinOf ==
  ASSUME NEW S \in SUBSET Nat, S # {}
  PROVE  Min(S) \in S /\ \A y \in S : Min(S) <= y
BY LeastOfNat DEF Min

\* Max returns the greatest element of a nonempty set of indices.
LEMMA MaxOf ==
  ASSUME NEW n \in Nat, NEW S \in SUBSET (1..n), S # {}
  PROVE  Max(S) \in S /\ \A y \in S : y <= Max(S)
<1> DEFINE T == {i \in Nat : n - i \in S}
<1>1. T # {}
  <2> PICK s \in S : TRUE OBVIOUS
  <2>1. n - s \in Nat /\ n - (n - s) = s OBVIOUS
  <2> QED BY <2>1
<1>2. PICK m \in T : \A y \in T : m <= y
  BY <1>1, LeastOfNat
<1>3. \A y \in S : y <= n - m
  <2> TAKE y \in S
  <2>1. y \in 1..n /\ n - y \in Nat /\ n - (n - y) = y OBVIOUS
  <2>2. n - y \in T BY <2>1
  <2>3. m <= n - y BY <2>2, <1>2
  <2>4. m \in Nat OBVIOUS
  <2> QED BY <2>1, <2>3, <2>4
<1>4. \E x \in S : \A y \in S : x >= y BY <1>2, <1>3
<1> QED BY <1>4 DEF Max

\* What a message looks like.
LEMMA MessageFacts ==
  ASSUME NEW m \in Messages
  PROVE  /\ m.field \in Fields /\ m.mine \in BOOLEAN /\ m.vals \in Payloads
         /\ m.kind \in {"status", "error"}
         /\ m.kind = "status" => m.vals \in [CellsOf(m.field) -> Values]
         /\ m.kind = "error" => m.vals = Nothing
<1>1. CASE m \in Errors
  <2>1. Nothing \in [{} -> Values] BY DEF Nothing
  <2>2. Nothing \in Payloads BY <2>1 DEF Payloads
  <2> QED BY <1>1, <2>2 DEF Errors
<1>2. CASE \E f \in Fields : m \in Statuses(f)
  <2>1. PICK f \in Fields : m \in Statuses(f) BY <1>2
  <2>2. m.field = f /\ m.kind = "status" /\ m.mine \in BOOLEAN
          /\ m.vals \in [CellsOf(f) -> Values]
    BY <2>1 DEF Statuses
  <2>3. CellsOf(f) \in SUBSET Cells BY DEF CellsOf
  <2>4. m.vals \in Payloads BY <2>2, <2>3 DEF Payloads
  <2> QED BY <2>2, <2>4
<1> QED BY <1>1, <1>2 DEF Messages

\* The messages among ms that tell the value of c.
Tells(ms, c) == {i \in DOMAIN ms : ms[i].kind = "status" /\ c \in DOMAIN ms[i].vals}

\* The last message that tells c decides; if none does, c keeps its value.
LEMMA AppliedNone ==
  ASSUME NEW k, NEW ms, NEW c \in Cells, Tells(ms, c) = {}
  PROVE  Applied(k, ms)[c] = k[c]
BY DEF Applied, Tells

LEMMA AppliedLast ==
  ASSUME NEW k, NEW ms \in Seq(Messages), NEW c \in Cells, NEW i \in Tells(ms, c),
         \A j \in Tells(ms, c) : j <= i
  PROVE  Applied(k, ms)[c] = ms[i].vals[c]
<1>1. Tells(ms, c) \in SUBSET (1..Len(ms)) /\ Len(ms) \in Nat
  BY DEF Tells
<1>2. Max(Tells(ms, c)) = i
  <2> DEFINE S == Tells(ms, c)
  <2>1. S # {} OBVIOUS
  <2>2. Max(S) \in S /\ i <= Max(S) BY <1>1, <2>1, MaxOf
  <2>3. Max(S) <= i /\ Max(S) \in Nat /\ i \in Nat BY <2>2, <1>1
  <2> QED BY <2>2, <2>3
<1> QED BY <1>2 DEF Applied, Tells

LEMMA AppliedCases ==
  ASSUME NEW k, NEW ms \in Seq(Messages), NEW c \in Cells
  PROVE  \/ Tells(ms, c) = {} /\ Applied(k, ms)[c] = k[c]
         \/ \E i \in Tells(ms, c) : /\ \A j \in Tells(ms, c) : j <= i
                                    /\ Applied(k, ms)[c] = ms[i].vals[c]
<1>1. CASE Tells(ms, c) = {} BY <1>1, AppliedNone
<1>2. CASE Tells(ms, c) # {}
  <2>1. Tells(ms, c) \in SUBSET (1..Len(ms)) /\ Len(ms) \in Nat
    BY DEF Tells
  <2>2. PICK i \in Tells(ms, c) : \A j \in Tells(ms, c) : j <= i
    BY <1>2, <2>1, MaxOf
  <2> QED BY <2>2, AppliedLast
<1> QED BY <1>1, <1>2

\* applyPayload keeps the types.
LEMMA AppliedType ==
  ASSUME NEW k \in [Cells -> Values \cup {NoValue}], NEW ms \in Seq(Messages)
  PROVE  Applied(k, ms) \in [Cells -> Values \cup {NoValue}]
<1>1. ASSUME NEW c \in Cells PROVE Applied(k, ms)[c] \in Values \cup {NoValue}
  <2>1. CASE Tells(ms, c) = {} BY <2>1, AppliedNone
  <2>2. ASSUME NEW i \in Tells(ms, c), Applied(k, ms)[c] = ms[i].vals[c]
        PROVE  Applied(k, ms)[c] \in Values
    <3>1. ms[i] \in Messages /\ ms[i].kind = "status" /\ c \in DOMAIN ms[i].vals
      BY DEF Tells
    <3>2. ms[i].vals \in [CellsOf(ms[i].field) -> Values] BY <3>1, MessageFacts
    <3> QED BY <2>2, <3>1, <3>2
  <2> QED BY <2>1, <2>2, AppliedCases
<1>2. Applied(k, ms) = [c \in Cells |-> Applied(k, ms)[c]] BY DEF Applied
<1> QED BY <1>1, <1>2

----------------------------------------------------------------------------
(* Types of the pieces the actions are made of.                            *)

LEMMA DisownType ==
  ASSUME NEW S, NEW q \in Seq(S),
         \A x \in S : [x EXCEPT !.mine = FALSE] \in S
  PROVE  /\ Disown(q) \in Seq(S) /\ Len(Disown(q)) = Len(q)
         /\ DOMAIN Disown(q) = DOMAIN q
BY DEF Disown

LEMMA DisownRequests ==
  ASSUME NEW q \in Seq(Requests)
  PROVE  Disown(q) \in Seq(Requests)
<1>1. \A x \in Requests : [x EXCEPT !.mine = FALSE] \in Requests BY DEF Requests
<1> QED BY <1>1, DisownType

LEMMA DisownMessages ==
  ASSUME NEW q \in Seq(Messages)
  PROVE  Disown(q) \in Seq(Messages)
<1>1. ASSUME NEW x \in Messages PROVE [x EXCEPT !.mine = FALSE] \in Messages
  <2>1. CASE x \in Errors
    <3>1. [x EXCEPT !.mine = FALSE] \in Errors BY <2>1 DEF Errors
    <3> QED BY <3>1 DEF Messages
  <2>2. ASSUME NEW f \in Fields, x \in Statuses(f) PROVE [x EXCEPT !.mine = FALSE] \in Messages
    <3>1. [x EXCEPT !.mine = FALSE] \in Statuses(f) BY <2>2 DEF Statuses
    <3> QED BY <3>1 DEF Messages
  <2> QED BY <2>1, <2>2 DEF Messages
<1> QED BY <1>1, DisownType

\* The handler's messages keep the types of StateEngine.
LEMMA LearnType ==
  ASSUME TypeOK, NEW ms \in Seq(Messages), Learn(ms)
  PROVE  known' \in [Cells -> Values \cup {NoValue}] /\ heard' \subseteq Fields
<1>1. \A i \in DOMAIN ms : ms[i].field \in Fields BY MessageFacts
<1> QED BY <1>1, AppliedType DEF TypeOK, Learn

LEMMA GoOnType ==
  ASSUME NEW steps \in Seq(Steps), GoOn(steps)
  PROVE  /\ todo' \in Seq(Steps) /\ mode' \in {"send", "done"}
         /\ mode' = "send" <=> todo' # <<>>
BY DEF GoOn

LEMMA StepFailsType ==
  ASSUME TypeOK, todo # <<>>, StepFails
  PROVE  /\ todo' \in Seq(Steps) /\ mode' \in {"send", "done"}
         /\ mode' = "send" <=> todo' # <<>>
         /\ failed' = TRUE
<1> DEFINE s == Head(todo)
           rest == IF kind # "write" THEN Tail(todo)
                   ELSE IF s.op = "put" /\ Len(PutOrder[s.field]) > 1
                   THEN <<Step("get", s.field, {})>>
                   ELSE <<>>
<1>1. todo \in Seq(Steps) BY DEF TypeOK
<1>2. s \in Steps /\ Tail(todo) \in Seq(Steps) BY <1>1
<1>3. Step("get", s.field, {}) \in Steps BY <1>2 DEF Step, Steps
<1>4. rest \in Seq(Steps)
  <2>1. <<Step("get", s.field, {})>> \in Seq(Steps) BY <1>3
  <2> QED BY <2>1, <1>2
<1>5. GoOn(rest) /\ failed' = TRUE BY DEF StepFails
<1> HIDE DEF rest
<1> QED BY <1>4, <1>5, GoOnType

\* What a read of the link leaves, and what it hands over.
LEMMA ArrivesType ==
  ASSUME TypeOK, NEW n \in 0..Len(fromDev), NEW cut \in Cuts, Arrives(n, cut)
  PROVE  /\ fromDev' \in Seq(Messages) /\ Buffered(n) \in Seq(Messages)
         /\ partial' \in {"none", "this"}
<1>1. fromDev \in Seq(Messages) /\ inbox \in Seq(Messages) BY DEF TypeOK
<1>2. SubSeq(fromDev, n + 1, Len(fromDev)) \in Seq(Messages) /\ SubSeq(fromDev, 1, n) \in Seq(Messages)
  <2>1. Len(fromDev) \in Nat /\ n \in Nat BY <1>1
  <2>2. \A i \in (n + 1)..Len(fromDev) : fromDev[i] \in Messages BY <1>1, <2>1
  <2>3. \A i \in 1..n : fromDev[i] \in Messages BY <1>1, <2>1
  <2> QED BY <1>1, <2>1, <2>2, <2>3, SubSeqProperties
<1>3. Buffered(n) \in Seq(Messages) BY <1>1, <1>2 DEF Buffered
<1> QED BY <1>2, <1>3 DEF Arrives

\* The answer is one of the messages at hand, the first of its address.
LEMMA AnswerIndex ==
  ASSUME NEW ms \in Seq(Messages), Answers(ms) # {}
  PROVE  LET j == Min(Answers(ms)) IN
         /\ j \in 1..Len(ms) /\ ms[j] \in Messages /\ ms[j].field = Head(todo).field
         /\ \A i \in DOMAIN ms : ms[i].field = Head(todo).field => j <= i
<1>1. Answers(ms) \in SUBSET Nat BY DEF Answers
<1>2. Min(Answers(ms)) \in Answers(ms) /\ \A y \in Answers(ms) : Min(Answers(ms)) <= y
  BY <1>1, MinOf
<1> QED BY <1>2 DEF Answers

\* The elements of two sequences, one behind the other.
LEMMA ConcatAt ==
  ASSUME NEW S, NEW s \in Seq(S), NEW t \in Seq(S)
  PROVE  /\ s \o t \in Seq(S)
         /\ Len(s \o t) = Len(s) + Len(t)
         /\ Len(s) \in Nat /\ Len(t) \in Nat
         /\ DOMAIN (s \o t) = 1..(Len(s) + Len(t))
         /\ \A i \in 1..Len(s) : (s \o t)[i] = s[i]
         /\ \A i \in 1..Len(t) : (s \o t)[Len(s) + i] = t[i]
         /\ \A i \in (Len(s) + 1)..(Len(s) + Len(t)) :
               i - Len(s) \in 1..Len(t) /\ (s \o t)[i] = t[i - Len(s)]
OBVIOUS

\* The steps of the handlers.
LEMMA ReadsType ==
  ASSUME NEW fs \in Seq(Fields)
  PROVE  Reads(fs) \in Seq(Steps) /\ \A i \in DOMAIN Reads(fs) : Reads(fs)[i].op = "get"
<1>1. \A i \in DOMAIN fs : Step("get", fs[i], {}) \in Steps BY DEF Step, Steps
<1>2. Reads(fs) = [i \in 1..Len(fs) |-> Step("get", fs[i], {})] BY DEF Reads
<1>3. \A i \in 1..Len(fs) : Step("get", fs[i], {}) \in Steps BY <1>1
<1>4. Reads(fs) \in Seq(Steps) BY <1>2, <1>3
<1> QED BY <1>4, <1>2 DEF Step

LEMMA WriteStepsFacts ==
  ASSUME NEW f \in Fields
  PROVE  LET w == WriteSteps(f) IN
         /\ w \in Seq(Steps) /\ w # <<>>
         /\ w[Len(w)] = Step("get", f, {})
         /\ \A i \in DOMAIN w : w[i].field = f
         /\ \A i \in DOMAIN w : w[i].op # "put" => w[i].cells = {}
         /\ \A i \in DOMAIN w : w[i].op = "put" =>
               /\ w[i].cells \subseteq CellsOf(f)
               /\ w[i].cells \subseteq Asked \/ w[1].op = "peek"
<1> DEFINE a == IF f \in Peeked THEN <<Step("peek", f, {})>> ELSE <<>>
           b == [i \in DOMAIN PutOrder[f] |-> Step("put", f, PutOrder[f][i])]
           e == <<Step("get", f, {})>>
           w == a \o b \o e
<1>1. \A op \in {"get", "peek", "put"}, cs \in SUBSET Cells : Step(op, f, cs) \in Steps
  BY DEF Step, Steps
<1>2. /\ a \in Seq(Steps) /\ e \in Seq(Steps) /\ Len(a) \in 0..1 /\ Len(e) = 1
      /\ f \in Peeked => Len(a) = 1 /\ a[1] = Step("peek", f, {})
      /\ f \notin Peeked => Len(a) = 0
  BY <1>1
<1>3. PutOrder[f] \in Seq(SUBSET Cells) BY SessionAssumption
<1>4. b = [i \in 1..Len(PutOrder[f]) |-> Step("put", f, PutOrder[f][i])]
      /\ Len(PutOrder[f]) \in Nat
  BY <1>3
<1>5. \A i \in 1..Len(PutOrder[f]) : PutOrder[f][i] \in SUBSET Cells BY <1>3
<1>6. \A i \in 1..Len(PutOrder[f]) : Step("put", f, PutOrder[f][i]) \in Steps BY <1>1, <1>5
<1>7. b \in Seq(Steps) /\ Len(b) = Len(PutOrder[f]) BY <1>4, <1>6
<1>8. \A i \in DOMAIN b : /\ b[i].op = "put" /\ b[i].field = f
                          /\ b[i].cells \subseteq CellsOf(f)
                          /\ b[i].cells \subseteq Asked \/ f \in Peeked
  <2> TAKE i \in DOMAIN b
  <2>1. b[i] = Step("put", f, PutOrder[f][i]) /\ i \in DOMAIN PutOrder[f] BY DEF Step
  <2>2. \A c \in PutOrder[f][i] : FieldOf[c] = f /\ (f \in Peeked \/ c \in Asked)
    BY <2>1, SessionAssumption
  <2>3. PutOrder[f][i] \subseteq Cells BY <2>1, <1>3
  <2> QED BY <2>1, <2>2, <2>3 DEF Step, CellsOf
<1>9. \A i \in DOMAIN a : a[i] = Step("peek", f, {}) BY <1>2
<1>10. e[1] = Step("get", f, {}) OBVIOUS
<1> HIDE DEF a, b, e
<1> DEFINE ab == a \o b
<1>11. a \in Seq(Steps) /\ b \in Seq(Steps) /\ e \in Seq(Steps) BY <1>2, <1>7
<1>12. /\ ab \in Seq(Steps) /\ Len(ab) = Len(a) + Len(b)
       /\ Len(a) \in Nat /\ Len(b) \in Nat
       /\ \A i \in 1..Len(a) : ab[i] = a[i]
       /\ \A i \in (Len(a) + 1)..(Len(a) + Len(b)) :
             i - Len(a) \in 1..Len(b) /\ ab[i] = b[i - Len(a)]
  BY <1>11, ConcatAt
<1>13. \A i \in 1..Len(ab) :
          \/ i \in DOMAIN a /\ ab[i] = a[i]
          \/ i - Len(a) \in DOMAIN b /\ ab[i] = b[i - Len(a)]
  <2> TAKE i \in 1..Len(ab)
  <2>1. CASE i <= Len(a)
    <3>1. i \in 1..Len(a) BY <2>1, <1>12
    <3>2. DOMAIN a = 1..Len(a) BY <1>11
    <3>3. ab[i] = a[i] BY <3>1, <1>12
    <3> QED BY <3>1, <3>2, <3>3
  <2>2. CASE ~(i <= Len(a))
    <3>1. i \in (Len(a) + 1)..(Len(a) + Len(b)) BY <2>2, <1>12
    <3>2. i - Len(a) \in 1..Len(b) /\ ab[i] = b[i - Len(a)] BY <3>1, <1>12
    <3> QED BY <3>2, <1>11
  <2> QED BY <2>1, <2>2
<1>14. w = ab \o e OBVIOUS
<1> HIDE DEF ab, w
<1>15. w \in Seq(Steps) /\ Len(w) = Len(ab) + Len(e)
  BY <1>11, <1>12, <1>14, ConcatAt
<1>16. (\A i \in 1..Len(ab) : w[i] = ab[i]) /\ (\A i \in 1..Len(e) : w[Len(ab) + i] = e[i])
  BY <1>11, <1>12, <1>14, ConcatAt
<1>17. w \in Seq(Steps) /\ Len(w) = Len(ab) + 1 /\ Len(ab) \in Nat /\ DOMAIN w = 1..Len(w)
  BY <1>15, <1>2, <1>12
<1>18. (\A i \in 1..Len(ab) : w[i] = ab[i]) /\ w[Len(ab) + 1] = e[1]
  BY <1>16, <1>2
<1>19. \A i \in 1..Len(w) :
          \/ i \in DOMAIN a /\ w[i] = Step("peek", f, {})
          \/ i - Len(a) \in DOMAIN b /\ w[i] = b[i - Len(a)]
          \/ w[i] = Step("get", f, {})
  BY <1>9, <1>10, <1>17, <1>18, <1>13
<1>20. w[Len(w)] = Step("get", f, {}) BY <1>10, <1>17, <1>18
<1>21. f \in Peeked => w[1].op = "peek"
  <2> SUFFICES ASSUME f \in Peeked PROVE w[1].op = "peek" OBVIOUS
  <2>4. Len(a) = 1 BY <1>2
  <2>5. Len(ab) \in Nat /\ 1 <= Len(ab) BY <2>4, <1>17, <1>12
  <2>1. 1 \in 1..Len(a) /\ 1 \in 1..Len(ab) BY <2>4, <2>5
  <2>2. w[1] = a[1] BY <2>1, <1>18, <1>12
  <2>3. a[1] = Step("peek", f, {}) BY <1>2
  <2> QED BY <2>2, <2>3 DEF Step
<1>22. \A i \in DOMAIN w : w[i].field = f BY <1>19, <1>17, <1>8 DEF Step
<1>23. \A i \in DOMAIN w : w[i].op = "put" =>
               /\ w[i].cells \subseteq CellsOf(f)
               /\ w[i].cells \subseteq Asked \/ w[1].op = "peek"
  BY <1>19, <1>17, <1>8, <1>21 DEF Step
<1>24. w # <<>> BY <1>17
<1>25. \A i \in DOMAIN w : w[i].op # "put" => w[i].cells = {}
  BY <1>19, <1>17, <1>8 DEF Step
<1>26. WriteSteps(f) = w BY DEF WriteSteps, w, a, b, e, ab
<1> HIDE DEF w
<1> QED BY <1>17, <1>20, <1>22, <1>23, <1>24, <1>26, <1>25

----------------------------------------------------------------------------
(* Type correctness.                                                       *)

\* What a handler has ahead fits what it has read: only commands write, and
\* every value a SETGET needs is asked for, read already, or about to be read.
PutsReady ==
    /\ \A i \in DOMAIN todo :
          /\ todo[i].op # "get" => kind = "write"
          /\ todo[i].op # "put" => todo[i].cells = {}
          /\ todo[i].cells \subseteq CellsOf(todo[i].field)
          /\ todo[i].cells \subseteq DOMAIN want \cup DOMAIN base \/ todo[1].op = "peek"
          /\ kind = "write" => todo[i].field = todo[1].field
    /\ kind # "write" => want = Nothing /\ base = Nothing
    /\ DOMAIN want \subseteq Asked

TypeInv == TypeOK /\ PutsReady

LEMMA NothingType == Nothing \in Payloads /\ DOMAIN Nothing = {}
<1>1. Nothing \in [{} -> Values] BY DEF Nothing
<1> QED BY <1>1 DEF Payloads, Nothing

LEMMA PayloadDomain ==
  ASSUME NEW p \in Payloads
  PROVE  DOMAIN p \in SUBSET Cells /\ p \in [DOMAIN p -> Values]
BY DEF Payloads

\* The payload of the request about to be sent.
LEMMA PutValsType ==
  ASSUME TypeInv, todo # <<>>
  PROVE  LET s == Head(todo) IN
         /\ s \in Steps /\ s = todo[1] /\ 1 \in DOMAIN todo
         /\ PutVals(s) \in [s.cells -> Values] /\ PutVals(s) \in Payloads
         /\ s.cells \subseteq CellsOf(s.field)
         /\ s.cells \subseteq DOMAIN want \cup DOMAIN base
<1> DEFINE s == Head(todo)
<1>1. s \in Steps /\ 1 \in DOMAIN todo /\ s = todo[1] BY DEF TypeInv, TypeOK
<1>2. s.cells \subseteq DOMAIN want \cup DOMAIN base /\ s.cells \subseteq CellsOf(s.field)
  BY <1>1 DEF TypeInv, PutsReady
<1>3. want \in [DOMAIN want -> Values] /\ base \in [DOMAIN base -> Values]
  BY PayloadDomain DEF TypeInv, TypeOK
<1>4. PutVals(s) \in [s.cells -> Values] BY <1>2, <1>3 DEF PutVals
<1>5. s.cells \in SUBSET Cells BY <1>1 DEF Steps
<1>6. PutVals(s) \in Payloads BY <1>4, <1>5 DEF Payloads
<1> QED BY <1>1, <1>2, <1>4, <1>6

\* A handler that goes on is as ready as before; the answer to the read of a
\* read-modify-write supplies what the SETGETs lack.
LEMMA TailReady ==
  ASSUME TypeInv, todo # <<>>, todo' = Tail(todo), want' = want, kind' = kind,
         IF todo[1].op = "peek" THEN DOMAIN base' = CellsOf(todo[1].field) ELSE base' = base
  PROVE  PutsReady'
<1>1. /\ todo \in Seq(Steps) /\ Len(todo) \in Nat /\ Len(todo) > 0 /\ 1 \in DOMAIN todo
      /\ DOMAIN todo' = 1..(Len(todo) - 1)
      /\ \A i \in DOMAIN todo' : i + 1 \in DOMAIN todo /\ todo'[i] = todo[i + 1]
  BY DEF TypeInv, TypeOK
<1>2. ASSUME NEW i \in DOMAIN todo'
      PROVE  /\ todo'[i].op # "get" => kind' = "write"
             /\ todo'[i].op # "put" => todo'[i].cells = {}
             /\ todo'[i].cells \subseteq CellsOf(todo'[i].field)
             /\ todo'[i].cells \subseteq DOMAIN want' \cup DOMAIN base'
  <2>1. i + 1 \in DOMAIN todo /\ todo'[i] = todo[i + 1] BY <1>1, <1>2
  <2>2. CASE todo[1].op = "peek"
    <3>1. kind = "write" BY <1>1, <2>2 DEF TypeInv, PutsReady
    <3>2. todo[i + 1].field = todo[1].field BY <3>1, <2>1 DEF TypeInv, PutsReady
    <3>3. todo[i + 1].cells \subseteq DOMAIN base' BY <2>1, <2>2, <3>2 DEF TypeInv, PutsReady
    <3> QED BY <2>1, <3>1, <3>3 DEF TypeInv, PutsReady
  <2>3. CASE todo[1].op # "peek"
    BY <2>1, <2>3 DEF TypeInv, PutsReady
  <2> QED BY <2>2, <2>3
<1>3. ASSUME NEW i \in DOMAIN todo', kind' = "write" PROVE todo'[i].field = todo'[1].field
  <2>1. i + 1 \in DOMAIN todo /\ todo'[i] = todo[i + 1] BY <1>1, <1>3
  <2>2. 1 \in DOMAIN todo' /\ 2 \in DOMAIN todo /\ todo'[1] = todo[2] BY <1>1, <1>3
  <2> QED BY <2>1, <2>2, <1>3 DEF TypeInv, PutsReady
<1>4. /\ kind' # "write" => want' = Nothing /\ base' = Nothing
      /\ DOMAIN want' \subseteq Asked
  BY <1>1 DEF TypeInv, PutsReady
<1> QED BY <1>2, <1>3, <1>4 DEF PutsReady

\* So is one whose step has failed.
LEMMA StepFailsReady ==
  ASSUME TypeInv, todo # <<>>, StepFails, want' = want, kind' = kind, base' = base
  PROVE  PutsReady'
<1> DEFINE s == Head(todo)
<1>1. todo \in Seq(Steps) /\ 1 \in DOMAIN todo /\ s = todo[1] BY DEF TypeInv, TypeOK
<1>2. \/ kind # "write" /\ todo' = Tail(todo)
      \/ kind = "write" /\ todo' = <<Step("get", s.field, {})>>
      \/ kind = "write" /\ todo' = <<>>
  BY DEF StepFails, GoOn
<1>3. CASE kind # "write" /\ todo' = Tail(todo)
  <2>1. todo[1].op # "peek" BY <1>1, <1>3 DEF TypeInv, PutsReady
  <2> QED BY <2>1, <1>3, TailReady
<1>4. CASE kind = "write" /\ todo' = <<Step("get", s.field, {})>>
  <2>1. DOMAIN todo' = {1} /\ todo'[1] = Step("get", s.field, {}) BY <1>4
  <2> QED BY <2>1, <1>4 DEF TypeInv, PutsReady, Step
<1>5. CASE kind = "write" /\ todo' = <<>>
  <2>1. DOMAIN todo' = {} BY <1>5
  <2> QED BY <2>1, <1>5 DEF TypeInv, PutsReady
<1> QED BY <1>2, <1>3, <1>4, <1>5

LEMMA StillReady ==
  ASSUME TypeInv, UNCHANGED <<todo, kind, want, base>>
  PROVE  PutsReady'
BY DEF TypeInv, PutsReady

\* The event loop starts a handler.
LEMMA TypeBegin ==
  ASSUME TypeInv, Connect \/ Refresh \/ WriteAny
  PROVE  TypeInv'
<1>1. CASE Connect
  <2>1. Reads(SyncOrder) \in Seq(Steps) /\ \A i \in DOMAIN Reads(SyncOrder) : Reads(SyncOrder)[i].op = "get"
    BY ReadsType, SessionAssumption
  <2>2. GoOn(Reads(SyncOrder)) /\ todo' = Reads(SyncOrder) BY <1>1 DEF Connect, Begin, GoOn
  <2>3. todo' \in Seq(Steps) /\ mode' \in {"send", "done"} /\ (mode' = "send" <=> todo' # <<>>)
    BY <2>1, <2>2, GoOnType
  <2>4. TypeOK' BY <1>1, <2>3, EmptySeq DEF TypeInv, TypeOK, Connect, Begin, wireVars, boundVars
  <2>5. PutsReady'
    <3>1. kind' = "sync" /\ want' = want /\ base' = base /\ kind # "write"
      BY <1>1 DEF Connect, Begin, TypeInv, TypeOK
    <3>2. \A i \in DOMAIN todo' : todo'[i].cells = {} /\ todo'[i].op = "get"
      BY <2>1, <2>2 DEF Reads, Step
    <3> QED BY <3>1, <3>2, NothingType DEF TypeInv, PutsReady
  <2> QED BY <2>4, <2>5 DEF TypeInv
<1>2. CASE Refresh
  <2>1. Reads(Polled) \in Seq(Steps) /\ \A i \in DOMAIN Reads(Polled) : Reads(Polled)[i].op = "get"
    BY ReadsType, SessionAssumption
  <2>2. GoOn(Reads(Polled)) /\ todo' = Reads(Polled) BY <1>2 DEF Refresh, Begin, GoOn
  <2>3. todo' \in Seq(Steps) /\ mode' \in {"send", "done"} /\ (mode' = "send" <=> todo' # <<>>)
    BY <2>1, <2>2, GoOnType
  <2>4. TypeOK'
    BY <1>2, <2>3 DEF TypeInv, TypeOK, Refresh, Begin, linkVars, wireVars, parseVars, boundVars
  <2>5. PutsReady'
    <3>1. kind' = "refresh" /\ want' = want /\ base' = base /\ kind # "write"
      BY <1>2 DEF Refresh, Begin, Idle, TypeInv, TypeOK
    <3>2. \A i \in DOMAIN todo' : todo'[i].cells = {} /\ todo'[i].op = "get"
      BY <2>1, <2>2 DEF Reads, Step
    <3> QED BY <3>1, <3>2, NothingType DEF TypeInv, PutsReady
  <2> QED BY <2>4, <2>5 DEF TypeInv
<1>3. ASSUME NEW f \in Fields, NEW v \in [CellsOf(f) \cap Asked -> Values], Write(f, v)
      PROVE  TypeInv'
  <2> DEFINE w == WriteSteps(f)
  <2>1. /\ w \in Seq(Steps) /\ w # <<>>
        /\ \A i \in DOMAIN w : w[i].field = f
        /\ \A i \in DOMAIN w : w[i].op = "put" =>
               /\ w[i].cells \subseteq CellsOf(f)
               /\ w[i].cells \subseteq Asked \/ w[1].op = "peek"
    BY WriteStepsFacts
  <2>2. GoOn(w) /\ todo' = w BY <1>3 DEF Write, Begin, GoOn
  <2>3. \A i \in DOMAIN w : w[i].op # "put" => w[i].cells = {} BY WriteStepsFacts
  <2> HIDE DEF w
  <2>4. todo' \in Seq(Steps) /\ mode' \in {"send", "done"} /\ (mode' = "send" <=> todo' # <<>>)
    BY <2>1, <2>2, GoOnType
  <2>5. v \in Payloads /\ DOMAIN v = CellsOf(f) \cap Asked
    BY SessionAssumption DEF Payloads
  <2>6. had' \in BOOLEAN /\ want' = v /\ kind' = "write" /\ writes' \in 0..MaxWrites
    BY <1>3, SessionAssumption DEF Write, Begin, TypeInv, TypeOK
  <2>7. TypeOK'
    BY <1>3, <2>4, <2>5, <2>6 DEF TypeInv, TypeOK, Write, linkVars, wireVars, parseVars
  <2>8. PutsReady'
    <3>1. 1 \in DOMAIN w BY <2>1
    <3>2. \A i \in DOMAIN w : w[i].cells \subseteq DOMAIN v \/ w[1].op = "peek"
      BY <2>1, <2>3, <2>5
    <3>3. DOMAIN v \subseteq Asked BY <2>5
    <3>4. \A i \in DOMAIN w : w[i].cells \subseteq CellsOf(w[i].field) BY <2>1, <2>3
    <3> QED BY <2>1, <2>2, <2>3, <2>6, <3>1, <3>2, <3>3, <3>4 DEF PutsReady
  <2> QED BY <2>7, <2>8 DEF TypeInv
<1> QED BY <1>1, <1>2, <1>3 DEF WriteAny

\* One exchange, up to its answer.
LEMMA TypeSend ==
  ASSUME TypeInv, Send \/ SendStalls
  PROVE  TypeInv'
<1>1. todo # <<>> BY DEF Send, SendStalls, TypeInv, TypeOK
<1>2. inbox' = <<>> /\ inbox' \in Seq(Messages) BY EmptySeq DEF Send, SendStalls, Flush
<1>3. known' \in [Cells -> Values \cup {NoValue}] /\ heard' \subseteq Fields
  BY LearnType DEF TypeInv, TypeOK, Send, SendStalls, Flush
<1>4. CASE Send
  <2> DEFINE s == Head(todo)
             r == [op |-> s.op, field |-> s.field, vals |-> PutVals(s), mine |-> TRUE]
  <2>1. s \in Steps /\ PutVals(s) \in Payloads BY <1>1, PutValsType
  <2>2. r \in Requests BY <2>1 DEF Steps, Requests
  <2>3. Disown(toDev) \in Seq(Requests) /\ Disown(fromDev) \in Seq(Messages)
    BY DisownRequests, DisownMessages DEF TypeInv, TypeOK
  <2>4. toDev' = Append(Disown(toDev), r) /\ fromDev' = Disown(fromDev) BY <1>4 DEF Send
  <2> HIDE DEF r
  <2>5. toDev' \in Seq(Requests) /\ fromDev' \in Seq(Messages) BY <2>2, <2>3, <2>4
  <2>6. sure' \subseteq Fields BY <1>4 DEF Send, TypeInv, TypeOK
  <2>7. TypeOK'
    BY <1>1, <1>2, <1>3, <1>4, <2>5, <2>6
    DEF TypeInv, TypeOK, Send, linkVars, taskVars, boundVars
  <2>8. PutsReady' BY <1>4, StillReady DEF Send, taskVars
  <2> QED BY <2>7, <2>8 DEF TypeInv
<1>5. CASE SendStalls
  <2>1. /\ todo' \in Seq(Steps) /\ mode' \in {"send", "done"}
        /\ mode' = "send" <=> todo' # <<>>
        /\ failed' = TRUE
    BY <1>1, <1>5, StepFailsType DEF SendStalls, TypeInv
  <2>2. odd' \in 0..MaxOdd BY <1>5, SessionAssumption DEF SendStalls, Disturb, TypeInv, TypeOK
  <2>3. TypeOK'
    BY <1>2, <1>3, <1>5, <2>1, <2>2 DEF TypeInv, TypeOK, SendStalls, linkVars, wireVars, taskVars
  <2>4. PutsReady' BY <1>1, <1>5, StepFailsReady DEF SendStalls, taskVars
  <2> QED BY <2>3, <2>4 DEF TypeInv
<1> QED BY <1>4, <1>5

\* The end of one: an answer, a time-out, a dead link.
LEMMA TypeRecvOthers ==
  ASSUME TypeInv, RecvOthers
  PROVE  TypeInv'
<1>1. PICK n \in 0..Len(fromDev), cut \in Cuts : Arrives(n, cut) /\ Learn(Buffered(n))
  BY DEF RecvOthers
<1>2. /\ fromDev' \in Seq(Messages) /\ Buffered(n) \in Seq(Messages)
      /\ partial' \in {"none", "this"}
  BY <1>1, ArrivesType DEF TypeInv
<1>3. known' \in [Cells -> Values \cup {NoValue}] /\ heard' \subseteq Fields
  BY <1>1, <1>2, LearnType DEF TypeInv
<1>4. inbox' \in Seq(Messages) BY EmptySeq DEF RecvOthers
<1>5. TypeOK'
  BY <1>2, <1>3, <1>4 DEF TypeInv, TypeOK, RecvOthers, linkVars, taskVars, boundVars
<1>6. PutsReady' BY StillReady DEF RecvOthers, taskVars
<1> QED BY <1>5, <1>6 DEF TypeInv

\* What follows the answer is still a sequence of messages, and so is what
\* comes before it.
LEMMA AnswerSplits ==
  ASSUME NEW ms \in Seq(Messages), NEW j \in 1..Len(ms)
  PROVE  /\ SubSeq(ms, j + 1, Len(ms)) \in Seq(Messages)
         /\ SubSeq(ms, 1, j) \in Seq(Messages) /\ SubSeq(ms, 1, j - 1) \in Seq(Messages)
<1>1. Len(ms) \in Nat /\ j \in Nat /\ j <= Len(ms) /\ j >= 1 OBVIOUS
<1>2. /\ \A i \in (j + 1)..Len(ms) : ms[i] \in Messages
      /\ \A i \in 1..j : ms[i] \in Messages
      /\ \A i \in 1..(j - 1) : ms[i] \in Messages
  BY <1>1
<1> QED BY <1>1, <1>2, SubSeqProperties

LEMMA TypeRecvOwn ==
  ASSUME TypeInv, RecvOwn
  PROVE  TypeInv'
<1>1. PICK n \in 0..Len(fromDev), cut \in Cuts : RecvAnswer(n, cut)
  BY DEF RecvOwn
<1> DEFINE ms == Buffered(n)
           j  == Min(Answers(ms))
           s  == Head(todo)
<1>2. todo # <<>> /\ mode = "wait" BY DEF RecvOwn, TypeInv, TypeOK
<1>3. todo \in Seq(Steps) /\ s \in Steps /\ s = todo[1] /\ Tail(todo) \in Seq(Steps)
  BY <1>2 DEF TypeInv, TypeOK
<1>4. /\ fromDev' \in Seq(Messages) /\ ms \in Seq(Messages)
      /\ partial' \in {"none", "this"}
  BY <1>1, ArrivesType DEF RecvAnswer, TypeInv
<1>5. j \in 1..Len(ms) /\ ms[j] \in Messages /\ ms[j].field = s.field
  BY <1>1, <1>4, AnswerIndex DEF RecvAnswer
<1>6. inbox' \in Seq(Messages) BY <1>1, <1>4, <1>5, AnswerSplits DEF RecvAnswer
<1>7. known' \in [Cells -> Values \cup {NoValue}] /\ heard' \subseteq Fields
  <2>1. Learn(SubSeq(ms, 1, IF s.op = "peek" THEN j - 1 ELSE j)) BY <1>1 DEF RecvAnswer
  <2>2. SubSeq(ms, 1, IF s.op = "peek" THEN j - 1 ELSE j) \in Seq(Messages)
    BY <1>4, <1>5, AnswerSplits
  <2> QED BY <2>1, <2>2, LearnType DEF TypeInv
<1>8. clean' \in BOOLEAN
  BY <1>1, <1>5, MessageFacts DEF RecvAnswer, TypeInv, TypeOK
<1>9. CASE ms[j].kind = "error"
  <2>1. StepFails /\ UNCHANGED <<base, sure>> BY <1>1, <1>9 DEF RecvAnswer
  <2>2. /\ todo' \in Seq(Steps) /\ mode' \in {"send", "done"}
        /\ mode' = "send" <=> todo' # <<>>
        /\ failed' = TRUE
    BY <1>2, <2>1, StepFailsType DEF TypeInv
  <2>3. TypeOK'
    BY <1>4, <1>6, <1>7, <1>8, <2>1, <2>2 DEF TypeInv, TypeOK, RecvOwn, linkVars, boundVars
  <2>4. PutsReady' BY <1>2, <2>1, StepFailsReady DEF RecvOwn
  <2> QED BY <2>3, <2>4 DEF TypeInv
<1>10. CASE ms[j].kind # "error"
  <2>1. /\ GoOn(Tail(todo)) /\ UNCHANGED failed
        /\ base' = IF s.op = "peek" THEN ms[j].vals ELSE base
        /\ sure' = IF s.op = "get" /\ ms[j].mine THEN sure \cup {s.field} ELSE sure
    BY <1>1, <1>10 DEF RecvAnswer
  <2>2. ms[j].vals \in [CellsOf(s.field) -> Values] /\ ms[j].vals \in Payloads
    BY <1>5, <1>10, MessageFacts
  <2>3. base' \in Payloads /\ sure' \subseteq Fields
    BY <1>3, <2>1, <2>2 DEF TypeInv, TypeOK, Steps
  <2>4. todo' \in Seq(Steps) /\ mode' \in {"send", "done"} /\ (mode' = "send" <=> todo' # <<>>)
    BY <1>3, <2>1, GoOnType
  <2>5. TypeOK'
    BY <1>2, <1>4, <1>6, <1>7, <1>8, <2>1, <2>3, <2>4 DEF TypeInv, TypeOK, RecvOwn, linkVars, boundVars
  <2>6. PutsReady'
    <3>1. todo' = Tail(todo) /\ want' = want /\ kind' = kind BY <2>1 DEF GoOn, RecvOwn
    <3>2. IF todo[1].op = "peek" THEN DOMAIN base' = CellsOf(todo[1].field) ELSE base' = base
      BY <1>3, <2>1, <2>2
    <3> QED BY <1>2, <3>1, <3>2, TailReady
  <2> QED BY <2>5, <2>6 DEF TypeInv
<1> QED BY <1>9, <1>10

LEMMA TypeGivesUp ==
  ASSUME TypeInv, WriteTimesOut \/ ReadTimesOut \/ LinkFails \/ Finish
  PROVE  TypeInv'
<1>1. CASE WriteTimesOut
  <2>1. todo # <<>> /\ todo \in Seq(Steps) /\ todo[1] = Head(todo) /\ Tail(todo) \in Seq(Steps)
    BY <1>1 DEF WriteTimesOut, TypeInv, TypeOK
  <2>2. todo' \in Seq(Steps) /\ mode' \in {"send", "done"} /\ (mode' = "send" <=> todo' # <<>>)
    BY <1>1, <2>1, GoOnType DEF WriteTimesOut
  <2>3. odd' \in 0..MaxOdd
    BY <1>1, SessionAssumption DEF WriteTimesOut, InTime, Disturb, TypeInv, TypeOK
  <2>4. TypeOK'
    BY <1>1, <2>2, <2>3 DEF TypeInv, TypeOK, WriteTimesOut, linkVars, wireVars, parseVars, taskVars
  <2>5. PutsReady'
    <3>1. todo[1].op = "put" /\ todo' = Tail(todo) /\ UNCHANGED <<kind, want, base>>
      BY <1>1, <2>1 DEF WriteTimesOut, GoOn, taskVars
    <3> QED BY <2>1, <3>1, TailReady
  <2> QED BY <2>4, <2>5 DEF TypeInv
<1>2. CASE ReadTimesOut
  <2>1. todo # <<>> BY <1>2 DEF ReadTimesOut, TypeInv, TypeOK
  <2>2. /\ todo' \in Seq(Steps) /\ mode' \in {"send", "done"}
        /\ mode' = "send" <=> todo' # <<>>
        /\ failed' = TRUE
    BY <1>2, <2>1, StepFailsType DEF ReadTimesOut, TypeInv
  <2>3. odd' \in 0..MaxOdd
    BY <1>2, SessionAssumption DEF ReadTimesOut, InTime, Disturb, TypeInv, TypeOK
  <2>4. TypeOK'
    BY <1>2, <2>2, <2>3 DEF TypeInv, TypeOK, ReadTimesOut, linkVars, wireVars, parseVars, taskVars
  <2>5. PutsReady' BY <1>2, <2>1, StepFailsReady DEF ReadTimesOut, taskVars
  <2> QED BY <2>4, <2>5 DEF TypeInv
<1>3. CASE LinkFails
  <2>1. (IF mode = "send" THEN inbox ELSE <<>>) \in Seq(Messages) BY EmptySeq DEF TypeInv, TypeOK
  <2>2. known' \in [Cells -> Values \cup {NoValue}] /\ heard' \subseteq Fields
    BY <1>3, <2>1, LearnType DEF LinkFails, TypeInv
  <2>3. TypeOK'
    BY <1>3, <2>2, EmptySeq DEF TypeInv, TypeOK, LinkFails, Drop, taskVars, boundVars
  <2>4. PutsReady'
    <3>1. DOMAIN todo' = {} /\ UNCHANGED <<kind, want, base>> BY <1>3 DEF LinkFails, taskVars
    <3> QED BY <3>1 DEF TypeInv, PutsReady
  <2> QED BY <2>3, <2>4 DEF TypeInv
<1>4. CASE Finish
  <2>1. todo = <<>> BY <1>4 DEF Finish, TypeInv, TypeOK
  <2>2. TypeOK'
    BY <1>4, <2>1, NothingType
    DEF TypeInv, TypeOK, Finish, linkVars, wireVars, parseVars, boundVars
  <2>3. PutsReady'
    <3>1. DOMAIN todo' = {} /\ kind' = "none" /\ want' = Nothing /\ base' = Nothing
      BY <1>4, <2>1 DEF Finish
    <3> QED BY <3>1, NothingType DEF PutsReady
  <2> QED BY <2>2, <2>3 DEF TypeInv
<1> QED BY <1>1, <1>2, <1>3, <1>4

\* The loop reads the link or loses it.
LEMMA TypeLoop ==
  ASSUME TypeInv, Feed \/ LinkLost \/ Reconnect \/ SignalUsr1
  PROVE  TypeInv'
<1>1. CASE Feed
  <2>1. PICK n \in 0..Len(fromDev), cut \in Cuts : Arrives(n, cut) /\ Learn(Buffered(n))
    BY <1>1 DEF Feed
  <2>2. /\ fromDev' \in Seq(Messages) /\ Buffered(n) \in Seq(Messages)
        /\ partial' \in {"none", "this"}
    BY <2>1, ArrivesType DEF TypeInv
  <2>3. known' \in [Cells -> Values \cup {NoValue}] /\ heard' \subseteq Fields
    BY <2>1, <2>2, LearnType DEF TypeInv
  <2>4. TypeOK'
    BY <1>1, <2>2, <2>3, EmptySeq DEF TypeInv, TypeOK, Feed, linkVars, taskVars, boundVars
  <2>5. PutsReady' BY <1>1, StillReady DEF Feed, taskVars
  <2> QED BY <2>4, <2>5 DEF TypeInv
<1>2. CASE LinkLost
  <2>1. TypeOK' BY <1>2, EmptySeq DEF TypeInv, TypeOK, LinkLost, Drop, taskVars, boundVars
  <2>2. PutsReady' BY <1>2, StillReady DEF LinkLost, taskVars
  <2> QED BY <2>1, <2>2 DEF TypeInv
<1>3. CASE Reconnect
  <2>1. odd' \in 0..MaxOdd BY <1>3, SessionAssumption DEF Reconnect, TypeInv, TypeOK
  <2>2. TypeOK' BY <1>3, <2>1, EmptySeq DEF TypeInv, TypeOK, Reconnect, Drop, taskVars
  <2>3. PutsReady' BY <1>3, StillReady DEF Reconnect, taskVars
  <2> QED BY <2>2, <2>3 DEF TypeInv
<1>4. CASE SignalUsr1
  <2>1. odd' \in 0..MaxOdd BY <1>4, SessionAssumption DEF SignalUsr1, TypeInv, TypeOK
  <2>2. TypeOK' BY <1>4, <2>1, EmptySeq DEF TypeInv, TypeOK, SignalUsr1, taskVars
  <2>3. PutsReady' BY <1>4, StillReady DEF SignalUsr1, taskVars
  <2> QED BY <2>2, <2>3 DEF TypeInv
<1> QED BY <1>1, <1>2, <1>3, <1>4

\* What the headset puts on the wire.
LEMMA StatusType ==
  ASSUME NEW f \in Fields, NEW d \in [Cells -> Values], NEW own \in BOOLEAN
  PROVE  /\ Status(f, d, own) \in Messages
         /\ Status(f, d, own).kind = "status" /\ Status(f, d, own).field = f
         /\ Status(f, d, own).mine = own
         /\ DOMAIN Status(f, d, own).vals = CellsOf(f)
         /\ \A c \in CellsOf(f) : Status(f, d, own).vals[c] = d[c]
<1>1. CellsOf(f) \subseteq Cells BY DEF CellsOf
<1>2. Status(f, d, own) \in Statuses(f) BY <1>1 DEF Status, Statuses
<1> QED BY <1>2 DEF Messages, Status

LEMMA RepliesType ==
  ASSUME TypeOK, NEW r \in Requests, NEW d \in [Cells -> Values], Replies(r, d)
  PROVE  fromDev' \in Seq(Messages)
<1>1. r.field \in Fields /\ r.mine \in BOOLEAN BY DEF Requests
<1>2. Status(r.field, d, r.mine) \in Messages BY <1>1, StatusType
<1>3. Append(fromDev, Status(r.field, d, r.mine)) \in Seq(Messages) BY <1>2 DEF TypeOK
<1> QED BY <1>3 DEF Replies, TypeOK

LEMMA ServedType ==
  ASSUME TypeOK, Served
  PROVE  /\ toDev' \in Seq(Requests) /\ Head(toDev) \in Requests
         /\ Head(toDev) = toDev[1] /\ 1 \in DOMAIN toDev
BY DEF TypeOK, Served

LEMMA TypeHeadset ==
  ASSUME TypeInv,
         \/ DeviceReads \/ DeviceSets \/ DeviceIgnores \/ DeviceRefuses \/ LinkDies
         \/ \E c \in Cells, v \in Values : DeviceChanges(c, v)
  PROVE  TypeInv'
<1>1. CASE DeviceReads
  <2>1. toDev' \in Seq(Requests) /\ Head(toDev) \in Requests
    BY <1>1, ServedType DEF DeviceReads, TypeInv
  <2>2. fromDev' \in Seq(Messages)
    BY <1>1, <2>1, RepliesType DEF DeviceReads, TypeInv, TypeOK
  <2>3. TypeOK'
    BY <1>1, <2>1, <2>2 DEF TypeInv, TypeOK, DeviceReads, linkVars, parseVars, taskVars, boundVars
  <2>4. PutsReady' BY <1>1, StillReady DEF DeviceReads, taskVars
  <2> QED BY <2>3, <2>4 DEF TypeInv
<1>2. CASE DeviceSets
  <2> DEFINE r == Head(toDev)
  <2>1. toDev' \in Seq(Requests) /\ r \in Requests
    BY <1>2, ServedType DEF DeviceSets, TypeInv
  <2>2. device' \in [Cells -> Values]
    <3>1. r.vals \in Payloads BY <2>1 DEF Requests
    <3>2. r.vals \in [DOMAIN r.vals -> Values] BY <3>1, PayloadDomain
    <3> QED BY <1>2, <3>2 DEF DeviceSets, TypeInv, TypeOK
  <2>3. fromDev' \in Seq(Messages)
    BY <1>2, <2>1, <2>2, RepliesType DEF DeviceSets, TypeInv
  <2>4. had' \in BOOLEAN BY <1>2 DEF DeviceSets, Has, TypeInv, TypeOK
  <2>5. TypeOK'
    BY <1>2, <2>1, <2>2, <2>3, <2>4
    DEF TypeInv, TypeOK, DeviceSets, linkVars, parseVars, taskVars, boundVars
  <2>6. PutsReady' BY <1>2, StillReady DEF DeviceSets, taskVars
  <2> QED BY <2>5, <2>6 DEF TypeInv
<1>3. CASE DeviceIgnores
  <2>1. toDev' \in Seq(Requests) /\ Head(toDev) \in Requests
    BY <1>3, ServedType DEF DeviceIgnores, TypeInv
  <2>2. fromDev' \in Seq(Messages)
    BY <1>3, <2>1, RepliesType DEF DeviceIgnores, TypeInv, TypeOK
  <2>3. odd' \in 0..MaxOdd BY <1>3, SessionAssumption DEF DeviceIgnores, Disturb, TypeInv, TypeOK
  <2>4. TypeOK'
    BY <1>3, <2>1, <2>2, <2>3 DEF TypeInv, TypeOK, DeviceIgnores, linkVars, parseVars, taskVars
  <2>5. PutsReady' BY <1>3, StillReady DEF DeviceIgnores, taskVars
  <2> QED BY <2>4, <2>5 DEF TypeInv
<1>4. CASE DeviceRefuses
  <2> DEFINE r == Head(toDev)
             m == [kind |-> "error", field |-> r.field, vals |-> Nothing, mine |-> r.mine]
  <2>1. toDev' \in Seq(Requests) /\ r \in Requests
    BY <1>4, ServedType DEF DeviceRefuses, TypeInv
  <2>2. m \in Messages BY <2>1 DEF Requests, Messages, Errors
  <2>3. fromDev' = Append(fromDev, m) BY <1>4 DEF DeviceRefuses
  <2> HIDE DEF m
  <2>4. fromDev' \in Seq(Messages) BY <2>2, <2>3 DEF TypeInv, TypeOK
  <2>5. odd' \in 0..MaxOdd BY <1>4, SessionAssumption DEF DeviceRefuses, Disturb, TypeInv, TypeOK
  <2>6. TypeOK'
    BY <1>4, <2>1, <2>4, <2>5 DEF TypeInv, TypeOK, DeviceRefuses, linkVars, parseVars, taskVars
  <2>7. PutsReady' BY <1>4, StillReady DEF DeviceRefuses, taskVars
  <2> QED BY <2>6, <2>7 DEF TypeInv
<1>5. CASE LinkDies
  <2>1. odd' \in 0..MaxOdd BY <1>5, SessionAssumption DEF LinkDies, Disturb, TypeInv, TypeOK
  <2>2. TypeOK' BY <1>5, <2>1, EmptySeq DEF TypeInv, TypeOK, LinkDies, parseVars, taskVars
  <2>3. PutsReady' BY <1>5, StillReady DEF LinkDies, taskVars
  <2> QED BY <2>2, <2>3 DEF TypeInv
<1>6. ASSUME NEW c \in Cells, NEW v \in Values, DeviceChanges(c, v)
      PROVE  TypeInv'
  <2>1. device' \in [Cells -> Values] BY <1>6 DEF DeviceChanges, TypeInv, TypeOK
  <2>2. FieldOf[c] \in Fields BY SessionAssumption
  <2>3. fromDev' \in Seq(Messages)
    <3> DEFINE m == Status(FieldOf[c], device', FALSE)
    <3>1. m \in Messages BY <2>1, <2>2, StatusType
    <3>2. fromDev' = Append(fromDev, m) \/ fromDev' = fromDev BY <1>6 DEF DeviceChanges
    <3> HIDE DEF m
    <3>3. fromDev \in Seq(Messages) BY DEF TypeInv, TypeOK
    <3>4. Append(fromDev, m) \in Seq(Messages) BY <3>1, <3>3, AppendProperties
    <3> QED BY <3>2, <3>3, <3>4
  <2>4. odd' \in 0..MaxOdd BY <1>6, SessionAssumption DEF DeviceChanges, Disturb, TypeInv, TypeOK
  <2>5. clean' \in BOOLEAN /\ had' \in BOOLEAN BY <1>6 DEF DeviceChanges, Has, TypeInv, TypeOK
  <2>6. TypeOK'
    BY <1>6, <2>1, <2>3, <2>4, <2>5
    DEF TypeInv, TypeOK, DeviceChanges, linkVars, parseVars, taskVars
  <2>7. PutsReady' BY <1>6, StillReady DEF DeviceChanges, taskVars
  <2> QED BY <2>6, <2>7 DEF TypeInv
<1> QED BY <1>1, <1>2, <1>3, <1>4, <1>5, <1>6

LEMMA TypeInit == Init => TypeInv
<1>1. Starts \subseteq Values BY SessionAssumption
<1>2. ASSUME Init PROVE TypeOK
  <2>1. device \in [Cells -> Values] BY <1>1, <1>2 DEF Init
  <2>2. known \in [Cells -> Values \cup {NoValue}] BY <1>2 DEF Init
  <2>3. 0 \in 0..MaxWrites /\ 0 \in 0..MaxOdd BY SessionAssumption
  <2> QED BY <1>2, <2>1, <2>2, <2>3, EmptySeq, NothingType DEF Init, TypeOK
<1>3. Init => PutsReady BY NothingType DEF Init, PutsReady
<1> QED BY <1>2, <1>3 DEF TypeInv

LEMMA TypeStep == TypeInv /\ [Next]_vars => TypeInv'
<1> SUFFICES ASSUME TypeInv, [Next]_vars PROVE TypeInv' OBVIOUS
<1>1. CASE UNCHANGED vars
  BY <1>1 DEF TypeInv, TypeOK, PutsReady, vars, linkVars, wireVars, parseVars, taskVars, boundVars
<1>2. CASE Next
  BY <1>2, TypeBegin, TypeSend, TypeRecvOthers, TypeRecvOwn, TypeGivesUp, TypeLoop, TypeHeadset
  DEF Next, Exchange, Loop, Headset
<1> QED BY <1>1, <1>2

\* The session is type correct, with any fields and bounds, and its handlers
\* never lack a value they have to write.
THEOREM TypeCorrect == Spec => []TypeOK
<1>1. Spec => []TypeInv BY TypeInit, TypeStep, PTL DEF Spec
<1>2. TypeInv => TypeOK BY DEF TypeInv
<1> QED BY <1>1, <1>2, PTL

LEMMA TypeAlways == Spec => []TypeInv
BY TypeInit, TypeStep, PTL DEF Spec

\* A connection never inherits the first part of a message from an earlier one
\* (onConnected resets the parser, also after SIGUSR1 did not).
THEOREM FramesStayIntact == Spec => []FramesIntact
<1>1. Init => FramesIntact BY DEF Init, FramesIntact
<1>2. FramesIntact /\ [Next]_vars => FramesIntact'
  BY DEF FramesIntact, Next, Exchange, Loop, Headset, Connect, Refresh, WriteAny, Write,
         Send, SendStalls, RecvOthers, RecvOwn, RecvAnswer, Arrives, WriteTimesOut,
         ReadTimesOut, LinkFails, Finish, Feed, LinkLost, Reconnect, SignalUsr1, Drop,
         Idle, DeviceReads, DeviceSets, DeviceIgnores, DeviceRefuses, DeviceChanges,
         LinkDies, vars, linkVars, wireVars, parseVars, taskVars, boundVars
<1> QED BY <1>1, <1>2, PTL DEF Spec

----------------------------------------------------------------------------
(* Who owns what is on the wire.                                           *)

LEMMA AppendElements ==
  ASSUME NEW S, NEW q \in Seq(S), NEW e \in S
  PROVE  /\ Append(q, e) \in Seq(S) /\ Len(q) \in Nat /\ Len(Append(q, e)) = Len(q) + 1
         /\ \A i \in DOMAIN Append(q, e) :
               \/ i \in DOMAIN q /\ Append(q, e)[i] = q[i]
               \/ i = Len(q) + 1 /\ Append(q, e)[i] = e
OBVIOUS

LEMMA TailElements ==
  ASSUME NEW S, NEW q \in Seq(S), q # <<>>
  PROVE  /\ Tail(q) \in Seq(S) /\ Len(q) \in Nat /\ Len(Tail(q)) = Len(q) - 1
         /\ \A i \in DOMAIN Tail(q) : i + 1 \in DOMAIN q /\ Tail(q)[i] = q[i + 1]
OBVIOUS

\* What a read leaves on its way.
LEMMA SuffixElements ==
  ASSUME TypeOK, NEW n \in 0..Len(fromDev), NEW cut \in Cuts, Arrives(n, cut)
  PROVE  /\ n \in Nat /\ Len(fromDev) \in Nat /\ Len(fromDev') = Len(fromDev) - n
         /\ \A i \in DOMAIN fromDev' :
               i + n \in DOMAIN fromDev /\ fromDev'[i] = fromDev[i + n]
<1>1. fromDev \in Seq(Messages) /\ n \in Nat /\ Len(fromDev) \in Nat BY DEF TypeOK
<1>2. fromDev' = SubSeq(fromDev, n + 1, Len(fromDev)) BY DEF Arrives
<1>3. \A i \in (n + 1)..Len(fromDev) : fromDev[i] \in Messages BY <1>1
<1>4. /\ fromDev' \in Seq(Messages)
      /\ Len(fromDev') = IF n + 1 <= Len(fromDev) THEN Len(fromDev) - (n + 1) + 1 ELSE 0
      /\ \A i \in 1..(Len(fromDev) - (n + 1) + 1) : fromDev'[i] = fromDev[(n + 1) + i - 1]
  BY <1>1, <1>2, <1>3, SubSeqProperties
<1>5. Len(fromDev') = Len(fromDev) - n BY <1>1, <1>4
<1>6. ASSUME NEW i \in DOMAIN fromDev' PROVE i + n \in DOMAIN fromDev /\ fromDev'[i] = fromDev[i + n]
  <2>1. i \in 1..(Len(fromDev) - n) BY <1>1, <1>4, <1>5
  <2>2. (n + 1) + i - 1 = i + n /\ i \in 1..(Len(fromDev) - (n + 1) + 1) BY <1>1, <2>1
  <2>3. fromDev'[i] = fromDev[(n + 1) + i - 1] BY <1>4, <2>2
  <2>4. i + n \in 1..Len(fromDev) BY <1>1, <2>1
  <2> QED BY <1>1, <2>2, <2>3, <2>4
<1> QED BY <1>1, <1>5, <1>6

\* A disowned queue differs in its marks only.
LEMMA DisownedRequests ==
  ASSUME NEW q \in Seq(Requests)
  PROVE  /\ DOMAIN Disown(q) = DOMAIN q /\ Len(Disown(q)) = Len(q)
         /\ \A i \in DOMAIN q : /\ Disown(q)[i].mine = FALSE
                                /\ Disown(q)[i].op = q[i].op
                                /\ Disown(q)[i].field = q[i].field
                                /\ Disown(q)[i].vals = q[i].vals
<1>1. ASSUME NEW x \in Requests
      PROVE  LET y == [x EXCEPT !.mine = FALSE] IN
             y.mine = FALSE /\ y.op = x.op /\ y.field = x.field /\ y.vals = x.vals
  BY DEF Requests
<1>2. DOMAIN Disown(q) = DOMAIN q /\ Len(Disown(q)) = Len(q) BY DEF Disown
<1>3. ASSUME NEW i \in DOMAIN q
      PROVE  /\ Disown(q)[i].mine = FALSE /\ Disown(q)[i].op = q[i].op
             /\ Disown(q)[i].field = q[i].field /\ Disown(q)[i].vals = q[i].vals
  <2>1. q[i] \in Requests OBVIOUS
  <2>2. Disown(q)[i] = [q[i] EXCEPT !.mine = FALSE] BY DEF Disown
  <2> QED BY <1>1, <2>1, <2>2
<1> QED BY <1>2, <1>3

LEMMA DisownedMessages ==
  ASSUME NEW q \in Seq(Messages)
  PROVE  /\ DOMAIN Disown(q) = DOMAIN q /\ Len(Disown(q)) = Len(q)
         /\ \A i \in DOMAIN q : /\ Disown(q)[i].mine = FALSE
                                /\ Disown(q)[i].kind = q[i].kind
                                /\ Disown(q)[i].field = q[i].field
                                /\ Disown(q)[i].vals = q[i].vals
<1>1. ASSUME NEW x \in Messages
      PROVE  LET y == [x EXCEPT !.mine = FALSE] IN
             y.mine = FALSE /\ y.kind = x.kind /\ y.field = x.field /\ y.vals = x.vals
  <2>1. CASE x \in Errors BY <2>1 DEF Errors
  <2>2. ASSUME NEW f \in Fields, x \in Statuses(f)
        PROVE  LET y == [x EXCEPT !.mine = FALSE] IN
               y.mine = FALSE /\ y.kind = x.kind /\ y.field = x.field /\ y.vals = x.vals
    BY <2>2 DEF Statuses
  <2> QED BY <2>1, <2>2 DEF Messages
<1>2. DOMAIN Disown(q) = DOMAIN q /\ Len(Disown(q)) = Len(q) BY DEF Disown
<1>3. ASSUME NEW i \in DOMAIN q
      PROVE  /\ Disown(q)[i].mine = FALSE /\ Disown(q)[i].kind = q[i].kind
             /\ Disown(q)[i].field = q[i].field /\ Disown(q)[i].vals = q[i].vals
  <2>1. q[i] \in Messages OBVIOUS
  <2>2. Disown(q)[i] = [q[i] EXCEPT !.mine = FALSE] BY DEF Disown
  <2> QED BY <1>1, <2>1, <2>2
<1> QED BY <1>2, <1>3

\* While the handler waits the parser holds no message.  The running exchange
\* owns one request at most, the last on its way, and once its answer is on its
\* way every request has been served.
WireInv ==
    /\ mode = "wait" => inbox = <<>>
    /\ \A i \in DOMAIN toDev : toDev[i].mine => i = Len(toDev)
    /\ \A i \in DOMAIN fromDev : fromDev[i].mine => toDev = <<>>
    /\ \A i \in DOMAIN toDev : DOMAIN toDev[i].vals \subseteq CellsOf(toDev[i].field)

LEMMA WireServed ==
  ASSUME TypeInv, WireInv, Served, UNCHANGED <<mode, inbox>>,
         NEW m \in Messages, m.mine = Head(toDev).mine,
         fromDev' = Append(fromDev, m) \/ fromDev' = fromDev
  PROVE  WireInv'
<1>1. toDev \in Seq(Requests) /\ toDev # <<>> /\ toDev' = Tail(toDev) /\ fromDev \in Seq(Messages)
  BY DEF Served, TypeInv, TypeOK
<1>2. /\ Len(toDev) \in Nat /\ Len(toDev') = Len(toDev) - 1
      /\ \A i \in DOMAIN toDev' : i + 1 \in DOMAIN toDev /\ toDev'[i] = toDev[i + 1]
  BY <1>1, TailElements
<1>3. \A i \in DOMAIN toDev' : toDev'[i].mine => i = Len(toDev')
  BY <1>1, <1>2 DEF WireInv
<1>4. \A i \in DOMAIN toDev' : DOMAIN toDev'[i].vals \subseteq CellsOf(toDev'[i].field)
  BY <1>2 DEF WireInv
<1>5. \A i \in DOMAIN fromDev : ~fromDev[i].mine BY <1>1 DEF WireInv
<1>6. m.mine => toDev' = <<>>
  <2> SUFFICES ASSUME m.mine PROVE toDev' = <<>> OBVIOUS
  <2>1. 1 \in DOMAIN toDev /\ Head(toDev) = toDev[1] BY <1>1
  <2>2. Len(toDev) = 1 BY <2>1 DEF WireInv
  <2>3. Len(toDev') = 0 /\ toDev' \in Seq(Requests) BY <1>1, <1>2, <2>2
  <2> QED BY <2>3
<1>7. \A i \in DOMAIN fromDev' : (i \in DOMAIN fromDev /\ fromDev'[i] = fromDev[i]) \/ fromDev'[i] = m
  <2>1. CASE fromDev' = fromDev BY <2>1
  <2>2. CASE fromDev' = Append(fromDev, m) BY <1>1, <2>2, AppendElements
  <2> QED BY <2>1, <2>2
<1>8. \A i \in DOMAIN fromDev' : fromDev'[i].mine => toDev' = <<>>
  BY <1>5, <1>6, <1>7
<1> QED BY <1>3, <1>4, <1>8 DEF WireInv

LEMMA WireStep == TypeInv /\ WireInv /\ [Next]_vars => WireInv'
<1> SUFFICES ASSUME TypeInv, WireInv, [Next]_vars PROVE WireInv' OBVIOUS
<1>1. CASE \/ Connect \/ Refresh \/ WriteAny \/ SendStalls \/ WriteTimesOut \/ ReadTimesOut
           \/ Finish \/ UNCHANGED vars
  <2>1. UNCHANGED wireVars
    BY <1>1 DEF Connect, Refresh, WriteAny, Write, SendStalls, WriteTimesOut, ReadTimesOut, Finish, vars
  <2>2. mode' = "wait" => mode = "wait" /\ inbox' = inbox
    BY <1>1 DEF Connect, Refresh, WriteAny, Write, SendStalls, WriteTimesOut, ReadTimesOut,
                Finish, Begin, StepFails, GoOn, vars, parseVars
  <2> QED BY <2>1, <2>2 DEF WireInv, wireVars
<1>2. CASE LinkFails \/ LinkLost \/ Reconnect \/ SignalUsr1 \/ LinkDies
  <2>1. toDev' = <<>> /\ fromDev' = <<>>
    BY <1>2 DEF LinkFails, LinkLost, Reconnect, SignalUsr1, LinkDies, Drop
  <2>2. mode' = "wait" => mode = "wait" /\ inbox' = inbox
    BY <1>2 DEF LinkFails, LinkLost, Reconnect, SignalUsr1, LinkDies, Idle, parseVars
  <2> QED BY <2>1, <2>2 DEF WireInv
<1>3. CASE Send
  <2> DEFINE s == Head(todo)
             r == [op |-> s.op, field |-> s.field, vals |-> PutVals(s), mine |-> TRUE]
             q == Disown(toDev)
  <2>1. todo # <<>> BY <1>3 DEF Send, TypeInv, TypeOK
  <2>2. /\ s \in Steps /\ PutVals(s) \in Payloads /\ PutVals(s) \in [s.cells -> Values]
        /\ s.cells \subseteq CellsOf(s.field)
    BY <2>1, PutValsType
  <2>3. r \in Requests /\ DOMAIN r.vals \subseteq CellsOf(r.field)
    BY <2>2 DEF Steps, Requests
  <2>4. toDev \in Seq(Requests) /\ fromDev \in Seq(Messages) /\ q \in Seq(Requests)
    BY DisownRequests DEF TypeInv, TypeOK
  <2>5. toDev' = Append(q, r) /\ fromDev' = Disown(fromDev) /\ inbox' = <<>>
    BY <1>3 DEF Send, Flush
  <2>6. \A i \in DOMAIN q : /\ q[i].mine = FALSE
                            /\ DOMAIN q[i].vals \subseteq CellsOf(q[i].field)
    BY <2>4, DisownedRequests DEF WireInv
  <2>7. \A i \in DOMAIN fromDev' : fromDev'[i].mine = FALSE BY <2>4, <2>5, DisownedMessages
  <2> HIDE DEF r, q
  <2>8. /\ Len(toDev') = Len(q) + 1
        /\ \A i \in DOMAIN toDev' : \/ i \in DOMAIN q /\ toDev'[i] = q[i]
                                    \/ i = Len(q) + 1 /\ toDev'[i] = r
    BY <2>3, <2>4, <2>5, AppendElements
  <2> QED BY <2>3, <2>5, <2>6, <2>7, <2>8 DEF WireInv
<1>4. CASE RecvOthers \/ RecvOwn \/ Feed
  <2>1. PICK n \in 0..Len(fromDev), cut \in Cuts : Arrives(n, cut)
    BY <1>4 DEF RecvOthers, RecvOwn, RecvAnswer, Feed
  <2>2. toDev' = toDev BY <1>4 DEF RecvOthers, RecvOwn, Feed
  <2>3. \A i \in DOMAIN fromDev' : i + n \in DOMAIN fromDev /\ fromDev'[i] = fromDev[i + n]
    BY <2>1, SuffixElements DEF TypeInv
  <2>4. mode' = "wait" => inbox' = <<>>
    BY <1>4 DEF RecvOthers, RecvOwn, RecvAnswer, Feed, StepFails, GoOn
  <2> QED BY <2>2, <2>3, <2>4 DEF WireInv
<1>5. CASE DeviceReads \/ DeviceSets \/ DeviceIgnores
  <2> DEFINE r == Head(toDev)
  <2>1. Served /\ r \in Requests /\ UNCHANGED <<mode, inbox>>
    BY <1>5, ServedType DEF DeviceReads, DeviceSets, DeviceIgnores, parseVars, TypeInv
  <2>2. PICK d \in [Cells -> Values] : Replies(r, d)
    <3>1. TypeOK' BY TypeStep DEF TypeInv
    <3> QED BY <1>5, <3>1 DEF DeviceReads, DeviceSets, DeviceIgnores, TypeInv, TypeOK
  <2> DEFINE m == Status(r.field, d, r.mine)
  <2>3. m \in Messages /\ m.mine = r.mine BY <2>1, StatusType DEF Requests
  <2>4. fromDev' = Append(fromDev, m) \/ fromDev' = fromDev BY <2>2 DEF Replies
  <2> HIDE DEF m
  <2> QED BY <2>1, <2>3, <2>4, WireServed
<1>6. CASE DeviceRefuses
  <2> DEFINE r == Head(toDev)
             m == [kind |-> "error", field |-> r.field, vals |-> Nothing, mine |-> r.mine]
  <2>1. Served /\ r \in Requests /\ UNCHANGED <<mode, inbox>>
    BY <1>6, ServedType DEF DeviceRefuses, parseVars, TypeInv
  <2>2. m \in Messages /\ m.mine = r.mine BY <2>1 DEF Requests, Messages, Errors
  <2>3. fromDev' = Append(fromDev, m) BY <1>6 DEF DeviceRefuses
  <2> HIDE DEF m
  <2> QED BY <2>1, <2>2, <2>3, WireServed
<1>7. ASSUME NEW c \in Cells, NEW v \in Values, DeviceChanges(c, v)
      PROVE  WireInv'
  <2> DEFINE m == Status(FieldOf[c], device', FALSE)
  <2>1. TypeOK' BY TypeStep DEF TypeInv
  <2>2. m \in Messages /\ m.mine = FALSE
    <3>1. FieldOf[c] \in Fields /\ device' \in [Cells -> Values]
      BY <2>1, SessionAssumption DEF TypeOK
    <3> QED BY <3>1, StatusType
  <2>3. fromDev' = Append(fromDev, m) \/ fromDev' = fromDev BY <1>7 DEF DeviceChanges
  <2>4. fromDev \in Seq(Messages) BY DEF TypeInv, TypeOK
  <2>5. UNCHANGED <<toDev, mode, inbox>> BY <1>7 DEF DeviceChanges, parseVars
  <2> HIDE DEF m
  <2>6. \A i \in DOMAIN fromDev' : (i \in DOMAIN fromDev /\ fromDev'[i] = fromDev[i]) \/ fromDev'[i] = m
    <3>1. CASE fromDev' = fromDev BY <3>1
    <3>2. CASE fromDev' = Append(fromDev, m) BY <2>2, <2>4, <3>2, AppendElements
    <3> QED BY <2>3, <3>1, <3>2
  <2> QED BY <2>2, <2>5, <2>6 DEF WireInv
<1> QED BY <1>1, <1>2, <1>3, <1>4, <1>5, <1>6, <1>7 DEF Next, Exchange, Loop, Headset

LEMMA WireAlways == Spec => []WireInv
<1>1. Init => WireInv BY DEF Init, WireInv
<1>2. TypeInv /\ WireInv /\ [Next]_vars => WireInv' BY WireStep
<1> QED BY <1>1, <1>2, TypeAlways, PTL DEF Spec

----------------------------------------------------------------------------
(* A confirmed write has been in effect.                                   *)

\* What a command wants is noticed as soon as the headset has it.
HadInv == kind = "write" /\ Has(device) => had

\* The last step of a command reads back all it wants.
ReadBackInv ==
    kind = "write" /\ todo # <<>> =>
        /\ todo[Len(todo)].op = "get"
        /\ DOMAIN want \subseteq CellsOf(todo[Len(todo)].field)

\* m is an answer of the running exchange that tells all the command wants.
Grants(m) ==
    /\ m.mine /\ m.kind = "status" /\ DOMAIN want \subseteq DOMAIN m.vals
    /\ \A c \in DOMAIN want : m.vals[c] = want[c]

\* Such an answer was true when it was sent.
GrantInv ==
    kind = "write" /\ mode = "wait" => \A i \in DOMAIN fromDev : Grants(fromDev[i]) => had

LEMMA HadStep == TypeInv /\ HadInv /\ [Next]_vars => HadInv'
<1> SUFFICES ASSUME TypeInv, HadInv, [Next]_vars PROVE HadInv' OBVIOUS
<1>1. CASE Connect \/ Refresh \/ Finish
  BY <1>1 DEF Connect, Refresh, Finish, Begin, HadInv
<1>2. ASSUME NEW f \in Fields, NEW v \in [CellsOf(f) \cap Asked -> Values], Write(f, v)
      PROVE  HadInv'
  BY <1>2 DEF Write, HadInv, Has
<1>3. CASE DeviceSets
  BY <1>3 DEF DeviceSets, HadInv, Has, taskVars
<1>4. ASSUME NEW c \in Cells, NEW v \in Values, DeviceChanges(c, v)
      PROVE  HadInv'
  BY <1>4 DEF DeviceChanges, HadInv, Has, taskVars
<1>5. CASE \/ Send \/ SendStalls \/ RecvOthers \/ RecvOwn \/ WriteTimesOut \/ ReadTimesOut
           \/ LinkFails \/ Feed \/ LinkLost \/ Reconnect \/ SignalUsr1
           \/ DeviceReads \/ DeviceIgnores \/ DeviceRefuses \/ LinkDies \/ UNCHANGED vars
  <2>1. UNCHANGED <<kind, want, device, had>>
    BY <1>5 DEF Send, SendStalls, RecvOthers, RecvOwn, WriteTimesOut, ReadTimesOut, LinkFails,
       Feed, LinkLost, Reconnect, SignalUsr1, DeviceReads, DeviceIgnores, DeviceRefuses,
       LinkDies, vars, taskVars
  <2> QED BY <2>1 DEF HadInv, Has
<1> QED BY <1>1, <1>2, <1>3, <1>4, <1>5 DEF Next, Exchange, Loop, Headset, WriteAny

LEMMA TailReadsBack ==
  ASSUME TypeInv, ReadBackInv, todo # <<>>, todo' = Tail(todo), UNCHANGED <<kind, want>>
  PROVE  ReadBackInv'
<1>1. /\ Len(todo) \in Nat /\ Len(todo') = Len(todo) - 1 /\ todo' \in Seq(Steps)
      /\ \A i \in DOMAIN todo' : todo'[i] = todo[i + 1]
  BY TailElements DEF TypeInv, TypeOK
<1> SUFFICES ASSUME todo' # <<>> PROVE todo'[Len(todo')] = todo[Len(todo)]
  BY DEF ReadBackInv
<1>2. Len(todo') \in DOMAIN todo' /\ Len(todo') + 1 = Len(todo) BY <1>1
<1> QED BY <1>1, <1>2

LEMMA FailReadsBack ==
  ASSUME TypeInv, ReadBackInv, todo # <<>>, StepFails, UNCHANGED <<kind, want>>
  PROVE  ReadBackInv'
<1> SUFFICES ASSUME kind = "write", todo' # <<>> PROVE ReadBackInv'
  BY DEF ReadBackInv
<1> DEFINE s == Head(todo)
<1>1. todo' = <<Step("get", s.field, {})>> BY DEF StepFails, GoOn
<1>2. todo' # <<>> /\ Len(todo') = 1 /\ todo'[1] = Step("get", s.field, {}) BY <1>1
<1>3. Len(todo) \in DOMAIN todo /\ s = todo[1] BY DEF TypeInv, TypeOK
<1>4. todo[Len(todo)].field = s.field BY <1>3 DEF TypeInv, PutsReady
<1>5. DOMAIN want \subseteq CellsOf(s.field) BY <1>4 DEF ReadBackInv
<1> QED BY <1>2, <1>5 DEF ReadBackInv, Step

LEMMA ReadBackStep == TypeInv /\ ReadBackInv /\ [Next]_vars => ReadBackInv'
<1> SUFFICES ASSUME TypeInv, ReadBackInv, [Next]_vars PROVE ReadBackInv' OBVIOUS
<1>1. CASE Connect \/ Refresh \/ Finish
  BY <1>1 DEF Connect, Refresh, Finish, Begin, ReadBackInv
<1>2. ASSUME NEW f \in Fields, NEW v \in [CellsOf(f) \cap Asked -> Values], Write(f, v)
      PROVE  ReadBackInv'
  <2>1. todo' = WriteSteps(f) /\ want' = v BY <1>2 DEF Write, Begin, GoOn
  <2>2. todo'[Len(todo')] = Step("get", f, {}) BY <2>1, WriteStepsFacts
  <2> QED BY <2>1, <2>2 DEF ReadBackInv, Step
<1>3. CASE LinkFails
  BY <1>3 DEF LinkFails, ReadBackInv
<1>4. CASE SendStalls \/ ReadTimesOut
  <2>1. todo # <<>> BY <1>4 DEF SendStalls, ReadTimesOut, TypeInv, TypeOK
  <2>2. StepFails /\ UNCHANGED <<kind, want>> BY <1>4 DEF SendStalls, ReadTimesOut, taskVars
  <2> QED BY <2>1, <2>2, FailReadsBack
<1>5. CASE WriteTimesOut
  <2>1. todo # <<>> BY <1>5 DEF WriteTimesOut, TypeInv, TypeOK
  <2>2. todo' = Tail(todo) /\ UNCHANGED <<kind, want>> BY <1>5 DEF WriteTimesOut, GoOn, taskVars
  <2> QED BY <2>1, <2>2, TailReadsBack
<1>6. CASE RecvOwn
  <2>1. todo # <<>> BY <1>6 DEF RecvOwn, TypeInv, TypeOK
  <2>2. (StepFails \/ todo' = Tail(todo)) /\ UNCHANGED <<kind, want>>
    BY <1>6 DEF RecvOwn, RecvAnswer, GoOn
  <2> QED BY <2>1, <2>2, TailReadsBack, FailReadsBack
<1>7. CASE \/ Send \/ RecvOthers \/ Feed \/ LinkLost \/ Reconnect \/ SignalUsr1
           \/ DeviceReads \/ DeviceSets \/ DeviceIgnores \/ DeviceRefuses \/ LinkDies
           \/ (\E c \in Cells, v \in Values : DeviceChanges(c, v)) \/ UNCHANGED vars
  <2>1. UNCHANGED <<kind, want, todo>>
    BY <1>7 DEF Send, RecvOthers, Feed, LinkLost, Reconnect, SignalUsr1, DeviceReads, DeviceSets,
       DeviceIgnores, DeviceRefuses, DeviceChanges, LinkDies, vars, taskVars
  <2> QED BY <2>1 DEF ReadBackInv
<1> QED BY <1>1, <1>2, <1>3, <1>4, <1>5, <1>6, <1>7 DEF Next, Exchange, Loop, Headset, WriteAny

\* A message the headset adds, true of the settings it then has, or not ours.
LEMMA GrantAdded ==
  ASSUME TypeInv, TypeInv', HadInv', GrantInv, UNCHANGED <<kind, want, mode>>, had => had',
         NEW m \in Messages,
         fromDev' = Append(fromDev, m) \/ fromDev' = fromDev,
         \/ ~m.mine \/ m.kind = "error"
         \/ \A c \in DOMAIN m.vals : m.vals[c] = device'[c]
  PROVE  GrantInv'
<1> SUFFICES ASSUME kind = "write", mode = "wait", NEW i \in DOMAIN fromDev',
                    fromDev'[i].mine, fromDev'[i].kind = "status",
                    DOMAIN want \subseteq DOMAIN fromDev'[i].vals,
                    \A c \in DOMAIN want : fromDev'[i].vals[c] = want[c]
             PROVE  had'
  BY DEF GrantInv, Grants
<1>1. (i \in DOMAIN fromDev /\ fromDev'[i] = fromDev[i]) \/ fromDev'[i] = m
  <2>1. CASE fromDev' = fromDev BY <2>1
  <2>2. CASE fromDev' = Append(fromDev, m) BY <2>2, AppendElements DEF TypeInv, TypeOK
  <2> QED BY <2>1, <2>2
<1>2. CASE i \in DOMAIN fromDev /\ fromDev'[i] = fromDev[i]
  BY <1>2 DEF GrantInv, Grants
<1>3. CASE fromDev'[i] = m
  <2>1. /\ m.mine /\ m.kind = "status" /\ DOMAIN want \subseteq DOMAIN m.vals
        /\ \A c \in DOMAIN want : m.vals[c] = want[c]
    BY <1>3
  <2>2. m.kind # "error" BY <2>1
  <2>3. \A c \in DOMAIN want : device'[c] = want[c] BY <2>1, <2>2
  <2> QED BY <2>3 DEF HadInv, Has
<1> QED BY <1>1, <1>2, <1>3

\* The headset serving or changing does not undo what it has had.
LEMMA HadMonotone ==
  ASSUME \/ DeviceReads \/ DeviceSets \/ DeviceIgnores \/ DeviceRefuses \/ LinkDies
         \/ \E c \in Cells, v \in Values : DeviceChanges(c, v)
  PROVE  had => had'
<1>1. CASE DeviceReads \/ DeviceIgnores \/ DeviceRefuses \/ LinkDies
  BY <1>1 DEF DeviceReads, DeviceIgnores, DeviceRefuses, LinkDies
<1>2. CASE DeviceSets
  <2>1. had' = (had \/ Has(device')) BY <1>2 DEF DeviceSets
  <2> QED BY <2>1, Zenon
<1>3. ASSUME NEW c \in Cells, NEW v \in Values, DeviceChanges(c, v)
      PROVE  had => had'
  <2>1. had' = (had \/ (kind = "write" /\ Has(device'))) BY <1>3 DEF DeviceChanges
  <2> QED BY <2>1, Zenon
<1> QED BY <1>1, <1>2, <1>3

\* Nor does it mend a command's history.
LEMMA CleanStays ==
  ASSUME \/ DeviceReads \/ DeviceSets \/ DeviceIgnores \/ DeviceRefuses \/ LinkDies
         \/ \E c \in Cells, v \in Values : DeviceChanges(c, v)
  PROVE  clean' => clean
<1>1. CASE DeviceReads \/ DeviceSets \/ DeviceIgnores \/ DeviceRefuses \/ LinkDies
  BY <1>1 DEF DeviceReads, DeviceSets, DeviceIgnores, DeviceRefuses, LinkDies
<1>2. ASSUME NEW c \in Cells, NEW v \in Values, DeviceChanges(c, v)
      PROVE  clean' => clean
  <2>1. clean' = (clean /\ (kind = "write" => c \in Asked)) BY <1>2 DEF DeviceChanges
  <2> QED BY <2>1, Zenon
<1> QED BY <1>1, <1>2

\* A list whose tail is empty has one step, its first.
LEMMA LastStep ==
  ASSUME TypeInv, todo # <<>>, Tail(todo) = <<>>
  PROVE  Len(todo) = 1 /\ Head(todo) = todo[1]
<1>1. todo \in Seq(Steps) /\ Len(todo) \in Nat BY DEF TypeInv, TypeOK
<1>2. Len(Tail(todo)) = Len(todo) - 1 /\ Tail(todo) \in Seq(Steps) BY <1>1, TailElements
<1> DEFINE t == Tail(todo)
<1>3. t \in Seq(Steps) /\ t = <<>> BY <1>2
<1> HIDE DEF t
<1>4. Len(t) = 0 BY <1>3
<1>5. Len(todo) = 1 BY <1>1, <1>2, <1>4 DEF t
<1> QED BY <1>1, <1>5

LEMMA GrantStep == TypeInv /\ HadInv /\ GrantInv /\ [Next]_vars => GrantInv'
<1> SUFFICES ASSUME TypeInv, HadInv, GrantInv, [Next]_vars PROVE GrantInv' OBVIOUS
<1>1. TypeInv' /\ HadInv' BY TypeStep, HadStep
<1>2. CASE Send
  <2>1. \A i \in DOMAIN fromDev' : fromDev'[i].mine = FALSE
    BY <1>2, DisownedMessages DEF Send, TypeInv, TypeOK
  <2> QED BY <2>1 DEF GrantInv, Grants
<1>3. CASE RecvOthers
  <2>1. PICK n \in 0..Len(fromDev), cut \in Cuts : Arrives(n, cut) BY <1>3 DEF RecvOthers
  <2>2. \A i \in DOMAIN fromDev' : i + n \in DOMAIN fromDev /\ fromDev'[i] = fromDev[i + n]
    BY <2>1, SuffixElements DEF TypeInv
  <2>3. UNCHANGED <<kind, want, mode, had>> BY <1>3 DEF RecvOthers, taskVars
  <2> QED BY <2>2, <2>3 DEF GrantInv, Grants
<1>4. CASE DeviceReads \/ DeviceSets \/ DeviceIgnores
  <2> DEFINE r == Head(toDev)
  <2>1. r \in Requests /\ UNCHANGED <<kind, want, mode>>
    BY <1>4, ServedType DEF DeviceReads, DeviceSets, DeviceIgnores, taskVars, TypeInv
  <2>5. had => had' BY <1>4, HadMonotone
  <2>2. Replies(r, device') /\ device' \in [Cells -> Values]
    BY <1>1, <1>4 DEF DeviceReads, DeviceSets, DeviceIgnores, TypeInv, TypeOK
  <2> DEFINE m == Status(r.field, device', r.mine)
  <2>3. m \in Messages /\ \A c \in DOMAIN m.vals : m.vals[c] = device'[c]
    BY <2>1, <2>2, StatusType DEF Requests, Status
  <2>4. fromDev' = Append(fromDev, m) \/ fromDev' = fromDev BY <2>2 DEF Replies
  <2> HIDE DEF m
  <2> QED BY <1>1, <2>1, <2>3, <2>4, <2>5, GrantAdded
<1>5. CASE DeviceRefuses
  <2> DEFINE r == Head(toDev)
             m == [kind |-> "error", field |-> r.field, vals |-> Nothing, mine |-> r.mine]
  <2>1. r \in Requests /\ UNCHANGED <<kind, want, mode, had>>
    BY <1>5, ServedType DEF DeviceRefuses, taskVars, TypeInv
  <2>2. m \in Messages /\ m.kind = "error" BY <2>1 DEF Requests, Messages, Errors
  <2>3. fromDev' = Append(fromDev, m) BY <1>5 DEF DeviceRefuses
  <2> HIDE DEF m
  <2> QED BY <1>1, <2>1, <2>2, <2>3, GrantAdded
<1>6. ASSUME NEW c \in Cells, NEW v \in Values, DeviceChanges(c, v)
      PROVE  GrantInv'
  <2> DEFINE m == Status(FieldOf[c], device', FALSE)
  <2>1. m \in Messages /\ ~m.mine
    <3>1. FieldOf[c] \in Fields /\ device' \in [Cells -> Values]
      BY <1>1, SessionAssumption DEF TypeInv, TypeOK
    <3> QED BY <3>1, StatusType
  <2>2. fromDev' = Append(fromDev, m) \/ fromDev' = fromDev BY <1>6 DEF DeviceChanges
  <2>3. UNCHANGED <<kind, want, mode>> /\ (had => had')
    <3>1. had => had' BY <1>6, HadMonotone
    <3> QED BY <1>6, <3>1 DEF DeviceChanges, taskVars
  <2> HIDE DEF m
  <2> QED BY <1>1, <2>1, <2>2, <2>3, GrantAdded
<1>7. CASE LinkDies
  <2>1. DOMAIN fromDev' = {} BY <1>7 DEF LinkDies
  <2> QED BY <2>1 DEF GrantInv
<1>8. CASE UNCHANGED vars
  BY <1>8 DEF vars, wireVars, taskVars, GrantInv, Grants
<1>9. CASE SendStalls \/ RecvOwn \/ WriteTimesOut \/ ReadTimesOut
  <2>1. mode' # "wait"
    BY <1>9 DEF SendStalls, RecvOwn, RecvAnswer, WriteTimesOut, ReadTimesOut, StepFails, GoOn
  <2> QED BY <2>1 DEF GrantInv
<1>10. CASE \/ LinkFails \/ Finish \/ Feed \/ LinkLost \/ Connect \/ Refresh \/ WriteAny
            \/ Reconnect \/ SignalUsr1
  <2>1. mode' # "wait"
    BY <1>10 DEF LinkFails, Finish, Feed, LinkLost, Connect, Refresh, WriteAny, Write, Begin,
       Reconnect, SignalUsr1, Idle, GoOn
  <2> QED BY <2>1 DEF GrantInv
<1> QED BY <1>2, <1>3, <1>4, <1>5, <1>6, <1>7, <1>8, <1>9, <1>10
        DEF Next, Exchange, Loop, Headset

\* The answer is a message the link has just brought.
LEMMA AnswerOnWire ==
  ASSUME TypeInv, WireInv, mode = "wait", NEW n \in 0..Len(fromDev), NEW cut \in Cuts,
         RecvAnswer(n, cut)
  PROVE  LET ms == Buffered(n)
             j  == Min(Answers(ms))
         IN /\ ms \in Seq(Messages) /\ j \in 1..Len(ms)
            /\ j \in DOMAIN fromDev /\ ms[j] = fromDev[j] /\ fromDev[j] \in Messages
            /\ ms[j].field = Head(todo).field
<1> DEFINE ms == Buffered(n)
           j  == Min(Answers(ms))
<1>1. ms \in Seq(Messages) BY ArrivesType DEF RecvAnswer, TypeInv
<1>2. j \in 1..Len(ms) /\ ms[j] \in Messages /\ ms[j].field = Head(todo).field
  BY <1>1, AnswerIndex DEF RecvAnswer
<1>3. fromDev \in Seq(Messages) /\ n \in Nat /\ Len(fromDev) \in Nat BY DEF TypeInv, TypeOK
<1>4. \A i \in 1..n : fromDev[i] \in Messages BY <1>3
<1>5. ms = SubSeq(fromDev, 1, n)
  <2>1. inbox = <<>> BY DEF WireInv
  <2>2. SubSeq(fromDev, 1, n) \in Seq(Messages) BY <1>3, <1>4, SubSeqProperties
  <2> QED BY <2>1, <2>2 DEF Buffered
<1>6. Len(ms) = n /\ \A i \in 1..n : ms[i] = fromDev[i]
  <2>1. 1 <= n => Len(ms) = n BY <1>3, <1>4, <1>5, SubSeqProperties
  <2>2. ~(1 <= n) => Len(ms) = 0 /\ n = 0 BY <1>3, <1>4, <1>5, SubSeqProperties
  <2>3. \A i \in 1..n : ms[i] = fromDev[i] BY <1>3, <1>4, <1>5, SubSeqProperties
  <2> QED BY <2>1, <2>2, <2>3
<1> HIDE DEF ms, j
<1>7. j \in DOMAIN fromDev /\ ms[j] = fromDev[j] BY <1>2, <1>3, <1>6
<1> QED BY <1>1, <1>2, <1>7 DEF ms, j

\* The answer to the read-back decides what StateEngine has of the field.
LEMMA ReadBackLearned ==
  ASSUME TypeInv, WireInv, mode = "wait", NEW n \in 0..Len(fromDev), NEW cut \in Cuts,
         RecvAnswer(n, cut), Head(todo).op = "get"
  PROVE  LET m == Buffered(n)[Min(Answers(Buffered(n)))] IN
         m.kind = "status" =>
            \A c \in CellsOf(Head(todo).field) : c \in DOMAIN m.vals /\ known'[c] = m.vals[c]
<1> DEFINE ms == Buffered(n)
           j  == Min(Answers(ms))
           us == SubSeq(ms, 1, j)
<1>1. /\ ms \in Seq(Messages) /\ j \in 1..Len(ms) /\ ms[j] \in Messages
      /\ ms[j].field = Head(todo).field
  BY AnswerOnWire
<1>2. known' = Applied(known, us) BY DEF RecvAnswer, Learn
<1> HIDE DEF ms, j
<1>3. us \in Seq(Messages) /\ Len(us) = j /\ \A i \in 1..j : us[i] = ms[i]
  <2>1. j \in Nat /\ 1 <= j /\ Len(ms) \in Nat /\ \A i \in 1..j : ms[i] \in Messages BY <1>1
  <2> QED BY <1>1, <2>1, SubSeqProperties
<1> HIDE DEF us
<1>4. ASSUME ms[j].kind = "status", NEW c \in CellsOf(Head(todo).field)
      PROVE  c \in DOMAIN ms[j].vals /\ known'[c] = ms[j].vals[c]
  <2>1. ms[j].vals \in [CellsOf(Head(todo).field) -> Values] BY <1>1, <1>4, MessageFacts
  <2>2. c \in DOMAIN ms[j].vals /\ c \in Cells BY <2>1 DEF CellsOf
  <2>3. j \in 1..j /\ us[j] = ms[j] BY <1>1, <1>3
  <2>4. j \in Tells(us, c) BY <1>3, <1>4, <2>2, <2>3 DEF Tells
  <2>5. \A i \in Tells(us, c) : i <= j BY <1>1, <1>3 DEF Tells
  <2>6. Applied(known, us)[c] = us[j].vals[c] BY <1>3, <2>2, <2>4, <2>5, AppliedLast
  <2> QED BY <1>2, <2>2, <2>3, <2>6
<1> QED BY <1>4 DEF ms, j

\* A step that is not the last of a command does not end it.
LEMMA ConfirmedStep ==
  TypeInv /\ WireInv /\ ReadBackInv /\ GrantInv /\ ConfirmedByOwnAnswers /\ [Next]_vars
    => ConfirmedByOwnAnswers'
<1> SUFFICES ASSUME TypeInv, WireInv, ReadBackInv, GrantInv, ConfirmedByOwnAnswers, [Next]_vars
             PROVE  ConfirmedByOwnAnswers'
  OBVIOUS
<1>1. CASE RecvOwn
  <2> SUFFICES ASSUME mode' = "done", kind' = "write", ~failed', clean',
                      \A c \in DOMAIN want' : known'[c] = want'[c]
               PROVE  had'
    BY DEF ConfirmedByOwnAnswers, Confirmed
  <2>1. PICK n \in 0..Len(fromDev), cut \in Cuts : RecvAnswer(n, cut) BY <1>1 DEF RecvOwn
  <2>2. mode = "wait" /\ todo # <<>> /\ kind = "write" /\ want' = want /\ had' = had
    BY <1>1 DEF RecvOwn, TypeInv, TypeOK
  <2> DEFINE ms == Buffered(n)
             j  == Min(Answers(ms))
             s  == Head(todo)
  <2>3. ms[j].kind # "error" /\ GoOn(Tail(todo)) /\ ms[j].mine
    BY <2>1 DEF RecvAnswer, StepFails
  <2>4. Tail(todo) = <<>> BY <2>3 DEF GoOn
  <2>5. Len(todo) = 1 /\ s = todo[1] BY <2>2, <2>4, LastStep
  <2>6. s.op = "get" /\ DOMAIN want \subseteq CellsOf(s.field)
    BY <2>2, <2>5 DEF ReadBackInv
  <2>7. /\ j \in DOMAIN fromDev /\ ms[j] = fromDev[j] /\ fromDev[j] \in Messages
        /\ fromDev[j].kind = "status" =>
              \A c \in CellsOf(s.field) :
                 c \in DOMAIN fromDev[j].vals /\ known'[c] = fromDev[j].vals[c]
    <3>1. j \in DOMAIN fromDev /\ ms[j] = fromDev[j] /\ fromDev[j] \in Messages
      BY <2>1, <2>2, AnswerOnWire
    <3>2. ms[j].kind = "status" =>
              \A c \in CellsOf(s.field) : c \in DOMAIN ms[j].vals /\ known'[c] = ms[j].vals[c]
      BY <2>1, <2>2, <2>6, ReadBackLearned
    <3> QED BY <3>1, <3>2
  <2> HIDE DEF ms, j, s
  <2>8. fromDev[j].kind = "status" /\ fromDev[j].mine BY <2>3, <2>7, MessageFacts
  <2>9. Grants(fromDev[j]) BY <2>2, <2>6, <2>7, <2>8 DEF Grants
  <2> QED BY <2>2, <2>7, <2>9 DEF GrantInv
<1>2. CASE WriteTimesOut
  <2> SUFFICES ASSUME mode' = "done", kind' = "write" PROVE FALSE
    BY DEF ConfirmedByOwnAnswers
  <2>1. todo # <<>> /\ Head(todo).op = "put" /\ GoOn(Tail(todo)) /\ kind = "write"
    BY <1>2 DEF WriteTimesOut, TypeInv, TypeOK, taskVars
  <2>2. Tail(todo) = <<>> BY <2>1 DEF GoOn
  <2>3. Len(todo) = 1 /\ Head(todo) = todo[1] BY <2>1, <2>2, LastStep
  <2> QED BY <2>1, <2>3 DEF ReadBackInv
<1>3. CASE SendStalls \/ ReadTimesOut \/ LinkFails
  BY <1>3 DEF SendStalls, ReadTimesOut, LinkFails, StepFails, ConfirmedByOwnAnswers, Confirmed
<1>4. CASE Send \/ RecvOthers \/ Feed \/ LinkLost \/ Reconnect \/ SignalUsr1
  BY <1>4 DEF Send, RecvOthers, Feed, LinkLost, Reconnect, SignalUsr1, Idle, ConfirmedByOwnAnswers
<1>5. CASE Connect \/ Refresh \/ Finish
  BY <1>5 DEF Connect, Refresh, Finish, Begin, ConfirmedByOwnAnswers
<1>6. ASSUME NEW f \in Fields, NEW v \in [CellsOf(f) \cap Asked -> Values], Write(f, v)
      PROVE  ConfirmedByOwnAnswers'
  <2>1. WriteSteps(f) # <<>> BY WriteStepsFacts
  <2> QED BY <1>6, <2>1 DEF Write, Begin, GoOn, ConfirmedByOwnAnswers
<1>7. CASE \/ DeviceReads \/ DeviceSets \/ DeviceIgnores \/ DeviceRefuses \/ LinkDies
           \/ \E c \in Cells, v \in Values : DeviceChanges(c, v)
  <2>1. UNCHANGED <<mode, kind, want, known, failed>>
    BY <1>7 DEF DeviceReads, DeviceSets, DeviceIgnores, DeviceRefuses, LinkDies, DeviceChanges,
       taskVars
  <2>2. clean' => clean BY <1>7, CleanStays
  <2>3. had => had' BY <1>7, HadMonotone
  <2> QED BY <2>1, <2>2, <2>3 DEF ConfirmedByOwnAnswers, Confirmed
<1>8. CASE UNCHANGED vars
  BY <1>8 DEF vars, taskVars, ConfirmedByOwnAnswers, Confirmed
<1> QED BY <1>1, <1>2, <1>3, <1>4, <1>5, <1>6, <1>7, <1>8
        DEF Next, Exchange, Loop, Headset, WriteAny

\* A write whose answers were its own and that is reported as done has been in
\* effect in the headset (the read-back of setCnc, setEq, setSidetone, ...).
THEOREM WritesAreConfirmed == Spec => []ConfirmedByOwnAnswers
<1> DEFINE I == HadInv /\ ReadBackInv /\ GrantInv /\ ConfirmedByOwnAnswers
<1>1. Init => I
  BY DEF Init, HadInv, ReadBackInv, GrantInv, ConfirmedByOwnAnswers
<1>2. TypeInv /\ WireInv /\ I /\ [Next]_vars => I'
  BY HadStep, ReadBackStep, GrantStep, ConfirmedStep
<1>3. I => ConfirmedByOwnAnswers OBVIOUS
<1> QED BY <1>1, <1>2, <1>3, TypeAlways, WireAlways, PTL DEF Spec

----------------------------------------------------------------------------
(* A command leaves alone what it is not about.                            *)

\* What the command has read and is not about is still so, and what is written
\* of it, now or later, is the same.
RestKept ==
    \A c \in DOMAIN base \ Asked :
        /\ device[c] = base[c]
        /\ \A i \in DOMAIN toDev :
              toDev[i].op = "put" /\ c \in DOMAIN toDev[i].vals => toDev[i].vals[c] = device[c]

OwnPutsRead ==
    \A i \in DOMAIN toDev : toDev[i].mine /\ toDev[i].op = "put" =>
        DOMAIN toDev[i].vals \ Asked \subseteq DOMAIN base

OwnToldTrue ==
    \A i \in DOMAIN fromDev : fromDev[i].mine /\ fromDev[i].kind = "status" =>
        \A c \in DOMAIN fromDev[i].vals \ Asked : fromDev[i].vals[c] = device[c]

RestInv ==
    kind = "write" /\ clean => RestKept /\ (mode = "wait" => OwnPutsRead /\ OwnToldTrue)

\* Serving a request keeps it.
LEMMA RestServed ==
  ASSUME TypeInv, WireInv, RestInv, Served, UNCHANGED <<kind, clean, base, mode>>,
         NEW m \in Messages, fromDev' = Append(fromDev, m) \/ fromDev' = fromDev,
         m.kind = "error" \/ \A c \in DOMAIN m.vals : m.vals[c] = device'[c],
         \A c \in Cells :
            \/ device'[c] = device[c]
            \/ /\ Head(toDev).op = "put" /\ c \in DOMAIN Head(toDev).vals
               /\ device'[c] = Head(toDev).vals[c]
  PROVE  RestInv'
<1> SUFFICES ASSUME kind = "write", clean
             PROVE  RestKept' /\ (mode = "wait" => OwnPutsRead' /\ OwnToldTrue')
  BY DEF RestInv
<1>1. toDev \in Seq(Requests) /\ toDev # <<>> /\ toDev' = Tail(toDev) /\ fromDev \in Seq(Messages)
  BY DEF Served, TypeInv, TypeOK
<1>2. /\ Head(toDev) = toDev[1] /\ 1 \in DOMAIN toDev
      /\ \A i \in DOMAIN toDev' : i + 1 \in DOMAIN toDev /\ toDev'[i] = toDev[i + 1]
  BY <1>1, TailElements
<1>3. DOMAIN base \subseteq Cells BY PayloadDomain DEF TypeInv, TypeOK
<1>4. \A c \in DOMAIN base \ Asked : device'[c] = device[c]
  BY <1>2, <1>3 DEF RestInv, RestKept
<1>5. RestKept' BY <1>2, <1>4 DEF RestInv, RestKept
<1>6. ASSUME mode = "wait" PROVE OwnPutsRead'
  BY <1>2, <1>6 DEF RestInv, OwnPutsRead
<1>7. OwnToldTrue'
  <2>1. \A i \in DOMAIN fromDev : ~fromDev[i].mine BY <1>1 DEF WireInv
  <2>2. \A i \in DOMAIN fromDev' : (i \in DOMAIN fromDev /\ fromDev'[i] = fromDev[i]) \/ fromDev'[i] = m
    <3>1. CASE fromDev' = fromDev BY <3>1
    <3>2. CASE fromDev' = Append(fromDev, m) BY <1>1, <3>2, AppendElements
    <3> QED BY <3>1, <3>2
  <2>3. m.kind = "status" => \A c \in DOMAIN m.vals : m.vals[c] = device'[c] OBVIOUS
  <2> QED BY <2>1, <2>2, <2>3 DEF OwnToldTrue
<1> QED BY <1>5, <1>6, <1>7

\* Sending a request keeps it: a SETGET takes the rest from what was read.
LEMMA RestSent ==
  ASSUME TypeInv, RestInv, Send
  PROVE  RestInv'
<1> SUFFICES ASSUME kind = "write", clean PROVE RestKept' /\ OwnPutsRead' /\ OwnToldTrue'
  BY DEF RestInv, Send, taskVars
<1> DEFINE s == Head(todo)
           r == [op |-> s.op, field |-> s.field, vals |-> PutVals(s), mine |-> TRUE]
           q == Disown(toDev)
<1>1. /\ s \in Steps /\ PutVals(s) \in [s.cells -> Values] /\ PutVals(s) \in Payloads
      /\ s.cells \subseteq DOMAIN want \cup DOMAIN base
  BY PutValsType DEF Send, TypeInv, TypeOK
<1>2. r \in Requests BY <1>1 DEF Steps, Requests
<1>3. toDev \in Seq(Requests) /\ q \in Seq(Requests)
  BY DisownRequests DEF TypeInv, TypeOK
<1>4. /\ toDev' = Append(q, r) /\ fromDev' = Disown(fromDev)
      /\ UNCHANGED <<base, device>>
  BY DEF Send, taskVars
<1>5. \A c \in s.cells \ Asked : c \in DOMAIN base /\ PutVals(s)[c] = base[c]
  BY <1>1 DEF PutVals, TypeInv, PutsReady
<1>6. /\ r.op = s.op /\ r.vals = PutVals(s) /\ DOMAIN r.vals = s.cells BY <1>1
<1>7. \A i \in DOMAIN q : /\ i \in DOMAIN toDev /\ q[i].mine = FALSE
                          /\ q[i].op = toDev[i].op /\ q[i].vals = toDev[i].vals
  BY <1>3, DisownedRequests
<1> HIDE DEF q, r, s
<1>8. \A i \in DOMAIN toDev' : (i \in DOMAIN q /\ toDev'[i] = q[i]) \/ toDev'[i] = r
  BY <1>2, <1>3, <1>4, AppendElements
<1>9. RestKept'
  BY <1>4, <1>5, <1>6, <1>7, <1>8 DEF RestInv, RestKept
<1>10. OwnPutsRead' BY <1>4, <1>5, <1>6, <1>7, <1>8 DEF OwnPutsRead
<1>11. OwnToldTrue' BY <1>4, DisownedMessages DEF OwnToldTrue, TypeInv, TypeOK
<1> QED BY <1>9, <1>10, <1>11

\* The answer to the read of a read-modify-write is what the headset has.
LEMMA RestRead ==
  ASSUME TypeInv, WireInv, RestInv, RecvOwn
  PROVE  RestInv'
<1> SUFFICES ASSUME kind = "write", clean' PROVE RestKept'
  <2>1. mode' # "wait" BY DEF RecvOwn, RecvAnswer, StepFails, GoOn
  <2>2. kind' = kind BY DEF RecvOwn
  <2> QED BY <2>1, <2>2 DEF RestInv
<1>1. PICK n \in 0..Len(fromDev), cut \in Cuts : RecvAnswer(n, cut) BY DEF RecvOwn
<1> DEFINE ms == Buffered(n)
           j  == Min(Answers(ms))
<1>2. UNCHANGED <<toDev, device>> /\ mode = "wait" BY DEF RecvOwn
<1>3. clean /\ ms[j].mine
  <2>1. clean' = (clean /\ ms[j].mine) BY <1>1 DEF RecvAnswer
  <2> QED BY <2>1, Zenon
<1>4. CASE base' = base
  BY <1>2, <1>3, <1>4 DEF RestInv, RestKept
<1>5. CASE base' = ms[j].vals /\ ms[j].kind # "error"
  <2>1. j \in DOMAIN fromDev /\ ms[j] = fromDev[j] /\ fromDev[j] \in Messages
    BY <1>1, <1>2, AnswerOnWire
  <2> HIDE DEF ms, j
  <2>2. fromDev[j].mine /\ fromDev[j].kind = "status" BY <1>3, <1>5, <2>1, MessageFacts
  <2>3. toDev = <<>> BY <2>1, <2>2 DEF WireInv
  <2>4. \A c \in DOMAIN base' \ Asked : device[c] = base'[c]
    BY <1>2, <1>3, <1>5, <2>1, <2>2 DEF RestInv, OwnToldTrue
  <2> QED BY <1>2, <2>3, <2>4 DEF RestKept
<1>6. base' = base \/ (base' = ms[j].vals /\ ms[j].kind # "error")
  BY <1>1 DEF RecvAnswer
<1> QED BY <1>4, <1>5, <1>6

LEMMA RestStep == TypeInv /\ WireInv /\ RestInv /\ [Next]_vars => RestInv'
<1> SUFFICES ASSUME TypeInv, WireInv, RestInv, [Next]_vars PROVE RestInv' OBVIOUS
<1>1. TypeInv' BY TypeStep
<1>2. CASE RecvOthers
  <2>1. PICK n \in 0..Len(fromDev), cut \in Cuts : Arrives(n, cut) BY <1>2 DEF RecvOthers
  <2>2. \A i \in DOMAIN fromDev' : i + n \in DOMAIN fromDev /\ fromDev'[i] = fromDev[i + n]
    BY <2>1, SuffixElements DEF TypeInv
  <2>3. UNCHANGED <<kind, clean, base, device, toDev, mode>> BY <1>2 DEF RecvOthers, taskVars
  <2>4. OwnToldTrue => OwnToldTrue' BY <2>2, <2>3 DEF OwnToldTrue
  <2> QED BY <2>3, <2>4 DEF RestInv, RestKept, OwnPutsRead
<1>3. CASE DeviceReads \/ DeviceSets \/ DeviceIgnores
  <2> DEFINE r == Head(toDev)
  <2>1. Served /\ r \in Requests /\ UNCHANGED <<kind, clean, base, mode>>
    BY <1>3, ServedType DEF DeviceReads, DeviceSets, DeviceIgnores, taskVars, TypeInv
  <2>2. Replies(r, device') /\ device' \in [Cells -> Values]
    BY <1>1, <1>3 DEF DeviceReads, DeviceSets, DeviceIgnores, TypeInv, TypeOK
  <2>3. \A c \in Cells : device'[c] = device[c]
                         \/ (r.op = "put" /\ c \in DOMAIN r.vals /\ device'[c] = r.vals[c])
    BY <1>3 DEF DeviceReads, DeviceSets, DeviceIgnores
  <2> DEFINE m == Status(r.field, device', r.mine)
  <2>4. m \in Messages /\ \A c \in DOMAIN m.vals : m.vals[c] = device'[c]
    BY <2>1, <2>2, StatusType DEF Requests, Status
  <2>5. fromDev' = Append(fromDev, m) \/ fromDev' = fromDev BY <2>2 DEF Replies
  <2> HIDE DEF m
  <2> QED BY <2>1, <2>3, <2>4, <2>5, RestServed
<1>4. CASE DeviceRefuses
  <2> DEFINE r == Head(toDev)
             m == [kind |-> "error", field |-> r.field, vals |-> Nothing, mine |-> r.mine]
  <2>1. Served /\ r \in Requests /\ UNCHANGED <<kind, clean, base, mode, device>>
    BY <1>4, ServedType DEF DeviceRefuses, taskVars, TypeInv
  <2>2. m \in Messages /\ m.kind = "error" BY <2>1 DEF Requests, Messages, Errors
  <2>3. fromDev' = Append(fromDev, m) BY <1>4 DEF DeviceRefuses
  <2> HIDE DEF m
  <2> QED BY <2>1, <2>2, <2>3, RestServed
<1>5. ASSUME NEW c \in Cells, NEW v \in Values, DeviceChanges(c, v)
      PROVE  RestInv'
  <2> SUFFICES ASSUME kind = "write", clean', kind' = kind PROVE RestInv'
    BY <1>5 DEF DeviceChanges, taskVars, RestInv
  <2>1. clean /\ c \in Asked
    <3>1. clean' = (clean /\ (kind = "write" => c \in Asked)) BY <1>5 DEF DeviceChanges
    <3> QED BY <3>1, Zenon
  <2>2. UNCHANGED <<base, mode, toDev>> BY <1>5 DEF DeviceChanges, taskVars
  <2>3. \A x \in Cells \ Asked : device'[x] = device[x]
    BY <1>5, <2>1 DEF DeviceChanges, TypeInv, TypeOK
  <2> DEFINE m == Status(FieldOf[c], device', FALSE)
  <2>4. m \in Messages /\ ~m.mine
    <3>1. FieldOf[c] \in Fields /\ device' \in [Cells -> Values]
      BY <1>1, SessionAssumption DEF TypeInv, TypeOK
    <3> QED BY <3>1, StatusType
  <2>5. fromDev' = Append(fromDev, m) \/ fromDev' = fromDev BY <1>5 DEF DeviceChanges
  <2> HIDE DEF m
  <2>6. \A i \in DOMAIN fromDev' : (i \in DOMAIN fromDev /\ fromDev'[i] = fromDev[i]) \/ fromDev'[i] = m
    <3>1. CASE fromDev' = fromDev BY <3>1
    <3>2. CASE fromDev' = Append(fromDev, m) BY <2>4, <3>2, AppendElements DEF TypeInv, TypeOK
    <3> QED BY <2>5, <3>1, <3>2
  <2>7. RestKept'
    <3>1. DOMAIN base \subseteq Cells BY PayloadDomain DEF TypeInv, TypeOK
    <3> QED BY <2>1, <2>2, <2>3, <3>1 DEF RestInv, RestKept
  <2>8. mode = "wait" => OwnPutsRead' BY <2>1, <2>2 DEF RestInv, OwnPutsRead
  <2>9. mode = "wait" => OwnToldTrue'
    <3>1. \A i \in DOMAIN fromDev : DOMAIN fromDev[i].vals \subseteq Cells
      BY MessageFacts, PayloadDomain DEF TypeInv, TypeOK
    <3> QED BY <2>1, <2>3, <2>4, <2>6, <3>1 DEF RestInv, OwnToldTrue
  <2> QED BY <2>2, <2>7, <2>8, <2>9 DEF RestInv
<1>6. CASE LinkDies
  <2>1. DOMAIN toDev' = {} /\ DOMAIN fromDev' = {} BY <1>6 DEF LinkDies
  <2> QED BY <1>6, <2>1 DEF LinkDies, taskVars, RestInv, RestKept, OwnPutsRead, OwnToldTrue
<1>7. CASE LinkFails
  <2>1. DOMAIN toDev' = {} BY <1>7 DEF LinkFails, Drop
  <2> QED BY <1>7, <2>1 DEF LinkFails, taskVars, RestInv, RestKept
<1>8. CASE SendStalls \/ WriteTimesOut \/ ReadTimesOut
  <2>1. mode' # "wait" /\ UNCHANGED <<kind, clean, base, device, toDev>>
    BY <1>8 DEF SendStalls, WriteTimesOut, ReadTimesOut, StepFails, GoOn, taskVars, wireVars
  <2> QED BY <2>1 DEF RestInv, RestKept
<1>9. CASE WriteAny
  <2>1. base = Nothing BY <1>9 DEF WriteAny, Write, Idle, TypeInv, TypeOK, PutsReady
  <2>2. DOMAIN base' = {} /\ mode' # "wait"
    BY <1>9, <2>1, NothingType DEF WriteAny, Write, Begin, GoOn
  <2> QED BY <2>2 DEF RestInv, RestKept
<1>10. CASE Finish \/ Feed \/ LinkLost \/ Connect \/ Refresh \/ Reconnect \/ SignalUsr1
  <2>1. kind' # "write"
    BY <1>10 DEF Finish, Feed, LinkLost, Connect, Refresh, Begin, Reconnect, SignalUsr1, Idle,
       taskVars, TypeInv, TypeOK
  <2> QED BY <2>1 DEF RestInv
<1>11. CASE UNCHANGED vars
  BY <1>11 DEF vars, wireVars, taskVars, RestInv, RestKept, OwnPutsRead, OwnToldTrue
<1> QED BY <1>2, <1>3, <1>4, <1>5, <1>6, <1>7, <1>8, <1>9, <1>10, <1>11, RestSent, RestRead
        DEF Next, Exchange, Loop, Headset

\* A command that got its own answers writes back what it is not about as the
\* headset has it (the language in setPrompts' byte), unless it comes too late.
THEOREM RestIsKept == Spec => KeepsTheRest
<1>1. Init => RestInv BY DEF Init, RestInv
<1>2. TypeInv /\ WireInv /\ RestInv /\ [Next]_vars => RestInv' BY RestStep
<1>3. TypeInv /\ RestInv /\ [Next]_vars
        => [clean /\ kind = "write" /\ ServesInTime
              => \A c \in Cells \ Asked : device'[c] = device[c]]_vars
  <2> SUFFICES ASSUME TypeInv, RestInv, clean, kind = "write", ServesInTime,
                      NEW c \in Cells \ Asked
               PROVE  device'[c] = device[c]
    OBVIOUS
  <2> DEFINE r == Head(toDev)
  <2>1. /\ mode = "wait" /\ r.mine /\ r.op = "put" /\ Served
        /\ device' = [x \in Cells |-> IF x \in DOMAIN r.vals THEN r.vals[x] ELSE device[x]]
    BY DEF ServesInTime, DeviceSets
  <2>2. r = toDev[1] /\ 1 \in DOMAIN toDev BY <2>1 DEF Served, TypeInv, TypeOK
  <2> HIDE DEF r
  <2>3. c \in DOMAIN r.vals => c \in DOMAIN base BY <2>1, <2>2 DEF RestInv, OwnPutsRead
  <2>4. c \in DOMAIN r.vals => r.vals[c] = device[c]
    BY <2>1, <2>2, <2>3 DEF RestInv, RestKept
  <2> QED BY <2>1, <2>4
<1> QED BY <1>1, <1>2, <1>3, TypeAlways, WireAlways, PTL DEF Spec, KeepsTheRest

----------------------------------------------------------------------------
(* A handler has only so many steps.                                       *)

\* What a running handler, the wire and the rest of the world have left to
\* do.  A step of the handler weighs more than the request it puts on its way,
\* a request more than its answer, and the answer more than the read of it.
Work ==
    5 * Len(todo) + (IF mode = "send" THEN 4 ELSE 0)
        + 3 * Len(toDev) + 2 * Len(fromDev) + (IF partial = "none" THEN 1 ELSE 0)
        + 3 * (MaxOdd - odd)

\* It is done in order: no step while the handler runs gives it more to do.
SpendsWork == mode # "idle" /\ mode' # "idle" => Work' < Work

\* The lengths that Work adds up, before and after.
LEMMA WorkTypes ==
  ASSUME TypeOK
  PROVE  /\ Len(todo) \in Nat /\ Len(toDev) \in Nat /\ Len(fromDev) \in Nat
         /\ MaxOdd \in Nat /\ odd \in Nat /\ odd <= MaxOdd
         /\ Work \in Nat
<1>1. /\ Len(todo) \in Nat /\ Len(toDev) \in Nat /\ Len(fromDev) \in Nat
      /\ MaxOdd \in Nat /\ odd \in Nat /\ odd <= MaxOdd
  BY SessionAssumption DEF TypeOK
<1>2. MaxOdd - odd \in Nat BY <1>1
<1> QED BY <1>1, <1>2 DEF Work

\* A step that goes on or fails leaves a shorter list: where it is replaced by
\* a last read, that read was in the list too.
LEMMA ListShortens ==
  ASSUME TypeInv, ReadBackInv, todo # <<>>, GoOn(Tail(todo)) \/ StepFails
  PROVE  /\ Len(todo') \in Nat /\ Len(todo') + 1 <= Len(todo)
         /\ mode' \in {"send", "done"} /\ (mode' = "send" => Len(todo') > 0)
<1>1. todo \in Seq(Steps) /\ Len(todo) \in Nat /\ Len(todo) > 0
  BY DEF TypeInv, TypeOK
<1>2. Tail(todo) \in Seq(Steps) /\ Len(Tail(todo)) = Len(todo) - 1
  BY <1>1
<1>3. CASE todo' = Tail(todo)
  BY <1>1, <1>2, <1>3 DEF GoOn, StepFails
<1>4. CASE todo' = <<>>
  BY <1>1, <1>4 DEF GoOn, StepFails
<1>5. ASSUME kind = "write", Head(todo).op = "put",
             todo' = <<Step("get", Head(todo).field, {})>>
      PROVE  Len(todo') = 1 /\ Len(todo') + 1 <= Len(todo)
  <2>1. todo[Len(todo)].op = "get" BY <1>5 DEF ReadBackInv
  <2>2. Len(todo) # 1 BY <2>1, <1>5, <1>1
  <2> QED BY <1>5, <2>2, <1>1
<1>6. \/ todo' = Tail(todo) \/ todo' = <<>>
      \/ /\ kind = "write" /\ Head(todo).op = "put"
         /\ todo' = <<Step("get", Head(todo).field, {})>>
  BY DEF GoOn, StepFails
<1>7. mode' = IF todo' = <<>> THEN "done" ELSE "send"
  BY DEF GoOn, StepFails
<1> QED BY <1>3, <1>4, <1>5, <1>6, <1>7

\* A read takes messages off the wire, or the first part of one.
LEMMA ReadSpends ==
  ASSUME TypeOK, NEW n \in 0..Len(fromDev), NEW cut \in Cuts, Arrives(n, cut)
  PROVE  /\ Len(fromDev') \in Nat /\ Len(fromDev') <= Len(fromDev)
         /\ 2 * Len(fromDev') + (IF partial' = "none" THEN 1 ELSE 0)
              < 2 * Len(fromDev) + (IF partial = "none" THEN 1 ELSE 0)
<1>1. fromDev \in Seq(Messages) /\ Len(fromDev) \in Nat /\ n \in Nat /\ n <= Len(fromDev)
  BY DEF TypeOK
<1>2. Len(fromDev') = Len(fromDev) - n
  BY <1>1 DEF Arrives
<1>3. cut \in BOOLEAN
  BY SessionAssumption
<1>4. CASE n > 0
  BY <1>1, <1>2, <1>4
<1>5. CASE n = 0
  <2>1. cut /\ partial = "none" /\ partial' = "this"
    BY <1>5, <1>3 DEF Arrives
  <2> QED BY <2>1, <1>1, <1>2, <1>5
<1> QED BY <1>1, <1>2, <1>4, <1>5

\* A disturbance, or none, leaves no more of them.
LEMMA FewerLeft ==
  ASSUME NEW m \in Nat, NEW a \in Nat, NEW b \in Nat, a <= b
  PROVE  3 * (m - b) <= 3 * (m - a)
OBVIOUS

LEMMA ExchangeSpends ==
  ASSUME TypeInv, ReadBackInv, TypeOK', Exchange \/ SendStalls
  PROVE  SpendsWork
<1> USE WorkTypes
<1> SUFFICES ASSUME mode # "idle", mode' # "idle" PROVE Work' < Work
  BY DEF SpendsWork
<1>t. TypeOK /\ (mode \in {"send", "wait"} <=> todo # <<>>)
  BY DEF TypeInv, TypeOK
<1>n. /\ Len(todo) \in Nat /\ Len(toDev) \in Nat /\ Len(fromDev) \in Nat
      /\ MaxOdd \in Nat /\ odd \in Nat /\ odd <= MaxOdd
      /\ Len(todo') \in Nat /\ Len(toDev') \in Nat /\ Len(fromDev') \in Nat
      /\ odd' \in Nat /\ odd' <= MaxOdd
  <2>1. /\ Len(todo') \in Nat /\ Len(toDev') \in Nat /\ Len(fromDev') \in Nat
        /\ odd' \in Nat /\ odd' <= MaxOdd
    BY SessionAssumption DEF TypeOK
  <2> QED BY <1>t, <2>1
<1>1. CASE Send
  <2>1. Len(toDev') = Len(toDev) + 1 /\ Len(fromDev') = Len(fromDev)
    <3>1. toDev \in Seq(Requests) /\ fromDev \in Seq(Messages) BY <1>t DEF TypeOK
    <3>2. Len(Disown(toDev)) = Len(toDev) /\ Len(Disown(fromDev)) = Len(fromDev)
      BY <3>1 DEF Disown
    <3>3. toDev' = Append(Disown(toDev), [op |-> Head(todo).op,
                     field |-> Head(todo).field, vals |-> PutVals(Head(todo)),
                     mine |-> TRUE])
      BY <1>1 DEF Send
    <3>4. toDev' \in Seq(Requests) BY DEF TypeOK
    <3>5. Disown(toDev) \in Seq(Requests) BY <3>1, DisownRequests
    <3>6. Len(toDev') = Len(Disown(toDev)) + 1 BY <3>3, <3>5
    <3>7. fromDev' = Disown(fromDev) BY <1>1 DEF Send
    <3> QED BY <3>2, <3>6, <3>7
  <2>2. mode = "send" /\ mode' = "wait" /\ UNCHANGED <<todo, partial, odd>>
    BY <1>1 DEF Send, boundVars
  <2> QED BY <1>n, <2>1, <2>2 DEF Work
<1>2. CASE SendStalls
  <2>1. mode = "send" /\ todo # <<>> BY <1>2, <1>t DEF SendStalls
  <2>2. /\ Len(todo') + 1 <= Len(todo) /\ odd' = odd + 1
        /\ UNCHANGED <<toDev, fromDev, partial>>
    BY <1>2, <2>1, ListShortens DEF SendStalls, Disturb, wireVars
  <2>3. (IF mode' = "send" THEN 4 ELSE 0) <= (IF mode = "send" THEN 4 ELSE 0)
    BY <2>1
  <2> QED BY <1>n, <2>2, <2>3 DEF Work
<1>3. CASE RecvOthers
  <2>1. PICK n \in 0..Len(fromDev), cut \in Cuts : Arrives(n, cut)
    BY <1>3 DEF RecvOthers
  <2>2. UNCHANGED <<todo, mode, toDev, odd>>
    BY <1>3 DEF RecvOthers, boundVars
  <2>3. 2 * Len(fromDev') + (IF partial' = "none" THEN 1 ELSE 0)
          < 2 * Len(fromDev) + (IF partial = "none" THEN 1 ELSE 0)
    BY <1>t, <2>1, ReadSpends
  <2> QED BY <1>n, <2>2, <2>3 DEF Work
<1>4. CASE RecvOwn
  <2>1. PICK n \in 0..Len(fromDev), cut \in Cuts : RecvAnswer(n, cut)
    BY <1>4 DEF RecvOwn
  <2>2. /\ mode = "wait" /\ todo # <<>>
        /\ UNCHANGED <<toDev, odd>>
    BY <1>4, <1>t DEF RecvOwn, boundVars
  <2>3. 2 * Len(fromDev') + (IF partial' = "none" THEN 1 ELSE 0)
          < 2 * Len(fromDev) + (IF partial = "none" THEN 1 ELSE 0)
    BY <1>t, <2>1, ReadSpends DEF RecvAnswer
  <2>4. GoOn(Tail(todo)) \/ StepFails
    BY <2>1 DEF RecvAnswer
  <2>5. Len(todo') + 1 <= Len(todo)
    BY <2>2, <2>4, ListShortens
  <2> QED BY <1>n, <2>2, <2>3, <2>5 DEF Work
<1>5. CASE WriteTimesOut \/ ReadTimesOut
  <2>1. mode = "wait" /\ todo # <<>> /\ UNCHANGED <<toDev, fromDev, partial>>
    BY <1>5, <1>t DEF WriteTimesOut, ReadTimesOut, wireVars, parseVars
  <2>2. odd' = odd \/ odd' = odd + 1
    BY <1>5 DEF WriteTimesOut, ReadTimesOut, InTime, Disturb
  <2>3. Len(todo') + 1 <= Len(todo)
    BY <1>5, <2>1, ListShortens DEF WriteTimesOut, ReadTimesOut
  <2>4. CASE odd' = odd
    BY <1>n, <2>1, <2>3, <2>4 DEF Work
  <2>5. CASE odd' = odd + 1
    BY <1>n, <2>1, <2>3, <2>5 DEF Work
  <2> QED BY <2>2, <2>4, <2>5
<1>6. CASE LinkFails
  <2>1. /\ mode \in {"send", "wait"} /\ todo # <<>>
        /\ toDev' = <<>> /\ fromDev' = <<>> /\ todo' = <<>> /\ mode' = "done"
        /\ odd' = odd
    BY <1>6, <1>t DEF LinkFails, Drop, boundVars
  <2>2. Len(todo) > 0 /\ Len(toDev') = 0 /\ Len(fromDev') = 0 /\ Len(todo') = 0
    BY <2>1, <1>n, <1>t DEF TypeOK
  <2> QED BY <1>n, <2>1, <2>2 DEF Work
<1>7. CASE Finish
  BY <1>7 DEF Finish
<1> QED BY <1>1, <1>2, <1>3, <1>4, <1>5, <1>6, <1>7 DEF Exchange

\* The headset: a request it serves is off the wire, a message it sends
\* unasked is a disturbance.
LEMMA HeadsetSpends ==
  ASSUME TypeInv, TypeOK',
         \/ Headset \/ DeviceIgnores \/ DeviceRefuses \/ LinkDies
         \/ \E c \in Cells, v \in Values : DeviceChanges(c, v)
  PROVE  SpendsWork
<1> SUFFICES ASSUME mode # "idle" PROVE Work' < Work
  BY DEF SpendsWork
<1>t. TypeOK /\ toDev \in Seq(Requests) /\ fromDev \in Seq(Messages)
  BY DEF TypeInv, TypeOK
<1>n. /\ Len(todo) \in Nat /\ Len(toDev) \in Nat /\ Len(fromDev) \in Nat
      /\ MaxOdd \in Nat /\ odd \in Nat /\ odd <= MaxOdd
      /\ Len(toDev') \in Nat /\ Len(fromDev') \in Nat
      /\ odd' \in Nat /\ odd' <= MaxOdd
  <2>1. /\ Len(toDev') \in Nat /\ Len(fromDev') \in Nat
        /\ odd' \in Nat /\ odd' <= MaxOdd
    BY SessionAssumption DEF TypeOK
  <2> QED BY <1>t, <2>1, WorkTypes
<1>s. Served => Len(toDev') + 1 = Len(toDev)
  BY <1>t DEF Served
<1>a. ASSUME NEW m, fromDev' = Append(fromDev, m) PROVE Len(fromDev') = Len(fromDev) + 1
  BY <1>a, <1>t
<1>r. ASSUME NEW r, NEW d, Replies(r, d) PROVE Len(fromDev') <= Len(fromDev) + 1
  BY <1>r, <1>a, <1>n DEF Replies
<1>m. UNCHANGED <<todo, mode, partial>>
  BY DEF Headset, DeviceReads, DeviceSets, DeviceIgnores, DeviceRefuses,
         DeviceChanges, LinkDies, parseVars
<1>1. CASE Headset \/ DeviceIgnores
  <2>1. Served /\ Len(fromDev') <= Len(fromDev) + 1 /\ odd <= odd'
    BY <1>1, <1>r, <1>n DEF Headset, DeviceReads, DeviceSets, DeviceIgnores,
       Disturb, boundVars
  <2>2. 3 * (MaxOdd - odd') <= 3 * (MaxOdd - odd)
    BY <2>1, <1>n, FewerLeft
  <2> QED BY <1>n, <1>s, <1>m, <2>1, <2>2 DEF Work
<1>2. CASE DeviceRefuses
  <2>1. Served /\ Len(fromDev') = Len(fromDev) + 1 /\ odd' = odd + 1
    BY <1>2, <1>t DEF DeviceRefuses, Disturb
  <2> QED BY <1>n, <1>s, <1>m, <2>1 DEF Work
<1>3. ASSUME NEW c \in Cells, NEW v \in Values, DeviceChanges(c, v)
      PROVE  Work' < Work
  <2>1. toDev' = toDev /\ odd' = odd + 1
    BY <1>3 DEF DeviceChanges, Disturb
  <2>2. \/ fromDev' = fromDev
        \/ fromDev' = Append(fromDev, Status(FieldOf[c], device', FALSE))
    BY <1>3 DEF DeviceChanges
  <2>3. Len(fromDev') = Len(fromDev) \/ Len(fromDev') = Len(fromDev) + 1
    BY <2>2, <1>a
  <2> QED BY <1>n, <1>m, <2>1, <2>3 DEF Work
<1>4. CASE LinkDies
  <2>1. toDev' = <<>> /\ fromDev' = <<>> /\ odd' = odd + 1
    BY <1>4 DEF LinkDies, Disturb
  <2> QED BY <1>n, <1>m, <2>1 DEF Work
<1> QED BY <1>1, <1>2, <1>3, <1>4

\* transact and the handlers built from it hold the daemon's only thread for a
\* bounded number of steps, whatever the headset says, refuses or leaves
\* unanswered: every step that anybody takes while a handler runs uses up some
\* of its Work, a natural number.
THEOREM HandlersSpendWork == Spec => [](Work \in Nat) /\ [][SpendsWork]_vars
<1>1. TypeInv => Work \in Nat BY WorkTypes DEF TypeInv
<1>2. TypeInv /\ TypeInv' /\ ReadBackInv /\ [Next]_vars => [SpendsWork]_vars
  <2> SUFFICES ASSUME TypeInv, TypeInv', ReadBackInv, Next PROVE SpendsWork
    OBVIOUS
  <2>1. TypeOK' BY DEF TypeInv
  <2>2. CASE \/ Connect \/ Refresh \/ WriteAny \/ Reconnect \/ SignalUsr1 \/ Loop
    <3>1. mode = "idle"
      BY <2>2 DEF Connect, Refresh, WriteAny, Write, Reconnect, SignalUsr1, Loop,
         Feed, LinkLost, Idle
    <3> QED BY <3>1 DEF SpendsWork
  <2> QED BY <2>1, <2>2, ExchangeSpends, HeadsetSpends DEF Next
<1>3. Init => ReadBackInv BY DEF Init, ReadBackInv
<1>4. TypeInv /\ ReadBackInv /\ [Next]_vars => ReadBackInv' BY ReadBackStep
<1> QED BY <1>1, <1>2, <1>3, <1>4, TypeAlways, PTL DEF Spec
=============================================================================
