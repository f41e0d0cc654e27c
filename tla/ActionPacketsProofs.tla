------------------------ MODULE ActionPacketsProofs ------------------------
(***************************************************************************)
(* Proofs about ActionPackets for any plan, registry, offers of the model  *)
(* and limits: a turn leaves one observation, retries stay within          *)
(* max_retries, and a tool that is called is there.                        *)
(***************************************************************************)
EXTENDS ActionPackets, FiniteSetTheorems, TLAPS

-----------------------------------------------------------------------------
(* The inductive invariant *)

Targets == Tools \cup ModelNames \cup {None}

\* A payload whose gaps are filled in.
Packet ==
  [type : ActionTypes, target : Targets, whole : BOOLEAN, stray : BOOLEAN, step : Steps,
   aim : Steps \cup {None}, action : Nat \cup {None}, id : Nat]

Observation ==
  [nr : Nat, step : Steps, id : Nat, type : ActionTypes, target : Targets, ok : BOOLEAN,
   attempt : Nat \ {0}, turn : Steps, how : {"plain", "retry", "fallback"}]

Carried == phase \in {"dispatch", "perform"}

PacketTypeOK ==
  /\ observations \in Seq(Observation)
  /\ attempts \in [Steps -> Nat]
  /\ turns \in Nat /\ fresh \in Nat /\ open \in Nat
  /\ cur \in Steps /\ attempt \in Nat \ {0}
  /\ tools \subseteq Tools /\ offered \subseteq Tools
  /\ phase \in {"idle", "ask", "answer", "dispatch", "perform"}
  /\ how \in {"plain", "retry", "fallback"}
  /\ Carried => packet \in Packet

\* An observation knows its place, so the store can tell it is there already.
Numbered == \A i \in DOMAIN observations : observations[i].nr = i

\* A packet the model wrote was held against what was offered to it.
WasOffered ==
  Carried /\ how = "plain" /\ packet.type = "call_tool" => packet.target \in offered

RetriesOf(store, s) == {i \in DOMAIN store : store[i].turn = s /\ store[i].how = "retry"}

\* The retries of a step's turns, with the one under way.
Retries(s) ==
  Cardinality(RetriesOf(observations, s)) + IF how = "retry" /\ cur = s THEN 1 ELSE 0

\* Each retry was booked as an attempt after the first, which is why the limit
\* holds although the attempts of a step also grow by what others book on it.
Booked(s) == Retries(s) <= MaxRetries /\ (Retries(s) = 0 \/ Retries(s) < attempts[s])

PacketInv ==
  /\ PacketTypeOK
  /\ Numbered
  /\ Carried \/ how = "plain"
  /\ WasOffered
  /\ TurnsAreAccounted
  /\ \A s \in Steps : Booked(s)

-----------------------------------------------------------------------------
(* Largest elements *)

\* Max of two numbers is one of them and bounds both.
LEMMA MaxOfTwo ==
  ASSUME NEW a \in Int, NEW b \in Int
  PROVE  Max({a, b}) \in {a, b} /\ Max({a, b}) >= a /\ Max({a, b}) >= b
<1>1. \E x \in {a, b} : \A y \in {a, b} : x >= y
  OBVIOUS
<1> QED BY <1>1 DEF Max

\* A finite set of numbers that is not empty has a largest one: of the sets of
\* what is above an element, a smallest one is empty.
LEMMA MaxOfSome ==
  ASSUME NEW S \in SUBSET Nat, IsFiniteSet(S), S # {}
  PROVE  Max(S) \in S
<1> DEFINE Above(x) == {y \in S : y > x}
           R == StrictSubsetOrdering(S)
           T == {Above(x) : x \in S}
<1>1. IsWellFoundedOn(R, FiniteSubsetsOf(S))
  BY FS_StrictSubsetOrderingWellFounded
<1>2. T \subseteq FiniteSubsetsOf(S) /\ T # {}
  <2>1. ASSUME NEW x \in S PROVE Above(x) \in FiniteSubsetsOf(S)
    <3>1. Above(x) \in SUBSET S
      OBVIOUS
    <3>2. IsFiniteSet(Above(x))
      BY <3>1, FS_Subset
    <3> QED BY <3>1, <3>2 DEF FiniteSubsetsOf
  <2> QED BY <2>1
<1> HIDE DEF R
<1>3. \E U \in T : \A V \in T : <<V, U>> \notin R
  <2> HIDE DEF T
  <2> QED BY <1>1, <1>2, WFMin
<1>4. PICK x \in S : \A y \in S : <<Above(y), Above(x)>> \notin R
  BY <1>3
<1>5. ASSUME NEW y \in S, y > x PROVE FALSE
  <2>0. x \in Nat /\ y \in Nat /\ \A z \in S : z \in Nat
    OBVIOUS
  <2>1. Above(y) \subseteq Above(x) /\ y \in Above(x) /\ y \notin Above(y)
    <3>1. ASSUME NEW z \in Above(y) PROVE z \in Above(x)
    <4>1. z \in S /\ z > y
      BY <3>1
    <4> QED BY <4>1, <2>0, <1>5
  <3>2. y \in Above(x)
    BY <1>5
  <3>3. y \notin Above(y)
    BY <2>0
  <3> QED BY <3>1, <3>2, <3>3
  <2>2. Above(y) \in SUBSET S /\ Above(x) \in SUBSET S
    OBVIOUS
  <2>3. <<Above(y), Above(x)>> \in R
    BY <2>1, <2>2 DEF R, StrictSubsetOrdering
  <2> QED BY <2>3, <1>4
<1>6. \A y \in S : x >= y
  BY <1>5
<1> QED BY <1>6 DEF Max

-----------------------------------------------------------------------------
(* What the operators return *)

\* The newest of some observations is one of the store.
LEMMA NewestIsObserved ==
  ASSUME PacketTypeOK, NEW S \in SUBSET DOMAIN observations, S # {}
  PROVE  Newest(S) \in Observation
<1>1. DOMAIN observations = 1..Len(observations) /\ Len(observations) \in Nat
  BY DEF PacketTypeOK
<1>2. IsFiniteSet(DOMAIN observations)
  BY <1>1, FS_Interval
<1>3. IsFiniteSet(S) /\ S \in SUBSET Nat
  BY <1>1, <1>2, FS_Subset
<1>4. Max(S) \in DOMAIN observations
  BY <1>3, MaxOfSome
<1> QED BY <1>1, <1>4 DEF Newest, PacketTypeOK

\* What a retry or a fallback takes up again is an observation.
LEMMA RedoTargetType ==
  ASSUME PacketTypeOK, NEW p, RedoTarget(p) # None
  PROVE  RedoTarget(p) \in Observation
BY NewestIsObserved DEF RedoTarget, Newest

\* The observation of a packet.
LEMMA ObservedType ==
  ASSUME PacketTypeOK, NEW p \in Packet, NEW ok \in BOOLEAN
  PROVE  /\ Observed(p, ok) \in Observation
         /\ Observed(p, ok).nr = Len(observations) + 1
         /\ Observed(p, ok).turn = cur
         /\ Observed(p, ok).how = how
         /\ Observed(p, ok).ok = ok
         /\ Observed(p, ok).type = p.type
         /\ Observed(p, ok).target = p.target
BY DEF Observed, Observation, Packet, PacketTypeOK

\* The packet of a failure, and a payload with its gaps filled in.
LEMMA FailureType ==
  ASSUME PacketTypeOK
  PROVE  Failure \in Packet
BY DEF Failure, Packet, PacketTypeOK, ActionTypes, Targets

\* Whatever the model offers is a packet once its gaps are filled in.
LEMMA FilledType ==
  ASSUME PacketTypeOK, NEW p \in Offers
  PROVE  Filled(p) \in Packet
<1>1. p \in Payload
  BY RequestAssumption
<1> QED BY <1>1 DEF Filled, Payload, Packet, PacketTypeOK, Targets

-----------------------------------------------------------------------------
(* The end of a turn *)

\* Of a longer store the retries of a step are the old ones and the new one.
LEMMA RetriesGrow ==
  ASSUME PacketTypeOK, NEW o \in Observation, NEW s \in Steps
  PROVE  /\ Cardinality(RetriesOf(observations, s)) \in Nat
         /\ Cardinality(RetriesOf(Append(observations, o), s)) =
              Cardinality(RetriesOf(observations, s))
                + IF o.turn = s /\ o.how = "retry" THEN 1 ELSE 0
<1> DEFINE n == Len(observations) + 1
<1>1. /\ DOMAIN observations = 1..Len(observations) /\ Len(observations) \in Nat
      /\ DOMAIN Append(observations, o) = 1..n
      /\ Append(observations, o)[n] = o
      /\ \A i \in 1..Len(observations) : Append(observations, o)[i] = observations[i]
  BY DEF PacketTypeOK
<1>2. IsFiniteSet(RetriesOf(observations, s))
  <2>1. RetriesOf(observations, s) \in SUBSET (1..Len(observations))
    BY <1>1 DEF RetriesOf
  <2>2. IsFiniteSet(1..Len(observations))
    BY <1>1, FS_Interval
  <2> QED BY <2>1, <2>2, FS_Subset
<1>3. Cardinality(RetriesOf(observations, s)) \in Nat
  BY <1>2, FS_CardinalityType
<1>4. n \notin RetriesOf(observations, s)
  BY <1>1 DEF RetriesOf
<1>5. CASE o.turn = s /\ o.how = "retry"
  <2>1. RetriesOf(Append(observations, o), s) = RetriesOf(observations, s) \cup {n}
    BY <1>1, <1>5 DEF RetriesOf
  <2> QED BY <1>2, <1>3, <1>4, <1>5, <2>1, FS_AddElement
<1>6. CASE ~(o.turn = s /\ o.how = "retry")
  <2>1. RetriesOf(Append(observations, o), s) = RetriesOf(observations, s)
    BY <1>1, <1>6 DEF RetriesOf
  <2> QED BY <1>3, <1>6, <2>1
<1> QED BY <1>5, <1>6

\* However it is recorded, an observation of this turn is stored once.
LEMMA StoredOnce ==
  ASSUME PacketTypeOK, Numbered, NEW o \in Observation, EndTurn(o),
         o.nr = Len(observations) + 1
  PROVE  observations' = Append(observations, o)
<1>1. Added(observations, o) = Append(observations, o)
  BY DEF Added, Numbered, PacketTypeOK
<1>2. \E i \in DOMAIN Append(observations, o) : Append(observations, o)[i].nr = o.nr
  <2>1. Len(observations) + 1 \in DOMAIN Append(observations, o)
    BY DEF PacketTypeOK
  <2>2. Append(observations, o)[Len(observations) + 1] = o
    BY DEF PacketTypeOK
  <2> QED BY <2>1, <2>2
<1>3. Added(Append(observations, o), o) = Append(observations, o)
  BY <1>2 DEF Added
<1> QED BY <1>1, <1>3 DEF EndTurn

\* The end of a turn keeps the invariant.
LEMMA TurnEnds ==
  ASSUME PacketInv, NEW o \in Observation, EndTurn(o),
         o.nr = Len(observations) + 1, o.turn = cur, o.how = how,
         cur' = cur, attempt' = attempt, tools' \subseteq Tools, fresh' \in Nat,
         open' = open - IF phase = "answer" THEN 1 ELSE 0
  PROVE  PacketInv'
<1>1. observations' = Append(observations, o)
  BY StoredOnce DEF PacketInv
<1>2. attempts' \in [Steps -> Nat] /\ \A s \in Steps : attempts'[s] >= attempts[s]
  <2>1. o.step \in Steps /\ o.attempt \in Nat
    BY DEF Observation
  <2>2. attempts \in [Steps -> Nat]
    BY DEF PacketInv, PacketTypeOK
  <2> DEFINE m == Max({attempts[o.step], o.attempt})
  <2>3. m \in Nat /\ m >= attempts[o.step]
    <3>1. attempts[o.step] \in Nat /\ o.attempt \in Nat
      BY <2>1, <2>2
    <3>2. attempts[o.step] \in Int /\ o.attempt \in Int
      BY <3>1
    <3>3. m \in {attempts[o.step], o.attempt} /\ m >= attempts[o.step]
      BY <3>2, MaxOfTwo
    <3> QED BY <3>1, <3>3
  <2>4. attempts' = [attempts EXCEPT ![o.step] = m]
    BY DEF EndTurn
  <2> HIDE DEF m
  <2> QED BY <2>1, <2>2, <2>3, <2>4
<1>3. /\ turns' = turns + 1 /\ phase' = "idle" /\ how' = "plain" /\ offered' = {}
      /\ open' = 0
  BY DEF EndTurn, PacketInv, PacketTypeOK, TurnsAreAccounted
<1>4. PacketTypeOK'
  <2>1. observations' \in Seq(Observation)
    BY <1>1 DEF PacketInv, PacketTypeOK
  <2> QED BY <2>1, <1>2, <1>3 DEF PacketInv, PacketTypeOK, Carried
<1>5. Numbered'
  BY <1>1 DEF PacketInv, PacketTypeOK, Numbered
<1>6. (Carried \/ how = "plain")' /\ WasOffered'
  BY <1>3 DEF Carried, WasOffered
<1>7. TurnsAreAccounted'
  BY <1>1, <1>3 DEF PacketInv, PacketTypeOK, TurnsAreAccounted
<1>8. ASSUME NEW s \in Steps PROVE Booked(s)'
  <2>1. Retries(s)' = Retries(s) /\ Retries(s) \in Nat
    <3>1. PacketTypeOK
      BY DEF PacketInv
    <3>2. Cardinality(RetriesOf(observations, s))' =
            Cardinality(RetriesOf(observations, s)) + IF cur = s /\ how = "retry" THEN 1 ELSE 0
      <4>1. RetriesOf(observations, s)' = RetriesOf(Append(observations, o), s)
        BY <1>1 DEF RetriesOf
      <4> QED BY <3>1, <4>1, RetriesGrow
    <3>3. Cardinality(RetriesOf(observations, s)) \in Nat
      BY <3>1, RetriesGrow
    <3>4. Retries(s)' = Cardinality(RetriesOf(observations, s))'
      <4>1. Cardinality(RetriesOf(observations, s))' \in Nat
        BY <3>2, <3>3
      <4> QED BY <1>3, <4>1 DEF Retries
    <3> QED BY <3>2, <3>3, <3>4 DEF Retries
  <2>2. attempts[s] \in Nat /\ attempts'[s] \in Nat /\ attempts'[s] >= attempts[s]
    BY <1>2 DEF PacketInv, PacketTypeOK
  <2> QED BY <2>1, <2>2, RequestAssumption DEF PacketInv, Booked
<1> QED BY <1>4, <1>5, <1>6, <1>7, <1>8 DEF PacketInv

\* So does the end of a turn with the observation of a packet.
LEMMA ObservedEnds ==
  ASSUME PacketInv, NEW p \in Packet, NEW ok \in BOOLEAN, EndTurn(Observed(p, ok)),
         cur' = cur, attempt' = attempt, tools' \subseteq Tools, fresh' \in Nat,
         open' = open - IF phase = "answer" THEN 1 ELSE 0
  PROVE  PacketInv'
BY TurnEnds, ObservedType DEF PacketInv

-----------------------------------------------------------------------------
(* Steps that do not end a turn *)

\* What no observation, attempt, place or end of a turn changes in keeps the books.
LEMMA BooksStay ==
  ASSUME PacketInv, PacketTypeOK', observations' = observations, turns' = turns,
         cur' = cur, how' = how, attempts' = attempts
  PROVE  Numbered' /\ \A s \in Steps : Booked(s)'
<1>1. Numbered'
  BY DEF PacketInv, Numbered
<1>2. ASSUME NEW s \in Steps PROVE Booked(s)'
  BY DEF PacketInv, Booked, Retries, RetriesOf
<1> QED BY <1>1, <1>2

\* Another thread changes the registry: nothing of the turns is touched.
LEMMA ChangeRegistryOK ==
  ASSUME PacketInv, ChangeRegistry
  PROVE  PacketInv'
<1>1. PacketTypeOK'
  BY DEF ChangeRegistry, PacketInv, PacketTypeOK, Carried, book, request
<1>2. Numbered' /\ \A s \in Steps : Booked(s)'
  BY <1>1, BooksStay DEF ChangeRegistry, book
<1> QED BY <1>1, <1>2 DEF ChangeRegistry, PacketInv, Carried, WasOffered, TurnsAreAccounted, book, request

\* A turn that begins has booked nothing yet.
LEMMA BeginTurnOK ==
  ASSUME PacketInv, NEW s \in Steps, BeginTurn(s)
  PROVE  PacketInv'
<1>1. PacketTypeOK'
  BY DEF BeginTurn, PacketInv, PacketTypeOK, Carried, book
<1>2. Numbered'
  BY DEF BeginTurn, PacketInv, Numbered, book
<1>3. how = "plain" /\ how' = "plain"
  BY DEF BeginTurn, PacketInv, Carried
<1>4. ASSUME NEW t \in Steps PROVE Booked(t)'
  BY <1>3 DEF BeginTurn, PacketInv, Booked, Retries, RetriesOf, book
<1> QED BY <1>1, <1>2, <1>3, <1>4 DEF BeginTurn, PacketInv, Carried, WasOffered, TurnsAreAccounted, book

\* What is offered to the model is what is registered as it is asked.
LEMMA AskModelOK ==
  ASSUME PacketInv, AskModel
  PROVE  PacketInv'
<1>1. PacketTypeOK'
  BY DEF AskModel, PacketInv, PacketTypeOK, Carried, book
<1>2. Numbered' /\ \A s \in Steps : Booked(s)'
  BY <1>1, BooksStay DEF AskModel, book
<1> QED BY <1>1, <1>2 DEF AskModel, PacketInv, Carried, WasOffered, TurnsAreAccounted, book

\* A repair asks again, and a packet is accepted only if what it calls was offered.
LEMMA TakeAnswerOK ==
  ASSUME PacketInv, NEW form \in Forms, NEW payload \in Offers, TakeAnswer(form, payload)
  PROVE  PacketInv'
<1> DEFINE p == Filled(payload)
<1>1. PacketTypeOK /\ p \in Packet
  BY FilledType DEF PacketInv
<1>2. /\ phase = "answer" /\ open = 1 /\ open' = 0 /\ how = "plain"
      /\ manager' = manager /\ tools' = tools /\ cur' = cur /\ attempt' = attempt
  BY DEF TakeAnswer, PacketInv, TurnsAreAccounted, Carried
<1>3. CASE AskAgain
  <2>1. PacketTypeOK'
    BY <1>1, <1>2, <1>3 DEF AskAgain, PacketTypeOK, Carried, book
  <2>2. Numbered' /\ \A s \in Steps : Booked(s)'
    BY <1>2, <1>3, <2>1, BooksStay DEF AskAgain, book
  <2> QED BY <1>2, <1>3, <2>1, <2>2 DEF AskAgain, PacketInv, Carried, WasOffered, TurnsAreAccounted, book
<1>4. CASE AnswerErrors(form, p) = {} /\ Accept(p)
  <2>1. fresh' \in Nat
    BY <1>1, <1>4 DEF Accept, PacketTypeOK
  <2>2. PacketTypeOK'
    BY <1>1, <1>2, <1>4, <2>1 DEF Accept, PacketTypeOK, Carried
  <2>3. Numbered' /\ \A s \in Steps : Booked(s)'
    BY <1>2, <1>4, <2>2, BooksStay DEF Accept
  <2>4. p.type = "call_tool" => p.target \in offered
    <3>1. form = "packet"
      BY <1>4 DEF AnswerErrors
    <3>2. Errors(p, offered, StepFallbacks, RecentFailed(cur), attempts[cur]) = {}
      BY <1>4, <3>1 DEF AnswerErrors
    <3> HIDE DEF p
    <3>3. p.type = "call_tool" => TargetErrors(p, offered) = {}
      BY <3>2 DEF Errors
    <3> QED BY <3>3 DEF TargetErrors
  <2>5. WasOffered'
    BY <1>4, <2>4 DEF Accept, WasOffered
  <2> QED BY <1>2, <1>4, <2>2, <2>3, <2>5 DEF Accept, PacketInv, Carried, TurnsAreAccounted
<1>5. CASE GiveUp(form, p)
  <2> DEFINE q == IF form = "packet" THEN p ELSE Failure
  <2>1. q \in Packet
    BY <1>1, FailureType
  <2>2. fresh' \in Nat /\ tools' \subseteq Tools
    BY <1>1, <1>2, <1>5 DEF GiveUp, PacketTypeOK
  <2>3. EndTurn(Observed(q, FALSE))
    BY <1>5 DEF GiveUp
  <2>4. open' = open - IF phase = "answer" THEN 1 ELSE 0
    BY <1>2
  <2> HIDE DEF q
  <2> QED BY <1>2, <2>1, <2>2, <2>3, <2>4, ObservedEnds
<1> QED BY <1>3, <1>4, <1>5 DEF TakeAnswer

\* A packet is carried out, or refused with the observation of its turn.
LEMMA DispatchOK ==
  ASSUME PacketInv, Dispatch
  PROVE  PacketInv'
<1>1. PacketTypeOK /\ packet \in Packet
  BY DEF Dispatch, PacketInv, PacketTypeOK, Carried
<1>2. CASE /\ phase' = "perform"
           /\ UNCHANGED <<observations, attempts, turns, offered, repair, packet, how>>
  <2>1. PacketTypeOK'
    BY <1>1, <1>2 DEF Dispatch, PacketTypeOK, Carried
  <2>2. Numbered' /\ \A s \in Steps : Booked(s)'
    BY <1>2, <2>1, BooksStay DEF Dispatch
  <2> QED BY <1>2, <2>1, <2>2 DEF Dispatch, PacketInv, Carried, WasOffered, TurnsAreAccounted
<1>3. CASE EndTurn(Observed(packet, FALSE))
  <2>1. open' = open - IF phase = "answer" THEN 1 ELSE 0
    BY <1>1 DEF Dispatch, PacketTypeOK
  <2> QED BY <1>1, <1>3, <2>1, ObservedEnds DEF Dispatch, PacketTypeOK
<1> QED BY <1>2, <1>3 DEF Dispatch

-----------------------------------------------------------------------------
(* Steps that carry a packet out *)

\* Without a model manager the turn ends with an observation of its own.
LEMMA NoManagerOK ==
  ASSUME PacketInv, NEW s \in Steps, NoManager(s)
  PROVE  PacketInv'
<1> DEFINE q == Observed(Failure, FALSE)
           o == [q EXCEPT !.attempt = attempts[s] + 1]
<1>1. PacketTypeOK /\ Failure \in Packet
  BY FailureType DEF PacketInv
<1>2. o \in Observation /\ o.nr = Len(observations) + 1 /\ o.turn = cur /\ o.how = how
  <2>1. attempts[s] + 1 \in Nat \ {0}
    BY <1>1 DEF PacketTypeOK
  <2>2. q \in Observation /\ q.nr = Len(observations) + 1 /\ q.turn = cur /\ q.how = how
    BY <1>1, ObservedType
  <2> HIDE DEF q
  <2> QED BY <2>1, <2>2 DEF Observation
<1>3. EndTurn(o) /\ cur' = cur /\ attempt' = attempt /\ tools' \subseteq Tools /\ fresh' \in Nat
  BY <1>1 DEF NoManager, PacketTypeOK
<1>4. open' = open - IF phase = "answer" THEN 1 ELSE 0
  BY <1>1 DEF NoManager, PacketTypeOK
<1> HIDE DEF o
<1> QED BY <1>2, <1>3, <1>4, TurnEnds

\* A model that raises ends the turn with the failure packet.
LEMMA ModelFailsOK ==
  ASSUME PacketInv, ModelFails
  PROVE  PacketInv'
<1>1. PacketTypeOK /\ Failure \in Packet
  BY FailureType DEF PacketInv
<1>2. fresh' \in Nat /\ tools' \subseteq Tools
  BY <1>1 DEF ModelFails, PacketTypeOK
<1>3. open' = open - IF phase = "answer" THEN 1 ELSE 0
  BY DEF ModelFails
<1> QED BY <1>1, <1>2, <1>3, ObservedEnds DEF ModelFails

\* A packet that is carried out.
LEMMA PerformingPacket ==
  ASSUME PacketInv, NEW types, Performing(types)
  PROVE  /\ PacketTypeOK /\ packet \in Packet /\ packet.type \in types
         /\ phase = "perform"
BY DEF PacketInv, PacketTypeOK, Performing, Carried

\* Whatever it comes to without another dispatch, the turn ends.
LEMMA PerformEnds ==
  ASSUME PacketInv, phase = "perform", packet \in Packet, NEW ok \in BOOLEAN,
         EndTurn(Observed(packet, ok)),
         UNCHANGED <<manager, tools, changes, fresh, cur, attempt, open>>
  PROVE  PacketInv'
<1>1. PacketTypeOK
  BY DEF PacketInv
<1>2. open' = open - IF phase = "answer" THEN 1 ELSE 0
  BY <1>1 DEF PacketTypeOK
<1>3. fresh' \in Nat /\ tools' \subseteq Tools
  BY <1>1 DEF PacketTypeOK
<1> QED BY <1>2, <1>3, ObservedEnds

\* A tool call ends the turn with one observation.
LEMMA CallOK ==
  ASSUME PacketInv, Call
  PROVE  PacketInv'
<1>1. PICK ok \in BOOLEAN : EndTurn(Observed(packet, ok))
  BY DEF Call, ToolOutcomes
<1>2. phase = "perform" /\ packet \in Packet
  BY PerformingPacket DEF Call
<1> QED BY <1>1, <1>2, PerformEnds DEF Call

\* An action that only steers the task ends the turn with one observation.
LEMMA ControlOK ==
  ASSUME PacketInv, Control
  PROVE  PacketInv'
<1> DEFINE ok == packet.type \in {"finish", "skip_step"}
<1>1. phase = "perform" /\ packet \in Packet
  BY PerformingPacket DEF Control
<1>2. ok \in BOOLEAN
  OBVIOUS
<1>3. EndTurn(Observed(packet, ok)) /\ UNCHANGED <<manager, tools, changes, fresh, cur, attempt, open>>
  BY DEF Control
<1> HIDE DEF ok
<1> QED BY <1>1, <1>2, <1>3, PerformEnds

\* The dispatch inside a dispatch carries a packet of its own.
LEMMA InsideType ==
  ASSUME PacketTypeOK, phase = "perform", packet \in Packet,
         NEW o \in Observation, NEW type \in ActionTypes, NEW target \in Targets,
         NEW why \in {"retry", "fallback"}, NEW next \in Nat \ {0},
         DispatchInside(o, type, target, why, next), attempts' \in [Steps -> Nat],
         UNCHANGED <<manager, tools, changes, cur, open>>
  PROVE  PacketTypeOK'
<1>1. packet' \in Packet
  BY DEF DispatchInside, Packet, PacketTypeOK, Observation
<1>2. fresh' \in Nat /\ attempt' \in Nat \ {0} /\ how' \in {"plain", "retry", "fallback"}
  BY DEF DispatchInside, PacketTypeOK
<1> QED BY <1>1, <1>2 DEF DispatchInside, PacketTypeOK

\* A retry takes one more attempt than the step and what it repeats have had.
LEMMA RetryOK ==
  ASSUME PacketInv, Retry
  PROVE  PacketInv'
<1> DEFINE o == RedoTarget(packet)
           used == Max({o.attempt, attempts[cur]})
<1>1. PacketTypeOK /\ packet \in Packet /\ phase = "perform"
  BY PerformingPacket DEF Retry
<1>2. CASE RedoFails
  BY <1>1, <1>2, PerformEnds DEF Retry, RedoFails
<1>3. CASE /\ o # None /\ used - 1 < MaxRetries
           /\ DispatchInside(o, o.type, o.target, "retry", used + 1)
           /\ attempts' = Scheduled(used + 1)
  <2>1. o \in Observation
    BY <1>1, <1>3, RedoTargetType
  <2>2. o.attempt \in Nat \ {0} /\ attempts[cur] \in Nat /\ cur \in Steps
    BY <1>1, <2>1 DEF Observation, PacketTypeOK
  <2>3. used \in Nat \ {0} /\ used >= attempts[cur]
    <3> DEFINE a == o.attempt
               b == attempts[cur]
    <3>1. a \in Nat \ {0} /\ b \in Nat
      BY <2>2
    <3>2. a \in Int /\ b \in Int
      BY <3>1
    <3> HIDE DEF a, b
    <3>3. Max({a, b}) \in {a, b} /\ Max({a, b}) >= a /\ Max({a, b}) >= b
      BY <3>2, MaxOfTwo
    <3>4. Max({a, b}) \in Nat \ {0} /\ Max({a, b}) >= b
      BY <3>1, <3>3
    <3> QED BY <3>4 DEF a, b
  <2>4. /\ attempts' \in [Steps -> Nat] /\ attempts'[cur] >= used + 1
        /\ \A s \in Steps \ {cur} : attempts'[s] = attempts[s]
    <3> HIDE DEF used
    <3> DEFINE m == Max({attempts[cur], used + 1})
    <3>1. m \in Nat /\ m >= used + 1
      <4> DEFINE b == attempts[cur]
                 d == used + 1
      <4>1. b \in Nat /\ d \in Nat
        BY <2>2, <2>3
      <4>2. b \in Int /\ d \in Int
        BY <4>1
      <4> HIDE DEF b, d
      <4>3. Max({b, d}) \in {b, d} /\ Max({b, d}) >= d
        BY <4>2, MaxOfTwo
      <4>4. Max({b, d}) \in Nat /\ Max({b, d}) >= d
        BY <4>1, <4>3
      <4> QED BY <4>4 DEF b, d
    <3>2. attempts' = [attempts EXCEPT ![cur] = m]
      BY <1>3 DEF Scheduled
    <3>3. attempts \in [Steps -> Nat]
      BY <1>1 DEF PacketTypeOK
    <3> HIDE DEF m
    <3> QED BY <2>2, <3>1, <3>2, <3>3
  <2> HIDE DEF used
  <2>5. PacketTypeOK'
    <3>1. o.type \in ActionTypes /\ o.target \in Targets /\ used + 1 \in Nat \ {0}
      BY <2>1, <2>3 DEF Observation
    <3>2. UNCHANGED <<manager, tools, changes, cur, open>>
      BY DEF Retry
    <3> HIDE DEF o
    <3> QED BY <1>1, <1>3, <2>1, <2>4, <3>1, <3>2, InsideType
  <2>6. /\ observations' = observations /\ turns' = turns /\ how' = "retry" /\ cur' = cur
        /\ open' = open /\ phase' = "dispatch"
    BY <1>3 DEF DispatchInside, Retry
  <2>7. Numbered' /\ WasOffered' /\ TurnsAreAccounted' /\ Carried'
    BY <1>1, <2>6 DEF PacketInv, Numbered, WasOffered, TurnsAreAccounted, Carried
  <2>8. ASSUME NEW s \in Steps PROVE Booked(s)'
    <3> DEFINE n == Cardinality(RetriesOf(observations, s))
    <3>1. n \in Nat
      BY <1>1, <2>1, RetriesGrow
    <3>2. Booked(s) /\ Retries(s) = n + (IF how = "retry" /\ cur = s THEN 1 ELSE 0)
      BY DEF PacketInv, Retries
    <3>3. Retries(s)' = n + (IF cur = s THEN 1 ELSE 0)
      BY <2>6 DEF Retries
    <3> HIDE DEF n
    <3>4. CASE s = cur
      <4>1. n <= MaxRetries /\ (n = 0 \/ n < attempts[s])
        BY <2>2, <3>1, <3>2, <3>4, RequestAssumption DEF Booked
      <4>2. n + 1 <= used /\ used <= MaxRetries
        BY <1>3, <2>2, <2>3, <3>1, <3>4, <4>1, RequestAssumption
      <4>3. n + 1 <= MaxRetries /\ n + 1 < attempts'[s]
        BY <2>2, <2>3, <2>4, <3>1, <3>4, <4>2, RequestAssumption
      <4> QED BY <3>3, <3>4, <4>3 DEF Booked
    <3>5. CASE s # cur
      BY <2>4, <3>1, <3>2, <3>3, <3>5 DEF Booked
    <3> QED BY <3>4, <3>5
  <2> QED BY <2>5, <2>7, <2>8 DEF PacketInv
<1> QED BY <1>2, <1>3 DEF Retry

\* A fallback is dispatched inside the dispatch and books no retry.
LEMMA FallbackOK ==
  ASSUME PacketInv, Fallback
  PROVE  PacketInv'
<1> DEFINE o == RedoTarget(packet)
<1>1. PacketTypeOK /\ packet \in Packet /\ phase = "perform"
  BY PerformingPacket DEF Fallback
<1>2. PICK allowModel \in BOOLEAN :
        LET to == FallbackFor(packet, allowModel)
        IN IF o = None \/ to = None THEN RedoFails
           ELSE /\ DispatchInside(o, IF to = "model" THEN "call_model" ELSE "call_tool",
                                  IF to = "model" THEN None ELSE to, "fallback",
                                  Max({o.attempt + 1, attempt}))
                /\ UNCHANGED attempts
  BY DEF Fallback
<1>3. UNCHANGED <<manager, tools, changes, cur, open>>
  BY DEF Fallback
<1>4. CASE RedoFails
  BY <1>1, <1>3, <1>4, PerformEnds DEF RedoFails
<1>5. CASE ~RedoFails
  <2> DEFINE to == FallbackFor(packet, allowModel)
             type == IF to = "model" THEN "call_model" ELSE "call_tool"
             target == IF to = "model" THEN None ELSE to
             next == Max({o.attempt + 1, attempt})
  <2>1. o # None /\ DispatchInside(o, type, target, "fallback", next) /\ attempts' = attempts
    BY <1>2, <1>5
  <2>2. o \in Observation
    BY <1>1, <2>1, RedoTargetType
  <2>3. type \in ActionTypes /\ target \in Targets
    <3>1. packet.target \in Targets
      BY <1>1 DEF Packet
    <3> QED BY <3>1 DEF FallbackFor, ActionTypes, Targets
  <2>4. next \in Nat \ {0}
    <3> DEFINE a == o.attempt + 1
    <3>1. a \in Nat \ {0} /\ attempt \in Nat \ {0}
      BY <1>1, <2>2 DEF Observation, PacketTypeOK
    <3>2. a \in Int /\ attempt \in Int
      BY <3>1
    <3> HIDE DEF a
    <3>3. Max({a, attempt}) \in {a, attempt}
      BY <3>2, MaxOfTwo
    <3>4. Max({a, attempt}) \in Nat \ {0}
      BY <3>1, <3>3
    <3> QED BY <3>4 DEF a
  <2>5. attempts' \in [Steps -> Nat]
    BY <1>1, <2>1 DEF PacketTypeOK
  <2> HIDE DEF o, type, target, next
  <2>6. PacketTypeOK'
    BY <1>1, <1>3, <2>1, <2>2, <2>3, <2>4, <2>5, InsideType
  <2>7. /\ observations' = observations /\ turns' = turns /\ how' = "fallback" /\ cur' = cur
        /\ open' = open /\ phase' = "dispatch"
    BY <1>3, <2>1 DEF DispatchInside
  <2>8. Numbered' /\ WasOffered' /\ TurnsAreAccounted' /\ Carried'
    BY <1>1, <2>7 DEF PacketInv, Numbered, WasOffered, TurnsAreAccounted, Carried
  <2>9. ASSUME NEW s \in Steps PROVE Booked(s)'
    <3> DEFINE n == Cardinality(RetriesOf(observations, s))
    <3>1. n \in Nat
      BY <1>1, <2>2, RetriesGrow
    <3>2. Booked(s) /\ Retries(s) = n + (IF how = "retry" /\ cur = s THEN 1 ELSE 0)
      BY DEF PacketInv, Retries
    <3>3. Retries(s)' = n + 0
      BY <2>7 DEF Retries
    <3>4. attempts'[s] = attempts[s] /\ attempts[s] \in Nat
      BY <1>1, <2>1 DEF PacketTypeOK
    <3> HIDE DEF n
    <3> QED BY <3>1, <3>2, <3>3, <3>4, RequestAssumption DEF Booked
  <2> QED BY <2>6, <2>8, <2>9 DEF PacketInv
<1> QED BY <1>4, <1>5

-----------------------------------------------------------------------------
(* Theorems *)

\* Nothing has been asked for yet.
LEMMA PacketInit == Init => PacketInv
<1> SUFFICES ASSUME Init PROVE PacketInv
  OBVIOUS
<1>1. 1 \in Steps
  BY RequestAssumption DEF Steps
<1>2. PacketTypeOK
  BY <1>1 DEF Init, PacketTypeOK, Carried
<1>3. Numbered /\ WasOffered /\ TurnsAreAccounted /\ how = "plain"
  BY DEF Init, Numbered, WasOffered, TurnsAreAccounted, Carried
<1>4. ASSUME NEW s \in Steps PROVE Booked(s)
  <2>1. RetriesOf(observations, s) = {}
    BY DEF Init, RetriesOf
  <2>2. Cardinality(RetriesOf(observations, s)) = 0
    BY <2>1, FS_EmptySet
  <2> QED BY <2>2, RequestAssumption DEF Init, Booked, Retries
<1> QED BY <1>2, <1>3, <1>4 DEF PacketInv

\* Every step keeps the invariant.
LEMMA PacketStep ==
  ASSUME PacketInv, [Next]_vars
  PROVE  PacketInv'
<1>1. CASE ChangeRegistry BY <1>1, ChangeRegistryOK
<1>2. ASSUME NEW s \in Steps, BeginTurn(s) PROVE PacketInv' BY <1>2, BeginTurnOK
<1>3. ASSUME NEW s \in Steps, NoManager(s) PROVE PacketInv' BY <1>3, NoManagerOK
<1>4. CASE AskModel BY <1>4, AskModelOK
<1>5. CASE ModelFails BY <1>5, ModelFailsOK
<1>6. ASSUME NEW form \in Forms, NEW p \in Offers, TakeAnswer(form, p) PROVE PacketInv'
  BY <1>6, TakeAnswerOK
<1>7. CASE Dispatch BY <1>7, DispatchOK
<1>8. CASE Call BY <1>8, CallOK
<1>9. CASE Control BY <1>9, ControlOK
<1>10. CASE Retry BY <1>10, RetryOK
<1>11. CASE Fallback BY <1>11, FallbackOK
<1>12. CASE UNCHANGED vars
  BY <1>12 DEF vars, book, request, PacketInv, PacketTypeOK, Carried, Numbered, WasOffered,
    TurnsAreAccounted, Booked, Retries, RetriesOf
<1> QED BY <1>1, <1>2, <1>3, <1>4, <1>5, <1>6, <1>7, <1>8, <1>9, <1>10, <1>11, <1>12 DEF Next, Work

\* The books of observations, attempts and turns stay in order under every answer
\* of the model and every change of the registry (_request_action_packet,
\* dispatch_action, _handle_retry, _handle_fallback_to_tool).
THEOREM PacketInductive == Spec => []PacketInv
<1>1. PacketInv /\ [Next]_vars => PacketInv'
  BY PacketStep
<1> QED BY PacketInit, <1>1, PTL DEF Spec

\* However many repairs and dispatches inside dispatches a turn takes, it leaves one
\* observation and finishes each model step it started (_request_action_packet,
\* dispatch_action, _record_observation).
THEOREM TurnsAccounted == Spec => []TurnsAreAccounted
<1>1. PacketInv => TurnsAreAccounted
  BY DEF PacketInv
<1> QED BY PacketInductive, <1>1, PTL

\* The turns of a step carry out at most max_retries retries, whichever steps the
\* model books its actions on and whichever failures it names (RetryPolicy, _handle_retry).
THEOREM RetriesAreBounded == Spec => []RetriesBounded
<1>1. ASSUME PacketInv PROVE RetriesBounded
  <2>1. ASSUME NEW s \in Steps PROVE Cardinality(RetriesOf(observations, s)) <= MaxRetries
    <3>1. PacketTypeOK /\ Booked(s)
      BY <1>1 DEF PacketInv
    <3>2. IsFiniteSet(RetriesOf(observations, s))
      <4>1. Len(observations) \in Nat /\ DOMAIN observations = 1..Len(observations)
        BY <3>1 DEF PacketTypeOK
      <4>2. IsFiniteSet(1..Len(observations)) /\ RetriesOf(observations, s) \in SUBSET (1..Len(observations))
        BY <4>1, FS_Interval DEF RetriesOf
      <4> QED BY <4>2, FS_Subset
    <3>3. Cardinality(RetriesOf(observations, s)) \in Nat
      BY <3>2, FS_CardinalityType
    <3> QED BY <3>1, <3>3, RequestAssumption DEF Booked, Retries
  <2> QED BY <2>1 DEF RetriesBounded, RetriesOf
<1> QED BY PacketInductive, <1>1, PTL

\* The observation a turn ends with is the last of the store.
LEMMA EndedWith ==
  ASSUME PacketInv, NEW p \in Packet, NEW ok \in BOOLEAN, EndTurn(Observed(p, ok))
  PROVE  Last(observations').ok = ok /\ Last(observations').type = p.type
           /\ Last(observations').target = p.target
<1> DEFINE o == Observed(p, ok)
<1>1. PacketTypeOK /\ Numbered
  BY DEF PacketInv
<1>2. /\ o \in Observation /\ o.nr = Len(observations) + 1
      /\ o.ok = ok /\ o.type = p.type /\ o.target = p.target
  BY <1>1, ObservedType
<1> HIDE DEF o
<1>3. observations' = Append(observations, o)
  BY <1>1, <1>2, StoredOnce DEF o
<1>4. Last(observations') = o
  BY <1>1, <1>3 DEF Last, PacketTypeOK
<1> QED BY <1>2, <1>4

\* What a step that ends a turn with success has called was registered, and offered
\* if the model picked it.
LEMMA CalledIsThere ==
  ASSUME PacketInv, Next, turns' > turns,
         Last(observations').ok, Last(observations').type = "call_tool"
  PROVE  Last(observations').target \in tools
           /\ (how = "plain" => Last(observations').target \in offered)
<1>1. PacketTypeOK
  BY DEF PacketInv
<1>2. turns' # turns
  BY <1>1 DEF PacketTypeOK
<1>3. CASE ChangeRegistry
  BY <1>2, <1>3 DEF ChangeRegistry, book
<1>4. ASSUME NEW s \in Steps, BeginTurn(s) PROVE FALSE
  BY <1>2, <1>4 DEF BeginTurn, book
<1>5. ASSUME NEW s \in Steps, NoManager(s) PROVE FALSE
  <2> DEFINE q == Observed(Failure, FALSE)
             o == [q EXCEPT !.attempt = attempts[s] + 1]
  <2>1. Failure \in Packet /\ attempts[s] + 1 \in Nat \ {0}
    BY <1>1, FailureType DEF PacketTypeOK
  <2>2. q \in Observation /\ q.nr = Len(observations) + 1 /\ q.ok = FALSE
    BY <1>1, <2>1, ObservedType
  <2>3. EndTurn(o)
    BY <1>5 DEF NoManager
  <2> HIDE DEF q
  <2>4. o \in Observation /\ o.nr = Len(observations) + 1 /\ o.ok = FALSE
    BY <2>1, <2>2 DEF Observation
  <2> HIDE DEF o
  <2>5. observations' = Append(observations, o)
    BY <1>1, <2>3, <2>4, StoredOnce DEF PacketInv
  <2>6. Last(observations') = o
    BY <1>1, <2>5 DEF Last, PacketTypeOK
  <2> QED BY <2>4, <2>6
<1>6. CASE AskModel
  BY <1>2, <1>6 DEF AskModel, book
<1>7. CASE ModelFails
  BY <1>1, <1>7, FailureType, EndedWith DEF ModelFails
<1>8. ASSUME NEW form \in Forms, NEW payload \in Offers, TakeAnswer(form, payload) PROVE FALSE
  <2> DEFINE p == Filled(payload)
             q == IF form = "packet" THEN p ELSE Failure
  <2>1. q \in Packet
    BY <1>1, FilledType, FailureType
  <2>2. EndTurn(Observed(q, FALSE))
    BY <1>2, <1>8 DEF TakeAnswer, Accept, AskAgain, GiveUp, book
  <2> HIDE DEF q
  <2> QED BY <2>1, <2>2, EndedWith
<1>9. CASE Dispatch
  <2>1. EndTurn(Observed(packet, FALSE)) /\ packet \in Packet
    BY <1>1, <1>2, <1>9 DEF Dispatch, PacketTypeOK, Carried
  <2> QED BY <2>1, EndedWith
<1>10. CASE Call
  <2>1. packet \in Packet /\ Carried
    BY <1>10, PerformingPacket DEF Call, Carried
  <2>2. PICK ok \in BOOLEAN : /\ EndTurn(Observed(packet, ok))
                              /\ packet.type = "call_tool" => ok \in ToolOutcomes
    BY <1>10 DEF Call, ToolOutcomes
  <2>3. ok = TRUE /\ packet.type = "call_tool" /\ Last(observations').target = packet.target
    BY <2>1, <2>2, EndedWith
  <2>4. packet.target \in tools
    BY <2>2, <2>3 DEF ToolOutcomes
  <2>5. how = "plain" => packet.target \in offered
    BY <2>1, <2>3 DEF PacketInv, WasOffered
  <2> QED BY <2>3, <2>4, <2>5
<1>11. CASE Control
  <2> DEFINE ok == packet.type \in {"finish", "skip_step"}
  <2>1. packet \in Packet /\ packet.type # "call_tool"
    BY <1>11, PerformingPacket DEF Control
  <2>2. EndTurn(Observed(packet, ok)) /\ ok \in BOOLEAN
    BY <1>11 DEF Control
  <2> HIDE DEF ok
  <2> QED BY <2>1, <2>2, EndedWith
<1>12. CASE Retry \/ Fallback
  <2>1. EndTurn(Observed(packet, FALSE))
    BY <1>2, <1>12 DEF Retry, Fallback, RedoFails, DispatchInside
  <2>2. packet \in Packet
    BY <1>12, PerformingPacket DEF Retry, Fallback
  <2> QED BY <2>1, <2>2, EndedWith
<1> QED BY <1>3, <1>4, <1>5, <1>6, <1>7, <1>8, <1>9, <1>10, <1>11, <1>12 DEF Next, Work

\* A tool that is called with success is registered at that moment, and was offered to
\* the model that picked it, though other threads change the registry in between
\* (_dispatch_validation_errors, _handle_call_tool).
THEOREM CalledToolsRegistered == Spec => CalledToolsAreThere
<1> DEFINE Called == turns' > turns =>
             LET o == Last(observations') IN
             o.ok /\ o.type = "call_tool" =>
               o.target \in tools /\ (how = "plain" => o.target \in offered)
<1>1. PacketInv /\ [Next]_vars => [Called]_vars
  BY CalledIsThere
<1>2. [][Called]_vars => CalledToolsAreThere
  BY PTL DEF CalledToolsAreThere
<1> QED BY PacketInductive, <1>1, <1>2, PTL DEF Spec
=============================================================================
