-------------------------- MODULE ExecutorLoopProofs --------------------------
(***************************************************************************)
(* Proofs about one execution of a plan.  The inductive invariant says, of *)
(* every point of the loop, where the thread is in the plan, what has      *)
(* ended behind it and would be passed again if the loop started over,     *)
(* what the pending confirmation is about, and how many attempts the       *)
(* decisions of the checker have used.                                     *)
(***************************************************************************)
EXTENDS ExecutorLoop, FiniteSetTheorems, WellFoundedInduction, TLAPS

Open == {"pending", "running"}
Active == {"running", "retrying"}
StepStatus == Ended \cup Active \cup {"pending", "waiting_user"}
CallNames == Calls \cup {"none"}
Classes == Undecided \cup Ok \cup
           {"none", "failed", "blocked", "cancelled", "ask_user", "request_replan", "conflict"}
Types == Controls \cup {"none", "call", "fallback"}
Results == Ended \cup {"none", "waiting_user", "request_replan", "partial_failed"}

Observations == [type : Types, call : CallNames, class : Classes, used : BOOLEAN]

\* A packet that is no valid call fails as one, but in no class that is decided on.
FailedCalls ==
  {f \in [call : CallNames, class : Classes] : f.call = "none" => f.class \notin Undecided}

LoopTyped ==
  /\ plan \in Plans
  /\ status \in [Steps -> StepStatus]
  /\ attempts \in [Steps -> Nat]
  /\ latest \in [Steps -> {"none", "ok", "failed"}]
  /\ failedCall \in [Steps -> FailedCalls]
  /\ turn \in Nat /\ seen \in Nat
  /\ pending \in {NoPending} \cup
       [kind : {"action", "plan", "plan safety"}, step : Steps, call : CallNames \cup {"ask_user"}]
  /\ replan \in BOOLEAN
  /\ pc \in {"start", "unit", "ask", "check", "retry", "fallback", "returned"}
  /\ cur \in Nat /\ at \in Nat /\ round \in Nat /\ depth \in Nat
  /\ obs \in Observations
  /\ resume \in {"no", "acting", "looping"}
  /\ result \in Results

InStep == pc \in {"ask", "check", "retry", "fallback"}

\* Before the execution starts nothing has happened.
StartOK ==
  pc = "start" => /\ status = [s \in Steps |-> "pending"] /\ pending = NoPending
                  /\ resume = "no" /\ replan = FALSE

\* Where the thread is: at a step that is not ended, or behind one of its unit.
PlaceOK ==
  /\ InStep => at \in Steps /\ cur = plan.unit[at] /\ status[at] \notin Ended
  /\ pc = "unit" => /\ cur \in 1..LastUnit
                    /\ InUnit \/ \E s \in Steps : plan.unit[s] = cur /\ at = s + 1
  /\ pc \in {"unit", "ask"} => resume # "acting"

\* A unit is behind the thread when its steps have ended and it would be left again.
BehindIn(st, u, s) ==
  /\ \A t \in Steps : t < s => st[t] \in Ended
  /\ \A v \in 1..LastUnit : v < u => ~Stops(v, UnitResult(v, st), st)

Behind(u, s) == BehindIn(status, u, s)

Reached(s) == Behind(plan.unit[s], s)

BehindOK ==
  /\ pc = "unit" => Behind(cur, at)
  /\ InStep => Reached(at) \/ (AskedAhead(at) /\ resume = "acting")
  /\ Waiting /\ pending.kind = "action" => AskedAhead(pending.step) \/ Reached(pending.step)

\* A step that runs is the one the thread is at, or one whose failure may pass:
\* one approved ahead of its turn, or one that the loop is about to come to again.
ActiveOK ==
  \A s \in Steps : status[s] \in Active =>
    \/ InStep /\ s = at
    \/ AskedAhead(s) /\ plan.onFailure[s] = "continue"
    \/ pc = "unit" /\ at <= s /\ cur <= plan.unit[s] /\ Reached(s)

\* What a step needs is done once it is reached, unless it was approved ahead.
Satisfied(s) == AskedAhead(s) \/ \A d \in plan.dependsOn[s] : status[d] \in Ok

SatisfiedOK ==
  /\ InStep => Satisfied(at)
  /\ pending.kind = "action" => Satisfied(pending.step)
  /\ pending.kind = "plan safety" => AskedAhead(pending.step)

\* A question stays behind only when the turns of the execution are used up.
PendingOK ==
  /\ pc \in {"unit", "ask", "retry", "fallback"} => pending = NoPending \/ turn >= MaxExecutionTurns
  /\ pc = "check" => \/ pending = NoPending \/ turn >= MaxExecutionTurns
                     \/ pending.step = at /\ status[at] = "waiting_user" /\ obs.class = "ask_user"
  /\ pending.call = "none" <=> pending.kind \in {"none", "plan"}

\* The observation that waits for its judgement.
ObsOK ==
  /\ pc = "check" =>
       /\ obs.class \in Classes \ {"none", "conflict"}
       /\ obs.class \in {"cancelled", "request_replan"} => obs.type \in Terminal
       /\ obs.class = "ask_user" => obs.type \in {"call", "ask_user"}
       /\ obs.class = "ask_user" /\ obs.type = "call" =>
            /\ failedCall[at].call = obs.call /\ failedCall[at].class = "ask_user"
            /\ pending # NoPending \/ obs.call \in {"asked tool", "command"}
       /\ obs.class = "ask_user" /\ obs.type = "ask_user" => pending # NoPending
  /\ pc # "check" => obs.class # "completed"

\* Every transition of the checker has used up an attempt.
DepthOK ==
  /\ pc = "check" => depth < attempts[at] /\ depth < MaxStepTurns
  /\ pc \in {"retry", "fallback"} => depth <= attempts[at] /\ attempts[at] < MaxStepTurns

LoopInv ==
  /\ LoopTyped /\ StartOK /\ PlaceOK /\ BehindOK /\ ActiveOK /\ SatisfiedOK
  /\ PendingOK /\ ObsOK /\ DepthOK /\ DependenciesFirst /\ WaitingIsAnswerable

-----------------------------------------------------------------------------
(* Smallest and largest elements *)

\* Max of two numbers is one of them and bounds both.
LEMMA MaxOfTwo ==
  ASSUME NEW a \in Nat, NEW b \in Nat
  PROVE  Max({a, b}) \in Nat /\ Max({a, b}) >= a /\ Max({a, b}) >= b
<1>1. CASE a >= b
  <2>1. a \in {a, b} /\ \A y \in {a, b} : a >= y
    BY <1>1
  <2>2. Max({a, b}) \in {a, b} /\ \A y \in {a, b} : Max({a, b}) >= y
    BY <2>1 DEF Max
  <2> QED BY <2>2
<1>2. CASE b >= a
  <2>1. b \in {a, b} /\ \A y \in {a, b} : b >= y
    BY <1>2
  <2>2. Max({a, b}) \in {a, b} /\ \A y \in {a, b} : Max({a, b}) >= y
    BY <2>1 DEF Max
  <2> QED BY <2>2
<1> QED BY <1>1, <1>2

\* A set of some of the numbers 1..n has a largest and a smallest element: of
\* the parts above (below) an element, a least one is empty.
LEMMA EndsOfSome ==
  ASSUME NEW n \in Nat, NEW S \in SUBSET (1..n), S # {}
  PROVE  /\ Max(S) \in S /\ \A y \in S : Max(S) >= y
         /\ Min(S) \in S /\ \A y \in S : Min(S) <= y
<1> DEFINE Above(x) == {y \in S : y > x}
           Below(x) == {y \in S : y < x}
           R == StrictSubsetOrdering(S)
           T == {Above(x) : x \in S}
           B == {Below(x) : x \in S}
<1>0. IsFiniteSet(S)
  <2>1. IsFiniteSet(1..n)
    BY FS_Interval
  <2>2. S \subseteq 1..n
    OBVIOUS
  <2> HIDE DEF Above, Below, R, T, B
  <2> QED BY ONLY <2>1, <2>2, FS_Subset
<1>1. IsWellFoundedOn(R, FiniteSubsetsOf(S))
  BY <1>0, FS_StrictSubsetOrderingWellFounded
<1>2. ASSUME NEW x \in S
      PROVE  Above(x) \in FiniteSubsetsOf(S) /\ Below(x) \in FiniteSubsetsOf(S)
  <2>1. Above(x) \in SUBSET S /\ Below(x) \in SUBSET S
    OBVIOUS
  <2>2. IsFiniteSet(Above(x)) /\ IsFiniteSet(Below(x))
    BY <1>0, <2>1, FS_Subset
  <2> QED BY <2>1, <2>2 DEF FiniteSubsetsOf
<1>3. T \subseteq FiniteSubsetsOf(S) /\ T # {} /\ B \subseteq FiniteSubsetsOf(S) /\ B # {}
  BY <1>2
<1>4. /\ \E U \in T : \A V \in T : <<V, U>> \notin R
      /\ \E U \in B : \A V \in B : <<V, U>> \notin R
  <2> HIDE DEF T, B, R
  <2> QED BY <1>1, <1>3, WFMin
<1>5. \A x \in S : x \in Nat
  OBVIOUS
<1>6. \E x \in S : \A y \in S : x >= y
  <2>1. PICK x \in S : \A y \in S : <<Above(y), Above(x)>> \notin R
    BY <1>4
  <2>2. ASSUME NEW y \in S, y > x PROVE FALSE
    <3>0. x \in Nat /\ y \in Nat
      BY <1>5
    <3>4. ASSUME NEW z \in Above(y) PROVE z \in Above(x)
      <4>1. z \in S /\ z > y /\ z \in Nat
        BY <1>5, <3>4
      <4> QED BY <4>1, <3>0, <2>2
    <3>5. y \in Above(x)
      BY <2>2
    <3>6. y \notin Above(y)
      BY <3>0
    <3>1. Above(y) \subseteq Above(x) /\ y \in Above(x) /\ y \notin Above(y)
      BY <3>4, <3>5, <3>6
    <3>2. Above(y) \in SUBSET S /\ Above(x) \in SUBSET S
      OBVIOUS
    <3>3. <<Above(y), Above(x)>> \in R
      BY <3>1, <3>2 DEF R, StrictSubsetOrdering
    <3> QED BY <3>3, <2>1
  <2> QED BY <2>2, <1>5
<1>7. \E x \in S : \A y \in S : x <= y
  <2>1. PICK x \in S : \A y \in S : <<Below(y), Below(x)>> \notin R
    BY <1>4
  <2>2. ASSUME NEW y \in S, y < x PROVE FALSE
    <3>0. x \in Nat /\ y \in Nat
      BY <1>5
    <3>4. ASSUME NEW z \in Below(y) PROVE z \in Below(x)
      <4>1. z \in S /\ z < y /\ z \in Nat
        BY <1>5, <3>4
      <4> QED BY <4>1, <3>0, <2>2
    <3>5. y \in Below(x)
      BY <2>2
    <3>6. y \notin Below(y)
      BY <3>0
    <3>1. Below(y) \subseteq Below(x) /\ y \in Below(x) /\ y \notin Below(y)
      BY <3>4, <3>5, <3>6
    <3>2. Below(y) \in SUBSET S /\ Below(x) \in SUBSET S
      OBVIOUS
    <3>3. <<Below(y), Below(x)>> \in R
      BY <3>1, <3>2 DEF R, StrictSubsetOrdering
    <3> QED BY <3>3, <2>1
  <2> QED BY <2>2, <1>5
<1> QED BY <1>6, <1>7 DEF Max, Min

-----------------------------------------------------------------------------
(* The shape of a plan *)

\* The steps and units of a plan and the types of its parts.
LEMMA PlanShape ==
  ASSUME plan \in Plans
  PROVE  /\ plan.mode \in {"confirm", "run"}
         /\ plan.unit \in [Steps -> Nat \ {0}]
         /\ plan.dependsOn \in [Steps -> SUBSET Steps] /\ plan.inputFrom \in [Steps -> SUBSET Steps]
         /\ plan.onFailure \in [Steps -> {"stop", "continue", "replan"}]
         /\ plan.fallback \in [Steps -> {"none", "tool", "model"}]
         /\ plan.maxRetries \in [Steps -> Nat]
         /\ plan.gate \in [Steps -> Asked \cup {"none", "blocked"}]
         /\ 1 \in Steps /\ \E n \in Nat : Steps = 1..n
         /\ \A s \in Steps : s \in Nat \ {0}
         /\ \A s, t \in Steps : s <= t => plan.unit[s] <= plan.unit[t]
         /\ LastUnit \in Nat \ {0}
         /\ \A s \in Steps : plan.unit[s] \in 1..LastUnit
         /\ \A u \in 1..LastUnit : \E s \in Steps : plan.unit[s] = u
<1>1. PICK n \in Steps : 
        /\ Steps = 1..n
        /\ plan \in [mode : {"confirm", "run"}, unit : [Steps -> Nat \ {0}],
                     dependsOn : [Steps -> SUBSET Steps], inputFrom : [Steps -> SUBSET Steps],
                     onFailure : [Steps -> {"stop", "continue", "replan"}],
                     fallback : [Steps -> {"none", "tool", "model"}], maxRetries : [Steps -> Nat],
                     gate : [Steps -> Asked \cup {"none", "blocked"}]]
        /\ \A s, t \in Steps : s <= t => plan.unit[s] <= plan.unit[t]
        /\ \A u \in 1..plan.unit[n] : \E s \in Steps : plan.unit[s] = u
  BY PlansAssumption DEF Steps
<1>2. n \in Nat \ {0} /\ 1 \in Steps /\ \A s \in Steps : s \in Nat \ {0} /\ s <= n
  BY <1>1
<1>3. plan.unit \in [Steps -> Nat \ {0}] /\ \A s \in Steps : plan.unit[s] <= plan.unit[n]
  BY <1>1, <1>2
<1>4. LastUnit = plan.unit[n]
  <2> DEFINE m == plan.unit[n]
             U == {plan.unit[s] : s \in Steps}
  <2>1. m \in U /\ \A y \in U : y \in Nat /\ m >= y
    BY <1>3
  <2> HIDE DEF m, U
  <2>2. Max(U) = m
    BY <2>1 DEF Max
  <2> QED BY <2>2 DEF m, U, LastUnit
<1>5. LastUnit \in Nat \ {0} /\ \A s \in Steps : plan.unit[s] \in 1..LastUnit
  BY <1>3, <1>4
<1> QED BY <1>1, <1>2, <1>4, <1>5

\* The first and the last step of a unit are steps of it.
LEMMA UnitEnds ==
  ASSUME plan \in Plans, NEW u \in 1..LastUnit
  PROVE  /\ Max(UnitSteps(u)) \in Steps /\ plan.unit[Max(UnitSteps(u))] = u
         /\ Min(UnitSteps(u)) \in Steps /\ plan.unit[Min(UnitSteps(u))] = u
         /\ \A t \in Steps : plan.unit[t] = u => Min(UnitSteps(u)) <= t
<1>1. PICK n \in Nat : Steps = 1..n
  BY PlanShape
<1>2. UnitSteps(u) # {} /\ UnitSteps(u) \in SUBSET (1..n)
  BY <1>1, PlanShape DEF UnitSteps
<1>3. /\ Max(UnitSteps(u)) \in UnitSteps(u)
      /\ Min(UnitSteps(u)) \in UnitSteps(u) /\ \A y \in UnitSteps(u) : Min(UnitSteps(u)) <= y
  BY <1>2, EndsOfSome
<1> QED BY <1>3 DEF UnitSteps

\* Before the first step of the next unit is what belongs to the units so far.
LEMMA NextUnit ==
  ASSUME plan \in Plans, NEW u \in 1..LastUnit, u < LastUnit
  PROVE  LET m == Min(UnitSteps(u + 1)) IN
         /\ u + 1 \in 1..LastUnit /\ m \in Steps /\ plan.unit[m] = u + 1
         /\ \A t \in Steps : t < m => plan.unit[t] <= u
<1> DEFINE m == Min(UnitSteps(u + 1))
<1>1. u + 1 \in 1..LastUnit /\ u \in Nat
  BY PlanShape
<1>2. m \in Steps /\ plan.unit[m] = u + 1 /\ \A t \in Steps : plan.unit[t] = u + 1 => m <= t
  BY <1>1, UnitEnds
<1> HIDE DEF m
<1>3. ASSUME NEW t \in Steps, t < m PROVE plan.unit[t] <= u
  <2>1. t \in Nat /\ m \in Nat /\ plan.unit[t] \in Nat
    BY <1>2, PlanShape
  <2>2. plan.unit[t] <= plan.unit[m]
    BY <1>2, <1>3, <2>1, PlanShape
  <2>3. plan.unit[t] # u + 1
    BY <1>2, <1>3, <2>1
  <2> QED BY <1>1, <1>2, <2>1, <2>2, <2>3
<1> QED BY <1>1, <1>2, <1>3 DEF m

\* A thread that is behind the steps of its unit is behind those of the units before.
LEMMA UnitIsOver ==
  ASSUME LoopTyped, PlaceOK, pc = "unit", ~InUnit, NEW t \in Steps
  PROVE  plan.unit[t] <= cur <=> t < at
<1>1. PICK s \in Steps : plan.unit[s] = cur /\ at = s + 1
  BY DEF PlaceOK
<1>2. /\ plan \in Plans /\ s \in Nat /\ t \in Nat /\ at \in Nat /\ cur \in Nat
      /\ plan.unit[t] \in Nat
      /\ \A x, y \in Steps : x <= y => plan.unit[x] <= plan.unit[y]
  BY PlanShape DEF LoopTyped
<1>3. t <= s => plan.unit[t] <= cur
  BY <1>1, <1>2
<1>4. ASSUME t > s PROVE plan.unit[t] > cur
  <2>1. PICK n \in Nat : Steps = 1..n
    BY <1>2, PlanShape
  <2>2. at \in Steps /\ at <= t
    BY <1>1, <1>2, <1>4, <2>1
  <2>3. plan.unit[at] # cur /\ plan.unit[at] >= cur /\ plan.unit[at] <= plan.unit[t] /\ plan.unit[at] \in Nat
    BY <1>1, <1>2, <2>2, PlanShape DEF InUnit
  <2> QED BY <1>2, <2>3
<1> QED BY <1>1, <1>2, <1>3, <1>4


-----------------------------------------------------------------------------
(* Statuses, behind the thread and after it *)

\* The plan of an execution stays, and with it all that is read from it.
LEMMA Fixed ==
  ASSUME plan' = plan
  PROVE  /\ Steps' = Steps /\ LastUnit' = LastUnit
         /\ \A s : AskedAhead(s)' <=> AskedAhead(s)
         /\ \A u, s : Behind(u, s)' <=> BehindIn(status', u, s)
         /\ \A s : Reached(s)' <=> BehindIn(status', plan.unit[s], s)
<1>1. Steps' = Steps /\ LastUnit' = LastUnit /\ \A u : UnitSteps(u)' = UnitSteps(u)
  BY DEF Steps, LastUnit, UnitSteps
<1>2. \A s : AskedAhead(s)' <=> AskedAhead(s)
  BY <1>1 DEF AskedAhead
<1>3. \A u, s : Behind(u, s)' <=> BehindIn(status', u, s)
  BY <1>1 DEF Behind, BehindIn, Stops, UnitResult
<1>4. \A s : Reached(s)' <=> BehindIn(status', plan.unit[s], s)
  BY <1>3 DEF Reached
<1> QED BY <1>1, <1>2, <1>3, <1>4

\* Only steps of the same unit, later than the failed one and not begun or
\* running, are blocked with it.
LEMMA DependentsBlocked ==
  ASSUME plan \in Plans, NEW st \in [Steps -> StepStatus], NEW s \in Steps
  PROVE  /\ BlockDependents(st, s) \in [Steps -> StepStatus]
         /\ \A t \in Steps : \/ BlockDependents(st, s)[t] = st[t]
                             \/ t > s /\ st[t] \in Open /\ BlockDependents(st, s)[t] = "blocked"
  BY DEF BlockDependents, UnitSteps, Open, StepStatus, Ended

\* What a unit has come to depends on the statuses of its own steps.
LEMMA UnitByItsSteps ==
  ASSUME plan \in Plans, NEW u \in 1..LastUnit, NEW st, NEW st2,
         \A t \in Steps : plan.unit[t] = u => st2[t] = st[t]
  PROVE  /\ UnitResult(u, st2) = UnitResult(u, st)
         /\ \A r : Stops(u, r, st2) <=> Stops(u, r, st)
<1>1. st2[Max(UnitSteps(u))] = st[Max(UnitSteps(u))]
  BY UnitEnds
<1>2. Statuses(UnitSteps(u), st2) = Statuses(UnitSteps(u), st)
  BY DEF Statuses, UnitSteps
<1> QED BY <1>1, <1>2 DEF UnitResult, Stops

\* A step behind which nothing changes stays behind, and more may get behind.
LEMMA BehindKept ==
  ASSUME plan \in Plans, NEW st, NEW st2, NEW u \in Nat, NEW s, NEW s2, BehindIn(st, u, s),
         \A t \in Steps : t < s => st2[t] = st[t],
         \A t \in Steps : t < s2 /\ ~(t < s) => st2[t] \in Ended,
         \A t \in Steps : plan.unit[t] < u => t < s
  PROVE  BehindIn(st2, u, s2)
<1>1. \A t \in Steps : t < s2 => st2[t] \in Ended
  BY DEF BehindIn
<1>2. ASSUME NEW v \in 1..LastUnit, v < u PROVE ~Stops(v, UnitResult(v, st2), st2)
  <2>1. \A t \in Steps : plan.unit[t] = v => st2[t] = st[t]
    BY <1>2
  <2>2. UnitResult(v, st2) = UnitResult(v, st) /\ \A r : Stops(v, r, st2) <=> Stops(v, r, st)
    BY <2>1, UnitByItsSteps
  <2> QED BY <1>2, <2>2 DEF BehindIn
<1> QED BY <1>1, <1>2 DEF BehindIn

\* With a unit that would be left again, all before the next unit is behind.
LEMMA BehindUnit ==
  ASSUME plan \in Plans, NEW st, NEW st2, NEW u \in 1..LastUnit, NEW s, BehindIn(st, u, s),
         \A t \in Steps : t < s => st2[t] = st[t],
         \A t \in Steps : plan.unit[t] < u => t < s,
         \A t \in Steps : plan.unit[t] = u => st2[t] \in Ended,
         ~Stops(u, UnitResult(u, st2), st2), u < LastUnit
  PROVE  BehindIn(st2, u + 1, Min(UnitSteps(u + 1)))
<1> DEFINE m == Min(UnitSteps(u + 1))
<1>0. u \in Nat /\ LastUnit \in Nat /\ \A t \in Steps : plan.unit[t] \in Nat
  BY PlanShape
<1>1. BehindIn(st2, u, s)
  BY <1>0, BehindKept
<1>2. \A t \in Steps : t < m => plan.unit[t] <= u
  BY NextUnit
<1> HIDE DEF m
<1>3. ASSUME NEW t \in Steps, t < m PROVE st2[t] \in Ended
  <2>1. plan.unit[t] = u \/ plan.unit[t] < u
    BY <1>0, <1>2, <1>3
  <2> QED BY <2>1, <1>1 DEF BehindIn
<1>4. ASSUME NEW v \in 1..LastUnit, v < u + 1 PROVE ~Stops(v, UnitResult(v, st2), st2)
  <2>1. v = u \/ v < u
    BY <1>0, <1>4
  <2> QED BY <2>1, <1>1 DEF BehindIn
<1>5. BehindIn(st2, u + 1, m)
  BY <1>3, <1>4 DEF BehindIn
<1> QED BY <1>5 DEF m

\* The units before the one of the thread are behind it.
LEMMA UnitsBefore ==
  ASSUME LoopTyped, PlaceOK, InStep \/ pc = "unit", NEW t \in Steps, plan.unit[t] < cur
  PROVE  t < at
<1>1. plan \in Plans /\ t \in Nat /\ at \in Nat /\ cur \in Nat /\ plan.unit[t] \in Nat
  BY PlanShape DEF LoopTyped
<1>2. CASE at \in Steps /\ plan.unit[at] = cur
  <2>1. at <= t => plan.unit[at] <= plan.unit[t]
    BY <1>1, <1>2, PlanShape
  <2> QED BY <1>1, <1>2, <2>1
<1>3. CASE pc = "unit" /\ ~InUnit
  BY <1>1, <1>3, UnitIsOver
<1> QED BY <1>2, <1>3 DEF PlaceOK, InUnit

\* The steps of a unit are before the steps of the units after it.
LEMMA StepsBefore ==
  ASSUME plan \in Plans, NEW s \in Steps, NEW t \in Steps, plan.unit[t] < plan.unit[s]
  PROVE  t < s
<1>1. s \in Nat /\ t \in Nat /\ plan.unit[s] \in Nat /\ plan.unit[t] \in Nat
  BY PlanShape
<1>2. s <= t => plan.unit[s] <= plan.unit[t]
  BY PlanShape
<1> QED BY <1>1, <1>2


-----------------------------------------------------------------------------
(* Performing an action *)

\* What any action of a step leaves: an observation that may be judged, an
\* attempt more, and perhaps a question to the user.
Performed ==
  /\ obs' \in Observations /\ seen' = seen + 1
  /\ obs'.class \in Classes \ {"none", "conflict"}
  /\ obs'.class \in {"cancelled", "request_replan"} => obs'.type \in Terminal
  /\ obs'.class = "ask_user" => obs'.type \in {"call", "ask_user"}
  /\ obs'.class = "ask_user" /\ obs'.type = "call" =>
       /\ failedCall'[at].call = obs'.call /\ failedCall'[at].class = "ask_user"
       /\ pending' # NoPending \/ obs'.call \in {"asked tool", "command"}
  /\ obs'.class = "ask_user" /\ obs'.type = "ask_user" => pending' # NoPending
  /\ obs'.call \in Asked => obs'.class # "completed"
  /\ attempts' \in [Steps -> Nat] /\ attempts'[at] > attempts[at]
  /\ latest' \in [Steps -> {"none", "ok", "failed"}]
  /\ failedCall' \in [Steps -> FailedCalls]
  /\ status' \in [Steps -> StepStatus] /\ status'[at] \notin Ended
  /\ \A t \in Steps : t # at => status'[t] = status[t]
  /\ \/ pending' = pending
     \/ /\ pending' \in [kind : {"action"}, step : {at}, call : Calls \cup {"ask_user"}]
        /\ status'[at] = "waiting_user" /\ obs'.class = "ask_user"

\* What is known of a step.
LEMMA StepData ==
  ASSUME LoopTyped, NEW s \in Steps
  PROVE  /\ status[s] \in StepStatus /\ attempts[s] \in Nat /\ attempts[s] + 1 \in Nat
         /\ failedCall[s].call \in CallNames /\ failedCall[s].class \in Classes
         /\ failedCall[s].call = "none" => failedCall[s].class \notin Undecided
<1>1. failedCall[s] \in FailedCalls
  BY DEF LoopTyped
<1>2. status[s] \in StepStatus /\ attempts[s] \in Nat
  BY DEF LoopTyped
<1>3. attempts[s] + 1 \in Nat
  BY <1>2
<1> HIDE DEF LoopTyped
<1> QED BY <1>1, <1>2, <1>3 DEF FailedCalls

\* What is known of a pending confirmation.
LEMMA PendingData ==
  ASSUME LoopTyped, pending.kind # "none" \/ pending # NoPending
  PROVE  /\ pending.step \in Steps /\ pending.kind \in {"action", "plan", "plan safety"}
         /\ pending.call \in CallNames \cup {"ask_user"} /\ pending # NoPending
<1>1. pending # NoPending
  BY DEF NoPending
<1>2. pending \in [kind : {"action", "plan", "plan safety"}, step : Steps,
                  call : CallNames \cup {"ask_user"}]
  BY <1>1 DEF LoopTyped
<1> QED BY <1>1, <1>2

\* What is remembered of an observation.
LEMMA Recorded ==
  ASSUME LoopTyped, NEW s \in Steps, NEW o \in Observations, NEW a \in Nat, Record(s, o, a),
         o.type = "call" /\ o.call = "none" => o.class \notin Undecided
  PROVE  /\ obs' = o /\ seen' = seen + 1
         /\ attempts' \in [Steps -> Nat] /\ attempts'[s] >= a
         /\ latest' \in [Steps -> {"none", "ok", "failed"}]
         /\ failedCall' \in [Steps -> FailedCalls]
         /\ o.type = "call" /\ o.class \notin Ok =>
              failedCall'[s].call = o.call /\ failedCall'[s].class = o.class
<1>1. attempts[s] \in Nat
  BY DEF LoopTyped
<1>2. /\ Max({attempts[s], a}) \in Nat
      /\ Max({attempts[s], a}) >= a
  BY <1>1, MaxOfTwo
<1>3. attempts' \in [Steps -> Nat] /\ attempts'[s] >= a
  BY <1>2 DEF Record, LoopTyped
<1>4. latest' \in [Steps -> {"none", "ok", "failed"}]
  BY DEF Record, LoopTyped
<1>5. o.call \in CallNames /\ o.class \in Classes
  BY DEF Observations
<1>6. /\ failedCall' \in [Steps -> FailedCalls]
      /\ o.type = "call" /\ o.class \notin Ok =>
           failedCall'[s].call = o.call /\ failedCall'[s].class = o.class
  <2> DEFINE f == [call |-> o.call, class |-> o.class]
  <2>1. o.type = "call" => f \in FailedCalls
    BY <1>5 DEF FailedCalls
  <2> HIDE DEF f
  <2>2. failedCall \in [Steps -> FailedCalls]
    BY DEF LoopTyped
  <2>3. failedCall' = IF o.type = "call" /\ o.class \notin Ok
                        THEN [failedCall EXCEPT ![s] = f] ELSE failedCall
    BY DEF Record, f
  <2>4. o.type = "call" /\ o.class \notin Ok => failedCall'[s] = f
    BY <2>2, <2>3
  <2>6. f.call = o.call /\ f.class = o.class
    BY DEF f
  <2>5. failedCall' \in [Steps -> FailedCalls]
    BY <2>1, <2>2, <2>3
  <2> QED BY <2>4, <2>5, <2>6
<1> QED BY <1>3, <1>4, <1>6 DEF Record

\* What may come of a call that the user has not confirmed.
LEMMA Unconfirmed ==
  ASSUME NEW c \in Calls, NEW class \in CallClasses(c, FALSE, FALSE)
  PROVE  /\ class \in Undecided \cup {"blocked", "completed", "ask_user"}
         /\ c \in Asked => class # "completed"
         /\ class = "ask_user" => c \in Asked
<1>1. Failures \subseteq Undecided \cup {"blocked"}
  BY LimitsAssumption
<1>2. CASE c = "call"
  <2>1. class \in Failures \cup {"completed"}
    BY <1>2 DEF CallClasses, Asked
  <2> QED BY <1>1, <1>2, <2>1 DEF Undecided, Asked
<1>3. CASE c \in Asked
  <2>1. class \in Failures \cup {"ask_user"}
    BY <1>3 DEF CallClasses, Asked
  <2> QED BY <1>1, <1>3, <2>1 DEF Undecided
<1> QED BY <1>2, <1>3 DEF Calls

\* The types of observations.
LEMMA SeenTyped ==
  ASSUME NEW type \in Types, NEW c \in CallNames, NEW class \in Classes, NEW used \in BOOLEAN
  PROVE  /\ Seen(type, c, class, used) \in Observations
         /\ Seen(type, c, class, used).type = type
         /\ Seen(type, c, class, used).call = c
         /\ Seen(type, c, class, used).class = class
         /\ Seen(type, c, class, used).used = used
  BY DEF Seen, Observations

\* The observation of a call that is not a fallback's.
LEMMA CallSeen ==
  \A c \in CallNames, class \in Classes :
     /\ Seen("call", c, class, FALSE) \in Observations
     /\ Seen("call", c, class, FALSE).type = "call"
     /\ Seen("call", c, class, FALSE).call = c
     /\ Seen("call", c, class, FALSE).class = class
<1>1. "call" \in Types /\ FALSE \in BOOLEAN
  BY DEF Types
<1> QED BY <1>1, SeenTyped

\* An unconfirmed call, with or without a question.
LEMMA DispatchPerforms ==
  ASSUME LoopTyped, at \in Steps, NEW c \in Calls, NEW class \in CallClasses(c, FALSE, FALSE),
         NEW used \in BOOLEAN, NEW before \in StepStatus \ Ended,
         Dispatch(at, c, class, attempts[at] + 1, used, before)
  PROVE  Performed
<1> DEFINE o == Seen("call", c, class, used)
<1>1. /\ class \in Undecided \cup {"blocked", "completed", "ask_user"}
      /\ c \in Asked => class # "completed"
      /\ class = "ask_user" => c \in Asked
  BY Unconfirmed
<1>0. "call" \in Types /\ c \in CallNames /\ class \in Classes
  BY <1>1 DEF Types, CallNames, Classes, Ok
<1>2. /\ o \in Observations
      /\ o.type = "call" /\ o.call = c /\ o.class = class
  BY ONLY <1>0, used \in BOOLEAN, SeenTyped
<1>11. o.call # "none"
  BY <1>2 DEF Calls, Asked
<1>3. attempts[at] \in Nat /\ attempts[at] + 1 \in Nat
  BY StepData
<1>4. Record(at, o, attempts[at] + 1)
  BY DEF Dispatch
<1> HIDE DEF o
<1>5. /\ obs' = o /\ seen' = seen + 1
      /\ attempts' \in [Steps -> Nat] /\ attempts'[at] >= attempts[at] + 1
      /\ latest' \in [Steps -> {"none", "ok", "failed"}]
      /\ failedCall' \in [Steps -> FailedCalls]
      /\ o.type = "call" /\ o.class \notin Ok =>
              failedCall'[at].call = o.call /\ failedCall'[at].class = o.class
  BY <1>2, <1>3, <1>4, <1>11, Recorded
<1>6. attempts'[at] > attempts[at]
  BY <1>3, <1>5
<1>7. /\ obs'.class \in Classes \ {"none", "conflict"}
      /\ obs'.type = "call" /\ obs'.call = c /\ obs'.class = class
      /\ class \notin {"cancelled", "request_replan"}
  BY <1>1, <1>2, <1>5 DEF Classes, Undecided, Ok
<1>8. class = "ask_user" => /\ failedCall'[at].call = c /\ failedCall'[at].class = "ask_user"
  BY <1>2, <1>5 DEF Ok
<1>9. CASE class = "ask_user"
  <2>1. /\ pending' = Pending("action", at, c)
        /\ status' = [status EXCEPT ![at] = "waiting_user"]
    BY <1>1, <1>9 DEF Dispatch
  <2>2. /\ status' \in [Steps -> StepStatus] /\ status'[at] = "waiting_user"
        /\ \A t \in Steps : t # at => status'[t] = status[t]
    BY <2>1 DEF LoopTyped, StepStatus
  <2>3. /\ pending' \in [kind : {"action"}, step : {at}, call : Calls \cup {"ask_user"}]
        /\ pending' # NoPending
    BY <2>1 DEF Pending, NoPending
  <2> QED BY <1>1, <1>2, <1>5, <1>6, <1>7, <1>8, <1>9, <2>2, <2>3 DEF Performed, Ended, Ok
<1>10. CASE class # "ask_user"
  <2>1. pending' = pending /\ status' = [status EXCEPT ![at] = before]
    BY <1>10 DEF Dispatch
  <2>2. /\ status' \in [Steps -> StepStatus] /\ status'[at] \notin Ended
        /\ \A t \in Steps : t # at => status'[t] = status[t]
    BY <2>1 DEF LoopTyped
  <2> QED BY <1>1, <1>2, <1>5, <1>6, <1>7, <1>10, <2>1, <2>2 DEF Performed
<1> QED BY <1>9, <1>10

\* An observation of no call, with nothing else changed, or with a question.
LEMMA RemarkPerforms ==
  ASSUME LoopTyped, at \in Steps, status[at] \notin Ended,
         NEW type \in Types, NEW class \in Classes \ {"none", "conflict"},
         Record(at, Seen(type, "none", class, FALSE), attempts[at] + 1),
         class \in {"cancelled", "request_replan"} => type \in Terminal,
         type = "call" => class \notin Undecided,
         \/ class # "ask_user" /\ UNCHANGED <<status, pending>>
         \/ /\ class = "ask_user" /\ type = "ask_user"
            /\ pending' = Pending("action", at, "ask_user")
            /\ status' = [status EXCEPT ![at] = "waiting_user"]
  PROVE  Performed
<1> DEFINE o == Seen(type, "none", class, FALSE)
<1>0. "none" \in CallNames /\ class \in Classes
  BY DEF CallNames
<1>2. /\ o \in Observations
      /\ o.type = type /\ o.call = "none" /\ o.class = class
  BY ONLY <1>0, type \in Types, SeenTyped
<1>3. attempts[at] \in Nat /\ attempts[at] + 1 \in Nat
  BY StepData
<1>4. Record(at, o, attempts[at] + 1)
  OBVIOUS
<1> HIDE DEF o
<1>5. /\ obs' = o /\ seen' = seen + 1
      /\ attempts' \in [Steps -> Nat] /\ attempts'[at] >= attempts[at] + 1
      /\ latest' \in [Steps -> {"none", "ok", "failed"}]
      /\ failedCall' \in [Steps -> FailedCalls]
  BY <1>2, <1>3, <1>4, Recorded
<1>6. attempts'[at] > attempts[at]
  BY <1>3, <1>5
<1>7. obs'.type = type /\ obs'.call = "none" /\ obs'.class = class /\ "none" \notin Asked
  BY <1>2, <1>5 DEF Asked
<1>9. CASE class = "ask_user"
  <2>1. /\ pending' = Pending("action", at, "ask_user") /\ type = "ask_user"
        /\ status' = [status EXCEPT ![at] = "waiting_user"]
    BY <1>9
  <2>2. /\ status' \in [Steps -> StepStatus] /\ status'[at] = "waiting_user"
        /\ \A t \in Steps : t # at => status'[t] = status[t]
    BY <2>1 DEF LoopTyped, StepStatus
  <2>3. /\ pending' \in [kind : {"action"}, step : {at}, call : Calls \cup {"ask_user"}]
        /\ pending' # NoPending
    BY <2>1 DEF Pending, NoPending
  <2>4. "waiting_user" \notin Ended
    BY DEF Ended, Ok
  <2> QED BY <1>2, <1>5, <1>6, <1>7, <1>9, <2>1, <2>2, <2>3, <2>4 DEF Performed
<1>10. CASE class # "ask_user"
  <2>1. pending' = pending /\ status' = status
    BY <1>10
  <2>2. status' \in [Steps -> StepStatus]
    BY <2>1 DEF LoopTyped
  <2> QED BY <1>2, <1>5, <1>6, <1>7, <1>10, <2>1, <2>2 DEF Performed
<1> QED BY <1>9, <1>10


\* A retry runs the failed call again, unconfirmed or as a command without its
\* ticket, or only says that it may not.
LEMMA RetryPerforms ==
  ASSUME LoopTyped, at \in Steps, status[at] \notin Ended, RetryStep(at)
  PROVE  Performed
<1>0. status[at] \in StepStatus /\ "retrying" \in StepStatus \ Ended
  BY StepData DEF StepStatus, Active, Ended, Ok
<1>1. CASE ~(failedCall[at] # NoCall /\ Verdict(at, failedCall[at].class, seen) = "retry")
  <2>1. /\ Record(at, Seen("retry_step", "none", "retryable", FALSE), attempts[at] + 1)
        /\ UNCHANGED <<status, pending>>
    BY <1>1 DEF RetryStep
  <2>2. "retry_step" \in Types /\ "retryable" \in Classes \ {"none", "conflict"}
    BY DEF Types, Controls, Classes, Undecided
  <2> QED BY <2>1, <2>2, RemarkPerforms
<1>2. CASE failedCall[at] # NoCall /\ Verdict(at, failedCall[at].class, seen) = "retry"
  <2> DEFINE c == failedCall[at].call
  <2>1. c \in Calls
    <3>1. failedCall[at].class \notin Undecided =>
            Verdict(at, failedCall[at].class, seen) \in {"failed", failedCall[at].class}
      BY DEF Verdict
    <3>2. "retry" \notin Classes
      BY DEF Classes, Undecided, Ok
    <3>3. failedCall[at].class \in Undecided
      BY <1>2, <3>1, <3>2, StepData
    <3> QED BY <3>3, StepData DEF CallNames
  <2>2. PICK class \in CallClasses(c, c = "command", FALSE) :
          IF c = "command"
              THEN /\ Record(at, Seen("call", c, class, FALSE), attempts[at] + 1)
                   /\ status' = [status EXCEPT ![at] = "retrying"]
                   /\ UNCHANGED pending
              ELSE Dispatch(at, c, class, attempts[at] + 1, FALSE, "retrying")
    BY <1>2 DEF RetryStep
  <2> HIDE DEF c
  <2>3. CASE c # "command"
    <3>1. class \in CallClasses(c, FALSE, FALSE)
      BY <2>2, <2>3
    <3>2. Dispatch(at, c, class, attempts[at] + 1, FALSE, "retrying")
      BY <2>2, <2>3
    <3> QED BY <1>0, <2>1, <3>1, <3>2, DispatchPerforms
  <2>4. CASE c = "command"
    <3> DEFINE o == Seen("call", c, class, FALSE)
    <3>1. class \in Undecided \cup {"blocked", "ask_user"}
      <4>1. class \in Failures \cup {"ask_user"}
        BY <2>2, <2>4 DEF CallClasses, Asked
      <4> QED BY <4>1, LimitsAssumption
    <3>2. "call" \in Types /\ c \in CallNames /\ class \in Classes
      BY <2>1, <3>1 DEF Types, CallNames, Classes, Ok
    <3>3. o \in Observations /\ o.type = "call" /\ o.call = c /\ o.class = class
      BY ONLY <3>2, CallSeen
    <3>4. Record(at, o, attempts[at] + 1) /\ pending' = pending
          /\ status' = [status EXCEPT ![at] = "retrying"]
      BY <2>2, <2>4
    <3>5. attempts[at] \in Nat /\ attempts[at] + 1 \in Nat
      BY StepData
    <3> HIDE DEF o
    <3>6. /\ obs' = o /\ seen' = seen + 1
          /\ attempts' \in [Steps -> Nat] /\ attempts'[at] >= attempts[at] + 1
          /\ latest' \in [Steps -> {"none", "ok", "failed"}]
          /\ failedCall' \in [Steps -> FailedCalls]
          /\ class \notin Ok => failedCall'[at].call = c /\ failedCall'[at].class = class
      BY <2>4, <3>3, <3>4, <3>5, Recorded
    <3>7. attempts'[at] > attempts[at]
      BY <3>5, <3>6
    <3>8. /\ class \notin Ok /\ class \notin {"none", "conflict", "cancelled", "request_replan", "completed"}
          /\ obs'.type = "call" /\ obs'.call = "command" /\ obs'.class = class
      BY <2>4, <3>1, <3>3, <3>6 DEF Ok, Undecided
    <3>9. /\ status' \in [Steps -> StepStatus] /\ status'[at] \notin Ended
          /\ \A t \in Steps : t # at => status'[t] = status[t]
      BY <1>0, <3>4 DEF LoopTyped
    <3> QED BY <2>4, <3>2, <3>3, <3>4, <3>6, <3>7, <3>8, <3>9 DEF Performed
  <2> QED BY <2>3, <2>4
<1> QED BY <1>1, <1>2

\* A fallback is an unconfirmed call in the place of the failed one, or none.
LEMMA FallbackPerforms ==
  ASSUME LoopTyped, at \in Steps, status[at] \notin Ended, NEW kind, Fallback(at, kind)
  PROVE  Performed
<1>1. status[at] \in StepStatus \ Ended
  BY StepData
<1>2. CASE /\ Record(at, Seen("fallback", "none", "retryable", FALSE), attempts[at] + 1)
           /\ UNCHANGED <<status, pending>>
  <2>1. "fallback" \in Types /\ "retryable" \in Classes \ {"none", "conflict"}
    BY DEF Types, Classes, Undecided
  <2> QED BY <1>2, <2>1, RemarkPerforms
<1>3. ASSUME NEW c \in {"call"} \cup IF kind = "tool" THEN {"asked tool"} ELSE {},
             NEW class \in CallClasses(c, FALSE, FALSE),
             Dispatch(at, c, class, attempts[at] + 1, TRUE, status[at])
      PROVE  Performed
  <2>1. c \in Calls
    BY <1>3 DEF Calls, Asked
  <2> QED BY <1>1, <1>3, <2>1, DispatchPerforms
<1> QED BY <1>2, <1>3 DEF Fallback

\* Each action of the model performs something.
LEMMA TurnPerforms ==
  ASSUME LoopTyped, PlaceOK, Turn
  PROVE  /\ Performed /\ pc = "ask"
         /\ turn' = turn + 1 /\ pc' = "check" /\ depth' = 0
         /\ UNCHANGED <<plan, cur, at, round, resume, result>>
         /\ replan' \in BOOLEAN
<1>0. at \in Steps /\ status[at] \notin Ended /\ pc = "ask"
  BY DEF Turn, PlaceOK, InStep
<1>1. ASSUME StartTurn
      PROVE  /\ turn' = turn + 1 /\ pc' = "check" /\ depth' = 0
             /\ UNCHANGED <<plan, cur, at, round, resume, result>>
  BY <1>1 DEF StartTurn
<1>2. replan \in BOOLEAN
  BY DEF LoopTyped
<1>3. ASSUME NEW c \in Packets \cap Calls, CallTurn(c)
      PROVE  Performed /\ StartTurn /\ replan' \in BOOLEAN
  <2>1. "running" \in StepStatus \ Ended
    BY DEF StepStatus, Active, Ended, Ok
  <2> QED BY <1>0, <1>2, <1>3, <2>1, DispatchPerforms DEF CallTurn
<1>4. ASSUME NEW type \in Packets \cap (Terminal \cup {"skip_step", "ask_user"}), ControlTurn(type)
      PROVE  Performed /\ StartTurn /\ replan' \in BOOLEAN
  <2>1. PICK class \in Classes \ {"none", "conflict"} :
          /\ Record(at, Seen(type, "none", class, FALSE), attempts[at] + 1)
          /\ class \in {"cancelled", "request_replan"} => type \in Terminal
          /\ class = "ask_user" <=> type = "ask_user"
    <3> DEFINE class == CASE type = "skip_step" -> "skipped"
                          [] type = "finish" -> "completed"
                          [] type = "fail" -> "failed"
                          [] type = "cancel" -> "cancelled"
                          [] OTHER -> type
    <3>1. Record(at, Seen(type, "none", class, FALSE), attempts[at] + 1)
      BY <1>4 DEF ControlTurn
    <3>2. /\ class \in Classes \ {"none", "conflict"}
          /\ class \in {"cancelled", "request_replan"} => type \in Terminal
          /\ class = "ask_user" <=> type = "ask_user"
      BY DEF Terminal, Classes, Ok, Undecided
    <3> HIDE DEF class
    <3> QED BY <3>1, <3>2
  <2>2. type \in Types /\ type # "call"
    BY DEF Types, Controls, Terminal
  <2>3. \/ type # "ask_user" /\ UNCHANGED <<status, pending>>
        \/ /\ type = "ask_user"
           /\ pending' = Pending("action", at, "ask_user")
           /\ status' = [status EXCEPT ![at] = "waiting_user"]
    BY <1>4 DEF ControlTurn
  <2>4. Performed
    BY <1>0, <2>1, <2>2, <2>3, RemarkPerforms
  <2>5. StartTurn /\ replan' \in BOOLEAN
    BY <1>2, <1>4 DEF ControlTurn
  <2> QED BY <2>4, <2>5
<1>5. ASSUME NEW type \in (Packets \cap Controls) \cup {"call", "fail"}, InvalidTurn(type)
      PROVE  Performed /\ StartTurn /\ replan' \in BOOLEAN
  <2>1. /\ type \in Types /\ "failed" \in Classes \ {"none", "conflict"} /\ "failed" \notin Undecided
        /\ "failed" \notin {"cancelled", "request_replan"} /\ "failed" # "ask_user"
    BY DEF Types, Controls, Terminal, Classes, Undecided
  <2>2. /\ Record(at, Seen(type, "none", "failed", FALSE), attempts[at] + 1)
        /\ UNCHANGED <<status, pending>> /\ replan' = replan /\ StartTurn
    BY <1>5 DEF InvalidTurn
  <2>3. Performed
    BY <1>0, <2>1, <2>2, RemarkPerforms
  <2> QED BY <1>2, <2>2, <2>3
<1>6. ASSUME RetryTurn PROVE Performed /\ StartTurn /\ replan' \in BOOLEAN
  BY <1>0, <1>2, <1>6, RetryPerforms DEF RetryTurn
<1>7. ASSUME FallbackTurn PROVE Performed /\ StartTurn /\ replan' \in BOOLEAN
  BY <1>0, <1>2, <1>7, FallbackPerforms DEF FallbackTurn
<1> QED BY <1>0, <1>1, <1>3, <1>4, <1>5, <1>6, <1>7 DEF Turn


\* What is satisfied stays so while steps that are done stay done.
LEMMA SatisfiedKept ==
  ASSUME plan \in Plans, plan' = plan, NEW s \in Steps, Satisfied(s),
         \A t \in Steps : status[t] \in Ok => status'[t] \in Ok
  PROVE  Satisfied(s)'
<1>1. CASE AskedAhead(s)
  BY <1>1, Fixed DEF Satisfied
<1>2. CASE \A d \in plan.dependsOn[s] : status[d] \in Ok
  <2>1. plan.dependsOn[s] \in SUBSET Steps
    BY PlanShape
  <2>2. \A d \in plan'.dependsOn[s] : status'[d] \in Ok
    BY <1>2, <2>1
  <2> QED BY <2>2 DEF Satisfied
<1> QED BY <1>1, <1>2 DEF Satisfied

\* The same for all steps that have run or run: what a step needs is done,
\* when whatever has come to run or to be completed is satisfied.
LEMMA DependenciesKept ==
  ASSUME plan \in Plans, plan' = plan, DependenciesFirst,
         \A t \in Steps : status[t] \in Ok => status'[t] \in Ok,
         \A t \in Steps : status'[t] \in {"running", "retrying", "completed"} =>
                            status'[t] = status[t] \/ Satisfied(t)
  PROVE  DependenciesFirst'
<1> SUFFICES ASSUME NEW s \in Steps, ~AskedAhead(s), status'[s] \in {"running", "retrying", "completed"},
                    NEW d \in plan.dependsOn[s]
             PROVE  status'[d] \in Ok
  BY Fixed DEF DependenciesFirst
<1>1. d \in Steps
  BY PlanShape
<1>2. status[d] \in Ok
  BY DEF DependenciesFirst, Satisfied
<1> QED BY <1>1, <1>2

\* An action leaves the thread where it is, with something to judge.
LEMMA PerformedKeeps ==
  ASSUME LoopInv, pc \in {"ask", "retry", "fallback"}, Performed, pc' = "check",
         turn' \in {turn, turn + 1}, depth' \in Nat, depth' <= attempts[at], depth' < MaxStepTurns,
         UNCHANGED <<plan, cur, at, round, resume, result>>, replan' \in BOOLEAN
  PROVE  LoopInv'
<1>0. /\ LoopTyped /\ PlaceOK /\ BehindOK /\ ActiveOK /\ SatisfiedOK /\ PendingOK /\ DependenciesFirst
      /\ plan \in Plans /\ at \in Steps /\ cur = plan.unit[at] /\ status[at] \notin Ended
      /\ InStep /\ InStep' /\ Steps' = Steps
  BY Fixed DEF LoopInv, InStep, PlaceOK, LoopTyped
<1>1. \A t \in Steps : t # at => status'[t] = status[t]
  BY DEF Performed
<1>2. \A t \in Steps : status[t] \in Ok => status'[t] \in Ok
  BY <1>0, <1>1 DEF Ended
<1>3. LoopTyped'
  <2>0. turn \in Nat /\ seen \in Nat
    BY <1>0 DEF LoopTyped
  <2>5. seen' = seen + 1
    BY DEF Performed
  <2>1. turn' \in Nat /\ seen' \in Nat
    BY <2>0, <2>5
  <2>2. pending' \in {NoPending} \cup
           [kind : {"action", "plan", "plan safety"}, step : Steps, call : CallNames \cup {"ask_user"}]
    BY <1>0 DEF LoopTyped, Performed, CallNames
  <2>3. /\ status' \in [Steps -> StepStatus] /\ attempts' \in [Steps -> Nat]
        /\ latest' \in [Steps -> {"none", "ok", "failed"}]
        /\ failedCall' \in [Steps -> FailedCalls] /\ obs' \in Observations
    BY DEF Performed
  <2>4. cur' \in Nat /\ at' \in Nat /\ round' \in Nat /\ resume' \in {"no", "acting", "looping"}
        /\ result' \in Results /\ plan' \in Plans
    BY <1>0 DEF LoopTyped
  <2> QED BY <1>0, <2>1, <2>2, <2>3, <2>4 DEF LoopTyped
<1>4. StartOK' /\ WaitingIsAnswerable'
  BY DEF StartOK, WaitingIsAnswerable
<1>5. PlaceOK'
  <2>1. status'[at] \notin Ended
    BY DEF Performed
  <2> QED BY <1>0, <2>1 DEF PlaceOK
<1>6. BehindOK'
  <2>1. Reached(at)' \/ (AskedAhead(at)' /\ resume' = "acting")
    <3>1. CASE AskedAhead(at) /\ resume = "acting"
      BY <3>1, Fixed
    <3>2. CASE Reached(at)
      <4>1. \A t \in Steps : t < at => status'[t] = status[t]
        <5>1. \A t \in Steps : t \in Nat /\ at \in Nat
          BY <1>0, PlanShape
        <5> QED BY <1>1, <5>1
      <4>2. plan.unit[at] \in Nat /\ \A t \in Steps : plan.unit[t] < plan.unit[at] => t < at
        BY <1>0, PlanShape, StepsBefore
      <4>3. BehindIn(status', plan.unit[at], at)
        BY <1>0, <3>2, <4>1, <4>2, BehindKept DEF Reached, Behind
      <4> QED BY <4>3, Fixed
    <3> QED BY <1>0, <3>1, <3>2 DEF BehindOK
  <2>2. AskedAhead(at') <=> AskedAhead(at)
    OBVIOUS
  <2>3. (Reached(at) \/ (AskedAhead(at) /\ resume = "acting"))'
    BY <2>1
  <2>4. pc' # "unit" /\ ~Waiting'
    BY DEF Waiting
  <2> QED BY <2>3, <2>4 DEF BehindOK
<1>7. ActiveOK'
  <2> SUFFICES ASSUME NEW s \in Steps, status'[s] \in Active, s # at
               PROVE  AskedAhead(s)' /\ plan'.onFailure[s] = "continue"
    BY <1>0 DEF ActiveOK
  <2>1. status[s] \in Active /\ pc # "unit"
    BY <1>1
  <2>2. AskedAhead(s) /\ plan.onFailure[s] = "continue"
    BY <1>0, <2>1 DEF ActiveOK
  <2> QED BY <2>2, Fixed
<1>8. Satisfied(at)'
  BY <1>0, <1>2, SatisfiedKept DEF SatisfiedOK
<1>9. SatisfiedOK'
  <2>1. CASE pending' = pending
    <3>1. ASSUME pending.kind = "action" PROVE Satisfied(pending.step)'
      <4>1. pending.step \in Steps /\ Satisfied(pending.step)
        BY <1>0, <3>1, PendingData DEF SatisfiedOK
      <4> DEFINE s == pending.step
      <4>2. \A t \in Steps : Satisfied(t) => Satisfied(t)'
        BY <1>0, <1>2, SatisfiedKept
      <4>3. PICK t \in Steps : t = pending.step
        BY <4>1
      <4>4. Satisfied(t)'
        BY <4>1, <4>2, <4>3
      <4> QED BY <2>1, <4>3, <4>4
    <3>2. ASSUME pending.kind = "plan safety" PROVE AskedAhead(pending.step)'
      <4>1. pending.step \in Steps /\ AskedAhead(pending.step)
        BY <1>0, <3>2, PendingData DEF SatisfiedOK
      <4>3. PICK t \in Steps : t = pending.step
        BY <4>1
      <4>4. AskedAhead(t)'
        BY <4>1, <4>3, Fixed
      <4> QED BY <2>1, <4>3, <4>4
    <3> QED BY <1>8, <2>1, <3>1, <3>2 DEF SatisfiedOK
  <2>2. CASE pending' \in [kind : {"action"}, step : {at}, call : Calls \cup {"ask_user"}]
    <3>1. pending'.kind = "action" /\ pending'.step = at'
      BY <2>2
    <3>2. Satisfied(pending.step)'
      BY <1>8, <3>1
    <3> QED BY <1>8, <3>1, <3>2 DEF SatisfiedOK
  <2> QED BY <2>1, <2>2 DEF Performed
<1>10. PendingOK'
  <2>0. turn \in Nat /\ MaxExecutionTurns \in Nat
    BY <1>0, LimitsAssumption DEF LoopTyped
  <2>1. CASE pending' = pending
    <3>1. pending = NoPending \/ turn >= MaxExecutionTurns
      BY <1>0 DEF PendingOK
    <3>2. turn >= MaxExecutionTurns => turn' >= MaxExecutionTurns
      BY <2>0
    <3> QED BY <1>0, <2>1, <3>1, <3>2 DEF PendingOK
  <2>2. CASE /\ pending' \in [kind : {"action"}, step : {at}, call : Calls \cup {"ask_user"}]
             /\ status'[at] = "waiting_user" /\ obs'.class = "ask_user"
    <3>1. pending'.step = at' /\ pending'.call # "none"
      BY <2>2 DEF Calls, Asked
    <3> QED BY <2>2, <3>1 DEF PendingOK
  <2> QED BY <2>1, <2>2 DEF Performed
<1>11. ObsOK'
  BY DEF ObsOK, Performed
<1>12. DepthOK'
  <2>1. attempts[at] \in Nat /\ attempts'[at] \in Nat /\ attempts'[at] > attempts[at]
    BY <1>0, StepData DEF Performed
  <2>2. depth' < attempts'[at]
    BY <2>1
  <2> QED BY <2>2 DEF DepthOK
<1>13. DependenciesFirst'
  <2>1. ASSUME NEW t \in Steps PROVE status'[t] = status[t] \/ Satisfied(t)
    BY <1>0, <1>1 DEF SatisfiedOK
  <2> QED BY <1>0, <1>2, <2>1, DependenciesKept
<1> QED BY <1>3, <1>4, <1>5, <1>6, <1>7, <1>9, <1>10, <1>11, <1>12, <1>13 DEF LoopInv


\* Every action of a step keeps the invariant, and none of them is a success of
\* a call that needs the user's word.
LEMMA ActionSteps ==
  ASSUME LoopInv, Turn \/ RetryDecided \/ FallbackDecided
  PROVE  /\ LoopInv' /\ Performed /\ pc' = "check" /\ plan' = plan /\ at' = at
         /\ pc \in {"ask", "retry", "fallback"}
<1>0. LoopTyped /\ PlaceOK /\ DepthOK
  BY DEF LoopInv
<1>1. ASSUME Turn
      PROVE  LoopInv' /\ Performed /\ pc' = "check" /\ plan' = plan /\ at' = at /\ pc = "ask"
  <2>1. /\ Performed /\ pc = "ask"
        /\ turn' = turn + 1 /\ pc' = "check" /\ depth' = 0
        /\ UNCHANGED <<plan, cur, at, round, resume, result>>
        /\ replan' \in BOOLEAN
    BY <1>0, <1>1, TurnPerforms
  <2>2. at \in Steps
    BY <1>0, <2>1 DEF PlaceOK, InStep
  <2>3. attempts[at] \in Nat /\ MaxStepTurns \in Nat \ {0}
    BY <1>0, <2>2, StepData, LimitsAssumption
  <2>4. depth' \in Nat /\ depth' <= attempts[at] /\ depth' < MaxStepTurns
    BY <2>1, <2>3
  <2> QED BY <2>1, <2>4, PerformedKeeps
<1>2. ASSUME RetryDecided \/ FallbackDecided
      PROVE  LoopInv' /\ Performed /\ pc' = "check" /\ plan' = plan /\ at' = at /\ pc \in {"retry", "fallback"}
  <2>1. /\ pc \in {"retry", "fallback"} /\ pc' = "check"
        /\ UNCHANGED <<plan, turn, replan, cur, at, round, depth, resume, result>>
    BY <1>2 DEF RetryDecided, FallbackDecided
  <2>2. at \in Steps /\ status[at] \notin Ended
    BY <1>0, <2>1 DEF PlaceOK, InStep
  <2>3. Performed
    BY <1>0, <1>2, <2>2, RetryPerforms, FallbackPerforms DEF RetryDecided, FallbackDecided
  <2>4. depth \in Nat /\ replan \in BOOLEAN /\ attempts[at] \in Nat /\ MaxStepTurns \in Nat
    BY <1>0, <2>2, StepData, LimitsAssumption DEF LoopTyped
  <2>5. depth <= attempts[at] /\ depth < MaxStepTurns
    BY <1>0, <2>1, <2>4 DEF DepthOK
  <2> QED BY <2>1, <2>3, <2>4, <2>5, PerformedKeeps
<1> QED BY <1>1, <1>2

-----------------------------------------------------------------------------
(* Judging *)

\* What the judgement of an observation makes of the statuses: the step at
\* which the thread is comes to own, and later ones may be left out.
Settles(st, own) ==
  /\ st \in [Steps -> StepStatus] /\ st[at] = own
  /\ \A t \in Steps : t # at => \/ st[t] = status[t]
                                \/ t > at /\ status[t] \in Open /\ st[t] \in {"blocked", "skipped"}

\* What a settled step means for the thread, the result of the step being r.
Settled(own, r) ==
  /\ Settles(status', own) /\ replan' \in BOOLEAN
  /\ \/ /\ resume = "acting" /\ r # "waiting_user"
        /\ EnterLoop("looping", replan')
     \/ /\ r = "completed" => obs.type = "finish"
        /\ \E w \in BOOLEAN : Return(r, w)
     \/ /\ resume # "acting" /\ own \in Ended
        /\ Go("unit", cur, at + 1, replan')
     \/ /\ resume # "acting" /\ r = "failed" /\ ~Stops(cur, r, status') /\ cur < LastUnit
        /\ Go("unit", cur + 1, Min(UnitSteps(cur + 1)), replan')
     \/ /\ resume # "acting" /\ r = "failed" /\ ~Stops(cur, r, status') /\ ~(cur < LastUnit)
        /\ \E w \in BOOLEAN : Return(Aggregate(status', w, r), w)

\* What a step has come to goes with the result that is made of it.
Fits(own, r) ==
  \/ own \in {"completed", "skipped"} /\ r = "completed"
  \/ own \in {"failed", "blocked", "cancelled", "waiting_user"} /\ r = own
  \/ own = "failed" /\ r = "request_replan"

LEMMA StepDoneSettles ==
  ASSUME LoopTyped, at \in Steps, NEW own, NEW r, Fits(own, r), NEW terminal \in BOOLEAN,
         NEW st, Settles(st, own), NEW w \in BOOLEAN, StepDone(r, terminal, st, w),
         r = "request_replan" => w, ~terminal => r # "cancelled", terminal /\ r = "completed" => obs.type = "finish"
  PROVE  Settled(own, r)
<1> USE DEF Fits
<1>0. plan \in Plans
  BY DEF LoopTyped
<1>1. CASE resume = "acting"
  <2>1. CASE r = "waiting_user"
    <3>1. status' = st /\ Return(r, w) /\ r # "completed"
      BY <1>1, <2>1 DEF StepDone
    <3>2. replan' \in BOOLEAN
      BY <3>1 DEF Return
    <3> QED BY <3>1, <3>2 DEF Settled
  <2>2. CASE r # "waiting_user"
    <3>1. status' = st /\ EnterLoop("looping", w) /\ replan' = w
      BY <1>1, <2>2 DEF StepDone, EnterLoop
    <3> QED BY <1>1, <2>2, <3>1 DEF Settled
  <2> QED BY <2>1, <2>2
<1>2. CASE resume # "acting" /\ terminal
  BY <1>2 DEF StepDone, Return, Settled
<1>3. CASE /\ resume # "acting" /\ ~terminal
           /\ r = "completed" \/ (r \in {"failed", "blocked"} /\ plan.onFailure[at] = "continue")
  <2>1. status' = st /\ Go("unit", cur, at + 1, w) /\ replan' = w
    BY <1>3 DEF StepDone, Go
  <2>2. own \in Ended
    BY <1>3 DEF Ended, Ok
  <2> QED BY <1>3, <2>1, <2>2 DEF Settled
<1>4. CASE /\ resume # "acting" /\ ~terminal
           /\ ~(r = "completed" \/ (r \in {"failed", "blocked"} /\ plan.onFailure[at] = "continue"))
  <2>1. /\ status' = IF r \in {"failed", "blocked"} THEN BlockDependents(st, at) ELSE st
        /\ LeaveUnit(r, status', w)
    BY <1>4 DEF StepDone
  <2>2. Settles(status', own)
    <3>1. /\ BlockDependents(st, at) \in [Steps -> StepStatus]
          /\ \A t \in Steps : \/ BlockDependents(st, at)[t] = st[t]
                              \/ t > at /\ st[t] \in Open /\ BlockDependents(st, at)[t] = "blocked"
      BY <1>0, DependentsBlocked DEF Settles
    <3>5. at \in Nat
      BY DEF LoopTyped
    <3>2. ~(at > at)
      BY <3>5
    <3>3. "blocked" \notin Open /\ "skipped" \notin Open
      BY DEF Open
    <3>4. Settles(BlockDependents(st, at), own)
      <4> HIDE DEF Fits
      <4> DEFINE b == BlockDependents(st, at)
      <4>1. b[at] = own
        BY <3>1, <3>2 DEF Settles
      <4>2. ASSUME NEW t \in Steps, t # at
            PROVE  b[t] = status[t] \/ (t > at /\ status[t] \in Open /\ b[t] \in {"blocked", "skipped"})
        BY <3>1, <3>3, <4>2 DEF Settles
      <4> QED BY <3>1, <4>1, <4>2 DEF Settles
    <3> QED BY <2>1, <3>4
  <2>3. CASE Stops(cur, r, status')
    <3>1. Return(r, w) /\ r # "completed"
      BY <1>4, <2>1, <2>3 DEF LeaveUnit
    <3>2. replan' \in BOOLEAN
      BY <3>1 DEF Return
    <3> QED BY <2>2, <3>1, <3>2 DEF Settled
  <2>4. CASE ~Stops(cur, r, status')
    <3>1. r = "failed"
      BY <1>4, <2>4 DEF Stops
    <3>2. CASE cur < LastUnit
      <4>1. Go("unit", cur + 1, Min(UnitSteps(cur + 1)), w) /\ replan' = w
        BY <2>1, <2>4, <3>2 DEF LeaveUnit, Go
      <4> QED BY <1>4, <2>2, <2>4, <3>1, <3>2, <4>1 DEF Settled
    <3>3. CASE ~(cur < LastUnit)
      <4>1. Return(Aggregate(status', w, r), w)
        BY <2>1, <2>4, <3>3 DEF LeaveUnit
      <4>2. replan' \in BOOLEAN
        BY <4>1 DEF Return
      <4> QED BY <1>4, <2>2, <2>4, <3>1, <3>3, <4>1, <4>2 DEF Settled
    <3> QED BY <3>2, <3>3
  <2> QED BY <2>3, <2>4
<1> QED BY <1>1, <1>2, <1>3, <1>4


\* The loop starts at the first step of the first unit, behind which is nothing.
LEMMA LoopStart ==
  ASSUME plan \in Plans
  PROVE  1 \in Steps /\ plan.unit[1] = 1 /\ 1 \in 1..LastUnit /\ \A st : BehindIn(st, 1, 1)
<1>1. 1 \in Steps /\ LastUnit \in Nat \ {0} /\ 1 \in 1..LastUnit
  BY PlanShape
<1>2. PICK s \in Steps : plan.unit[s] = 1
  BY <1>1, PlanShape
<1>3. s \in Nat \ {0} /\ plan.unit[1] \in Nat \ {0} /\ (1 <= s => plan.unit[1] <= plan.unit[s])
  BY <1>1, PlanShape
<1>4. plan.unit[1] = 1
  BY <1>2, <1>3
<1>5. \A t \in Steps : ~(t < 1)
  BY PlanShape
<1>6. \A v \in 1..LastUnit : ~(v < 1)
  BY <1>1
<1>7. \A st : BehindIn(st, 1, 1)
  BY <1>5, <1>6 DEF BehindIn
<1> QED BY <1>1, <1>4, <1>7

\* What the execution returns, when all that is asked of a result is so.
ResultFits ==
  LET all == Statuses(Steps, status') IN
  /\ result' = "completed" /\ ~replan' /\ obs.type # "finish" => all \subseteq Ok
  /\ result' = "partial_failed" => {"failed", "completed"} \subseteq all /\ "blocked" \notin all
  /\ result' = "request_replan" => replan' /\ "failed" \in all
  /\ result' = "blocked" => "blocked" \in all
  /\ result' = "waiting_user" => "waiting_user" \in all
  /\ result' = "cancelled" => "cancelled" \in all
  /\ \A s \in Steps : status'[s] \in {"running", "retrying"} =>
       AskedAhead(s) /\ plan.onFailure[s] = "continue"

\* A result of single steps is one of them.
LEMMA ReturnFits ==
  ASSUME NEW r, NEW w \in BOOLEAN, Return(r, w),
         r = "completed" => obs.type = "finish",
         r \in {"request_replan", "failed"} => \E s \in Steps : status'[s] = "failed",
         r \in {"blocked", "waiting_user", "cancelled"} => \E s \in Steps : status'[s] = r,
         r # "partial_failed",
         \A s \in Steps : status'[s] \in Active => AskedAhead(s) /\ plan.onFailure[s] = "continue"
  PROVE  ResultFits
<1> DEFINE all == Statuses(Steps, status')
<1>1. \A s \in Steps : status'[s] \in all
  BY DEF Statuses
<1>2. /\ r \in {"request_replan", "failed"} => "failed" \in all
      /\ r \in {"blocked", "waiting_user", "cancelled"} => r \in all
  BY <1>1
<1> HIDE DEF all
<1>3. /\ result' \in {r, "request_replan"}
      /\ result' = "request_replan" /\ r # "request_replan" => r = "failed" /\ w = TRUE
      /\ replan' = (w \/ r = "request_replan")
  BY DEF Return
<1>4. result' = "request_replan" => replan' /\ "failed" \in all
  BY <1>2, <1>3
<1> QED BY <1>2, <1>3, <1>4 DEF ResultFits, all, Active

\* The result of all units agrees with the steps when all of them have ended.
LEMMA AggregateFits ==
  ASSUME NEW r \in {"completed", "skipped", "failed"}, NEW w \in BOOLEAN,
         Return(Aggregate(status', w, r), w),
         \A s \in Steps : status'[s] \in Ended,
         r = "failed" => \E s \in Steps : status'[s] = "failed"
  PROVE  ResultFits /\ result' \in Results \ {"waiting_user"}
<1> DEFINE all == Statuses(Steps, status')
           a == Aggregate(status', w, r)
<1>1. all \subseteq Ended /\ (r = "failed" => "failed" \in all)
  BY DEF Statuses
<1>2. a = IF all \subseteq Ok THEN "completed"
          ELSE IF "waiting_user" \in all \/ w THEN r
          ELSE IF "blocked" \in all THEN "blocked"
          ELSE IF "failed" \in all
            THEN IF "completed" \in all THEN "partial_failed" ELSE "failed"
          ELSE IF "cancelled" \in all THEN "cancelled"
          ELSE IF "running" \in all THEN "blocked" ELSE "failed"
  BY DEF Aggregate
<1>3. \A s \in Steps : status'[s] \notin Active
  BY DEF Ended, Ok, Active
<1> HIDE DEF all
<1>4. "waiting_user" \notin all /\ "running" \notin all
  BY <1>1 DEF Ended, Ok
<1>5. all \subseteq Ok \/ "blocked" \in all \/ "failed" \in all \/ "cancelled" \in all
  BY <1>1 DEF Ended
<1>6. /\ a \in {"completed", "skipped", "failed", "blocked", "partial_failed", "cancelled"}
      /\ a = "completed" => all \subseteq Ok \/ w
      /\ a = "partial_failed" => "failed" \in all /\ "completed" \in all /\ "blocked" \notin all
      /\ a = "failed" => "failed" \in all
      /\ a \in {"blocked", "cancelled"} => a \in all
  BY <1>1, <1>2, <1>4, <1>5
<1>7. /\ result' \in {a, "request_replan"}
      /\ result' = "request_replan" => a = "failed" /\ w
      /\ replan' = w
  <2> HIDE DEF a
  <2>1. Return(a, w)
    BY DEF a
  <2> QED BY <2>1, <1>6 DEF Return
<1> HIDE DEF a
<1>8. result' \in Results \ {"waiting_user"}
  BY <1>6, <1>7 DEF Results, Ended, Ok
<1>9. ResultFits
  BY <1>3, <1>6, <1>7 DEF ResultFits, all, Active
<1> QED BY <1>8, <1>9


\* What the judgement of a step leaves as it was.
LEMMA SettledStatus ==
  ASSUME LoopInv, pc = "check", NEW own, own \notin Active, Settles(status', own), plan' = plan,
         own = "completed" => Satisfied(at)
  PROVE  /\ at \in Steps /\ \A t \in Steps : t < at => status'[t] = status[t]
         /\ \A t \in Steps : status[t] \in Ended => status'[t] = status[t]
         /\ \A s \in Steps : status'[s] \in Active => AskedAhead(s) /\ plan.onFailure[s] = "continue"
         /\ DependenciesFirst'
<1>0. /\ LoopTyped /\ PlaceOK /\ ActiveOK /\ DependenciesFirst /\ plan \in Plans
      /\ at \in Steps /\ status[at] \notin Ended
  BY DEF LoopInv, PlaceOK, InStep, LoopTyped
<1>1. \A t \in Steps : t \in Nat /\ at \in Nat
  BY <1>0, PlanShape
<1>2. /\ status'[at] = own
      /\ \A t \in Steps : t # at => \/ status'[t] = status[t]
                                    \/ t > at /\ status[t] \in Open /\ status'[t] \in {"blocked", "skipped"}
  BY DEF Settles
<1>3. \A t \in Steps : t < at => status'[t] = status[t]
  BY <1>1, <1>2
<1>4. Ended \cap Open = {} /\ Ok \subseteq Ended /\ "blocked" \notin Active \cup {"completed"}
      /\ "skipped" \notin Active \cup {"completed"}
  BY DEF Ended, Ok, Open, Active
<1>5. \A t \in Steps : status[t] \in Ended => status'[t] = status[t]
  BY <1>0, <1>2, <1>4
<1>6. ASSUME NEW s \in Steps, status'[s] \in Active
      PROVE  AskedAhead(s) /\ plan.onFailure[s] = "continue"
  <2>1. s # at /\ status[s] \in Active
    BY <1>2, <1>4, <1>6
  <2> QED BY <1>0, <2>1 DEF ActiveOK
<1>7. DependenciesFirst'
  <2>1. ASSUME NEW t \in Steps, status'[t] \in {"running", "retrying", "completed"}
        PROVE  status'[t] = status[t] \/ Satisfied(t)
    <3>1. CASE t = at
      BY <1>2, <2>1, <3>1 DEF Active
    <3>2. CASE t # at
      BY <1>2, <1>4, <2>1, <3>2 DEF Active
    <3> QED BY <3>1, <3>2
  <2>2. \A t \in Steps : status[t] \in Ok => status'[t] \in Ok
    BY <1>4, <1>5
  <2> QED BY <1>0, <2>1, <2>2, DependenciesKept
<1> QED BY <1>0, <1>3, <1>5, <1>6, <1>7

\* A unit of which all steps have ended comes to one of their ends; what it
\* comes to is left behind when it does not stop the execution.
LEMMA UnitEnded ==
  ASSUME plan \in Plans, NEW u \in 1..LastUnit, NEW st,
         \A t \in Steps : plan.unit[t] = u => st[t] \in Ended
  PROVE  /\ UnitResult(u, st) \in {"completed", "skipped", "failed", "blocked", "cancelled"}
         /\ UnitResult(u, st) \in {"failed", "blocked", "cancelled"} =>
              \E t \in Steps : plan.unit[t] = u /\ st[t] = UnitResult(u, st)
<1> DEFINE ss == Statuses(UnitSteps(u), st)
           m == Max(UnitSteps(u))
<1>1. /\ \A x \in ss : \E t \in Steps : plan.unit[t] = u /\ st[t] = x
      /\ m \in Steps /\ plan.unit[m] = u
  BY UnitEnds DEF Statuses, UnitSteps
<1>2. UnitResult(u, st) = IF ss \subseteq Ok THEN "completed"
                          ELSE IF "waiting_user" \in ss THEN "waiting_user"
                          ELSE IF "blocked" \in ss THEN "blocked"
                          ELSE IF "failed" \in ss THEN "failed"
                          ELSE st[m]
  BY DEF UnitResult
<1> HIDE DEF ss, m
<1>3. "waiting_user" \notin ss /\ st[m] \in Ended
  BY <1>1 DEF Ended, Ok
<1>4. CASE UnitResult(u, st) = st[m]
  BY <1>1, <1>3, <1>4 DEF Ended, Ok
<1>5. CASE UnitResult(u, st) # st[m]
  <2>1. UnitResult(u, st) \in {"completed", "blocked", "failed"}
    BY <1>2, <1>3, <1>5
  <2>2. UnitResult(u, st) \in {"blocked", "failed"} => UnitResult(u, st) \in ss
    BY <1>2, <1>3, <1>5
  <2> QED BY <1>1, <2>1, <2>2
<1> QED BY <1>4, <1>5

\* A failed step whose unit may fail leaves a unit that would be left again.
LEMMA FailedUnitEnds ==
  ASSUME plan \in Plans, NEW st, NEW s \in Steps, st[s] = "failed", NEW u, u = plan.unit[s],
         ~Stops(u, "failed", st)
  PROVE  /\ \A t \in Steps : plan.unit[t] = u => st[t] \in Ended
         /\ ~Stops(u, UnitResult(u, st), st)
<1>1. Statuses(UnitSteps(u), st) \subseteq {"completed", "failed", "skipped"}
  BY DEF Stops
<1>2. "failed" \in Statuses(UnitSteps(u), st)
  BY DEF Statuses, UnitSteps
<1>3. UnitResult(u, st) = "failed"
  BY <1>1, <1>2 DEF UnitResult, Ok
<1>4. \A t \in Steps : plan.unit[t] = u => st[t] \in Ended
  BY <1>1 DEF Statuses, UnitSteps, Ended, Ok
<1> QED BY <1>3, <1>4


\* When the step before the thread has come to an end, the thread may be behind
\* it, or start over, or leave the unit, or return; nothing is forgotten.
LEMMA SettledGoesOn ==
  ASSUME LoopInv, pc = "check", plan' = plan, NEW own, NEW r, Fits(own, r), Settled(own, r),
         pc' # "returned"
  PROVE  /\ pc' = "unit" /\ resume' # "acting" /\ resume' \in {"no", "acting", "looping"}
         /\ cur' \in Nat /\ at' \in Nat /\ round' = 0 /\ depth' = 0 /\ result' \in Results
         /\ PlaceOK' /\ BehindOK' /\ r # "waiting_user"
<1>0. /\ LoopTyped /\ PlaceOK /\ BehindOK /\ plan \in Plans
      /\ at \in Steps /\ cur = plan.unit[at] /\ InStep /\ cur \in Nat /\ at \in Nat
      /\ resume \in {"no", "acting", "looping"} /\ result \in Results
  BY DEF LoopInv, PlaceOK, InStep, LoopTyped
<1>1. Settles(status', own) /\ own \notin Active
  BY DEF Settled, Fits, Active
<1>2. \A t \in Steps : t < at => status'[t] = status[t]
  <2>1. own = "completed" => Satisfied(at)
    BY <1>0 DEF LoopInv, SatisfiedOK
  <2> QED BY <1>1, <2>1, SettledStatus
<1>3. Steps' = Steps /\ LastUnit' = LastUnit /\ \A u, s : Behind(u, s)' <=> BehindIn(status', u, s)
  BY Fixed
<1>4. cur \in 1..LastUnit /\ \A t \in Steps : plan.unit[t] < cur => t < at
  BY <1>0, PlanShape, UnitsBefore
<1>5. ASSUME resume # "acting" PROVE BehindIn(status, cur, at)
  BY <1>0, <1>5 DEF BehindOK, Reached, Behind
<1>6. CASE EnterLoop("looping", replan') /\ r # "waiting_user"
  <2>1. /\ pc' = "unit" /\ cur' = 1 /\ at' = 1 /\ round' = 0 /\ depth' = 0
        /\ resume' = "looping" /\ result' = "none" /\ r # "waiting_user"
    BY <1>6 DEF EnterLoop
  <2>2. PlaceOK'
    <3>1. InUnit' /\ cur' \in 1..LastUnit'
      BY <1>0, <1>3, <2>1, LoopStart DEF InUnit
    <3> QED BY <2>1, <3>1 DEF PlaceOK, InStep
  <2>3. BehindOK'
    <3>1. BehindIn(status', 1, 1)
      BY <1>0, LoopStart
    <3>2. Behind(cur, at)'
      BY <1>3, <2>1, <3>1
    <3> QED BY <2>1, <3>2 DEF BehindOK, InStep, Waiting
  <2> QED BY <2>1, <2>2, <2>3 DEF Results
<1>7. CASE /\ resume # "acting" /\ own \in Ended
           /\ Go("unit", cur, at + 1, replan')
  <2>1. /\ pc' = "unit" /\ cur' = cur /\ at' = at + 1 /\ round' = 0 /\ depth' = 0
        /\ resume' = resume /\ result' = result /\ r # "waiting_user"
    BY <1>7 DEF Go, Fits, Ended, Ok
  <2>2. PlaceOK'
    <3>1. (\E s \in Steps : plan.unit[s] = cur /\ at = s + 1)'
      BY <1>0, <1>3, <2>1
    <3> QED BY <1>3, <1>4, <1>7, <2>1, <3>1 DEF PlaceOK, InStep
  <2>3. BehindOK'
    <3>1. \A t \in Steps : t < at + 1 /\ ~(t < at) => status'[t] \in Ended
      <4>1. \A t \in Steps : t < at + 1 /\ ~(t < at) => t = at
        BY <1>0, PlanShape
      <4> QED BY <1>1, <1>7, <4>1 DEF Settles
    <3>2. BehindIn(status', cur, at + 1)
      BY <1>0, <1>2, <1>4, <1>5, <1>7, <3>1, BehindKept
    <3>3. Behind(cur, at)'
      BY <1>3, <2>1, <3>2
    <3> QED BY <2>1, <3>3 DEF BehindOK, InStep, Waiting
  <2> QED BY <1>0, <1>7, <2>1, <2>2, <2>3
<1>8. CASE /\ resume # "acting" /\ r = "failed" /\ ~Stops(cur, r, status') /\ cur < LastUnit
           /\ Go("unit", cur + 1, Min(UnitSteps(cur + 1)), replan')
  <2> DEFINE m == Min(UnitSteps(cur + 1))
  <2>1. /\ pc' = "unit" /\ cur' = cur + 1 /\ at' = m /\ round' = 0 /\ depth' = 0
        /\ resume' = resume /\ result' = result /\ r # "waiting_user"
    BY <1>8 DEF Go
  <2>2. cur + 1 \in 1..LastUnit /\ m \in Steps /\ plan.unit[m] = cur + 1
    BY <1>0, <1>4, <1>8, NextUnit
  <2>3. BehindIn(status', cur + 1, m)
    <3>1. status'[at] = "failed"
      BY <1>1, <1>8 DEF Settles, Fits
    <3>2. /\ \A t \in Steps : plan.unit[t] = cur => status'[t] \in Ended
          /\ ~Stops(cur, UnitResult(cur, status'), status')
      BY <1>0, <1>8, <3>1, FailedUnitEnds
    <3> QED BY <1>0, <1>2, <1>4, <1>5, <1>8, <3>2, BehindUnit
  <2> HIDE DEF m
  <2>4. m \in Nat /\ cur + 1 \in Nat
    BY <1>0, <2>2, PlanShape
  <2>5. PlaceOK'
    <3>1. InUnit' /\ cur' \in 1..LastUnit'
      BY <1>3, <2>1, <2>2 DEF InUnit
    <3> QED BY <1>8, <2>1, <3>1 DEF PlaceOK, InStep
  <2>6. BehindOK'
    <3>1. Behind(cur, at)'
      BY <1>3, <2>1, <2>3
    <3> QED BY <2>1, <3>1 DEF BehindOK, InStep, Waiting
  <2> QED BY <1>0, <1>8, <2>1, <2>4, <2>5, <2>6
<1>9. \A x, w : Return(x, w) => pc' = "returned"
  BY DEF Return
<1> QED BY <1>6, <1>7, <1>8, <1>9 DEF Settled

\* When the judgement ends the execution, the result fits, and a waiting one
\* waits for an answer about the step that was judged.
LEMMA SettledReturns ==
  ASSUME LoopInv, pc = "check", plan' = plan, NEW own, NEW r, Fits(own, r), Settled(own, r),
         pc' = "returned"
  PROVE  /\ ResultFits /\ result' \in Results /\ (result' = "waiting_user" => own = "waiting_user")
         /\ resume' = "no" /\ cur' = 0 /\ at' = 0 /\ round' = 0 /\ depth' = 0
<1>0. /\ LoopTyped /\ PlaceOK /\ BehindOK /\ plan \in Plans
      /\ at \in Steps /\ cur = plan.unit[at] /\ InStep /\ cur \in Nat /\ at \in Nat
  BY DEF LoopInv, PlaceOK, InStep, LoopTyped
<1>1. Settles(status', own) /\ own \notin Active /\ status'[at] = own
  BY DEF Settled, Settles, Fits, Active
<1>2. /\ \A t \in Steps : t < at => status'[t] = status[t]
      /\ \A s \in Steps : status'[s] \in Active => AskedAhead(s) /\ plan.onFailure[s] = "continue"
  <2>1. own = "completed" => Satisfied(at)
    BY <1>0 DEF LoopInv, SatisfiedOK
  <2> QED BY <1>1, <2>1, SettledStatus
<1>3. ASSUME NEW x, NEW w, Return(x, w)
      PROVE  /\ resume' = "no" /\ cur' = 0 /\ at' = 0 /\ round' = 0 /\ depth' = 0
             /\ result' \in {x, "request_replan"}
  BY <1>3 DEF Return
<1>4. ASSUME r = "completed" => obs.type = "finish", NEW w \in BOOLEAN, Return(r, w)
      PROVE  ResultFits /\ result' \in Results /\ (result' = "waiting_user" => own = "waiting_user")
  <2>1. ResultFits
    BY <1>0, <1>1, <1>2, <1>4, ReturnFits DEF Fits
  <2>2. result' \in {r, "request_replan"}
    BY <1>3, <1>4
  <2> QED BY <2>1, <2>2 DEF Fits, Results, Ended, Ok
<1>5. ASSUME resume # "acting", r = "failed", ~Stops(cur, r, status'), ~(cur < LastUnit),
             NEW w \in BOOLEAN, Return(Aggregate(status', w, r), w)
      PROVE  ResultFits /\ result' \in Results /\ result' # "waiting_user"
  <2>1. status'[at] = "failed"
    BY <1>1, <1>5 DEF Fits
  <2>2. \A t \in Steps : plan.unit[t] = cur => status'[t] \in Ended
    BY <1>0, <1>5, <2>1, FailedUnitEnds
  <2>3. ASSUME NEW t \in Steps PROVE status'[t] \in Ended
    <3>1. plan.unit[t] \in 1..LastUnit /\ LastUnit \in Nat /\ plan.unit[t] \in Nat
      BY <1>0, PlanShape
    <3>2. plan.unit[t] = cur \/ plan.unit[t] < cur
      BY <1>0, <1>5, <3>1
    <3>3. ASSUME plan.unit[t] < cur PROVE status'[t] \in Ended
      <4>1. t < at
        BY <1>0, <3>3, UnitsBefore
      <4>2. status[t] \in Ended
        BY <1>0, <1>5, <4>1 DEF BehindOK, Reached, Behind, BehindIn
      <4> QED BY <1>2, <4>1, <4>2
    <3> QED BY <2>2, <3>2, <3>3
  <2> QED BY <1>0, <1>5, <2>1, <2>3, AggregateFits
<1>6. /\ EnterLoop("looping", replan') => pc' = "unit"
      /\ \A u, s : Go("unit", u, s, replan') => pc' = "unit"
  BY DEF EnterLoop, Go
<1> QED BY <1>3, <1>4, <1>5, <1>6 DEF Settled


\* A judgement that settles a step keeps the invariant.
LEMMA SettledKeeps ==
  ASSUME LoopInv, pc = "check", plan' = plan, NEW own, NEW r, Fits(own, r), Settled(own, r),
         UNCHANGED <<memory, turn, pending>>, obs' = NoObs,
         own = "waiting_user" => obs.class = "ask_user" /\ turn < MaxExecutionTurns,
         obs.class = "ask_user" => own = "waiting_user" \/ turn >= MaxExecutionTurns
  PROVE  LoopInv'
<1>0. /\ LoopTyped /\ PlaceOK /\ BehindOK /\ SatisfiedOK /\ PendingOK /\ ObsOK /\ plan \in Plans
      /\ at \in Steps /\ cur = plan.unit[at] /\ InStep /\ turn \in Nat /\ MaxExecutionTurns \in Nat
  BY LimitsAssumption DEF LoopInv, PlaceOK, InStep, LoopTyped
<1>1. /\ Settles(status', own) /\ own \notin Active /\ status'[at] = own
      /\ status' \in [Steps -> StepStatus] /\ replan' \in BOOLEAN
  BY DEF Settled, Settles, Fits, Active
<1>2. /\ \A t \in Steps : t < at => status'[t] = status[t]
      /\ \A t \in Steps : status[t] \in Ended => status'[t] = status[t]
      /\ \A s \in Steps : status'[s] \in Active => AskedAhead(s) /\ plan.onFailure[s] = "continue"
      /\ DependenciesFirst'
  <2>1. own = "completed" => Satisfied(at)
    BY <1>0 DEF SatisfiedOK
  <2> QED BY <1>1, <2>1, SettledStatus
<1>3. pc' \in {"unit", "returned"}
  BY SettledGoesOn
<1>4. /\ cur' \in Nat /\ at' \in Nat /\ round' \in Nat /\ depth' \in Nat
      /\ resume' \in {"no", "acting", "looping"} /\ result' \in Results
      /\ pc' = "returned" => (result' = "waiting_user" => own = "waiting_user")
      /\ pc' = "unit" => r # "waiting_user"
  BY <1>3, SettledGoesOn, SettledReturns
<1>5. /\ Steps' = Steps /\ \A s : AskedAhead(s)' <=> AskedAhead(s)
      /\ \A s : Reached(s)' <=> BehindIn(status', plan.unit[s], s)
  BY Fixed
<1>6. LoopTyped'
  <2>1. /\ attempts' \in [Steps -> Nat] /\ latest' \in [Steps -> {"none", "ok", "failed"}]
        /\ failedCall' \in [Steps -> FailedCalls] /\ turn' \in Nat /\ seen' \in Nat
        /\ pending' \in {NoPending} \cup
             [kind : {"action", "plan", "plan safety"}, step : Steps, call : CallNames \cup {"ask_user"}]
        /\ plan' \in Plans
    BY <1>0 DEF LoopTyped, memory
  <2>2. obs' \in Observations
    BY DEF NoObs, Seen, Observations, Types, CallNames, Classes
  <2>3. pc' \in {"start", "unit", "ask", "check", "retry", "fallback", "returned"}
    BY <1>3
  <2> QED BY <1>1, <1>4, <1>5, <2>1, <2>2, <2>3 DEF LoopTyped
<1>7. StartOK' /\ DepthOK'
  BY <1>3 DEF StartOK, DepthOK
<1>8. PlaceOK'
  <2>1. pc' = "returned" => PlaceOK'
    BY DEF PlaceOK, InStep
  <2> QED BY <1>3, <2>1, SettledGoesOn
<1>9. own = "waiting_user" =>
        /\ pending = NoPending \/ pending.step = at
        /\ pending = NoPending => /\ failedCall[at].class = "ask_user"
                                  /\ failedCall[at].call \in {"asked tool", "command"}
  <2> SUFFICES ASSUME own = "waiting_user"
               PROVE  /\ pending = NoPending \/ pending.step = at
                      /\ pending = NoPending => /\ failedCall[at].class = "ask_user"
                                                /\ failedCall[at].call \in {"asked tool", "command"}
    OBVIOUS
  <2>1. obs.class = "ask_user" /\ turn < MaxExecutionTurns /\ ~(turn >= MaxExecutionTurns)
    BY <1>0
  <2>2. pending = NoPending \/ pending.step = at
    BY <1>0, <2>1 DEF PendingOK
  <2>3. ASSUME pending = NoPending
        PROVE  failedCall[at].class = "ask_user" /\ failedCall[at].call \in {"asked tool", "command"}
    <3>1. obs.type = "call"
      BY <1>0, <2>1, <2>3 DEF ObsOK
    <3>2. /\ failedCall[at].call = obs.call /\ failedCall[at].class = "ask_user"
          /\ obs.call \in {"asked tool", "command"}
      BY <1>0, <2>1, <2>3, <3>1 DEF ObsOK
    <3> QED BY <3>2
  <2> QED BY <2>2, <2>3
<1>10. BehindOK'
  <2>1. CASE pc' = "unit"
    BY <2>1, SettledGoesOn
  <2>2. CASE pc' = "returned"
    <3>1. ASSUME Waiting', pending'.kind = "action"
          PROVE  (AskedAhead(pending.step) \/ Reached(pending.step))'
      <4>1. own = "waiting_user" /\ pending' # NoPending /\ pending' = pending
        BY <1>4, <2>2, <3>1 DEF Waiting
      <4>2. pending.step = at /\ pending'.step = at
        BY <1>9, <4>1
      <4>3. CASE AskedAhead(at)
        BY <1>5, <4>2, <4>3
      <4>4. CASE Reached(at)
        <5>1. plan.unit[at] \in Nat /\ \A t \in Steps : plan.unit[t] < plan.unit[at] => t < at
          BY <1>0, PlanShape, StepsBefore
        <5>2. \A t \in Steps : t < at /\ ~(t < at) => status'[t] \in Ended
          OBVIOUS
        <5>3. BehindIn(status', plan.unit[at], at)
          BY <1>0, <1>2, <4>4, <5>1, <5>2, BehindKept DEF Reached, Behind
        <5>4. \A s : s = at => Reached(s)'
          BY <1>5, <5>3
        <5> QED BY <4>2, <5>4
      <4> QED BY <1>0, <4>3, <4>4 DEF BehindOK
    <3> QED BY <2>2, <3>1 DEF BehindOK, InStep
  <2> QED BY <1>3, <2>1, <2>2
<1>11. ActiveOK'
  BY <1>2, <1>5 DEF ActiveOK
<1>12. SatisfiedOK'
  <2>1. \A t \in Steps : status[t] \in Ok => status'[t] \in Ok
    BY <1>2 DEF Ended
  <2>2. \A t \in Steps : Satisfied(t) => Satisfied(t)'
    BY <1>0, <2>1, SatisfiedKept
  <2>3. ASSUME pending.kind = "action" PROVE Satisfied(pending.step)'
    <3>1. PICK t \in Steps : t = pending.step /\ Satisfied(t)
      BY <1>0, <2>3, PendingData DEF SatisfiedOK
    <3>2. Satisfied(t)' /\ t = pending'.step
      BY <2>2, <3>1
    <3> QED BY <3>2
  <2>4. ASSUME pending.kind = "plan safety" PROVE AskedAhead(pending.step)'
    <3>1. PICK t \in Steps : t = pending.step /\ AskedAhead(t)
      BY <1>0, <2>4, PendingData DEF SatisfiedOK
    <3>2. AskedAhead(t)' /\ t = pending'.step
      BY <1>5, <3>1
    <3> QED BY <3>2
  <2> QED BY <1>3, <2>3, <2>4 DEF SatisfiedOK, InStep
<1>13. PendingOK'
  <2>1. ASSUME pc' = "unit" PROVE pending = NoPending \/ turn >= MaxExecutionTurns
    <3>1. own # "waiting_user"
      BY <1>4, <2>1 DEF Fits
    <3> QED BY <1>0, <3>1 DEF PendingOK
  <2> QED BY <1>0, <1>3, <2>1 DEF PendingOK
<1>14. ObsOK'
  BY <1>3 DEF ObsOK, NoObs, Seen
<1>15. WaitingIsAnswerable'
  <2> SUFFICES ASSUME pc' = "returned", result' = "waiting_user"
               PROVE  IF pending # NoPending THEN status'[pending.step] = "waiting_user"
                      ELSE \E s \in Steps : /\ status'[s] = "waiting_user" /\ failedCall[s].class = "ask_user"
                                            /\ failedCall[s].call \in {"asked tool", "command"}
    BY <1>5 DEF WaitingIsAnswerable, memory
  <2>1. own = "waiting_user"
    BY <1>4
  <2> QED BY <1>0, <1>1, <1>9, <2>1
<1> QED BY <1>2, <1>6, <1>7, <1>8, <1>10, <1>11, <1>12, <1>13, <1>14, <1>15 DEF LoopInv


\* The verdicts of the rule checker on what may be judged.
LEMMA Verdicts ==
  ASSUME LoopTyped, NEW s \in Steps, NEW class \in Classes \ {"none", "conflict"}, NEW count \in Nat
  PROVE  LET v == Verdict(s, class, count) IN
         /\ v \in {"continue", "completed", "skipped", "ask_user", "request_replan", "retry",
                   "fallback", "blocked", "failed"} \cup ({"cancelled"} \cap {class})
         /\ v = "ask_user" => class = "ask_user" /\ count < MaxExecutionTurns
         /\ class = "ask_user" => v = "ask_user" \/ (v = "failed" /\ count >= MaxExecutionTurns)
         /\ v \in {"retry", "fallback"} => attempts[s] < MaxStepTurns
         /\ v = "continue" => plan.onFailure[s] = "continue"
<1> DEFINE a == AfterFailure(s, class)
           v == Verdict(s, class, count)
<1>1. /\ a \in {"request_replan", "failed", "continue", "retry", "fallback"}
      /\ a = "continue" => plan.onFailure[s] = "continue"
  BY DEF AfterFailure
<1>2. /\ MaxExecutionTurns \in Nat /\ MaxStepTurns \in Nat /\ attempts[s] \in Nat
  BY StepData, LimitsAssumption
<1>3. v = IF count >= MaxExecutionTurns /\ class \notin Ok THEN "failed"
          ELSE IF class \notin Undecided THEN class
          ELSE IF attempts[s] >= MaxStepTurns THEN "failed"
          ELSE a
  BY DEF Verdict
<1> HIDE DEF a, v
<1>4. /\ class \in Undecided \cup {"completed", "skipped", "failed", "blocked", "cancelled", "ask_user", "request_replan"}
      /\ Undecided \cap {"completed", "skipped", "failed", "blocked", "cancelled", "ask_user", "request_replan"} = {}
      /\ "ask_user" \notin Ok
  BY DEF Classes, Undecided, Ok
<1>5. /\ count >= MaxExecutionTurns \/ count < MaxExecutionTurns
      /\ attempts[s] >= MaxStepTurns \/ attempts[s] < MaxStepTurns
  BY <1>2
<1>6. /\ v \in {"continue", "completed", "skipped", "ask_user", "request_replan", "retry",
                "fallback", "blocked", "failed"} \cup ({"cancelled"} \cap {class})
      /\ v = "ask_user" => class = "ask_user" /\ count < MaxExecutionTurns
      /\ class = "ask_user" => v = "ask_user" \/ (v = "failed" /\ count >= MaxExecutionTurns)
      /\ v \in {"retry", "fallback"} => attempts[s] < MaxStepTurns
      /\ v = "continue" => plan.onFailure[s] = "continue"
  <2>1. CASE count >= MaxExecutionTurns /\ class \notin Ok
    BY <1>3, <2>1
  <2>2. CASE ~(count >= MaxExecutionTurns /\ class \notin Ok) /\ class \notin Undecided
    <3>1. v = class
      BY <1>3, <2>2
    <3> QED BY <1>4, <1>5, <2>2, <3>1
  <2>3. CASE ~(count >= MaxExecutionTurns /\ class \notin Ok) /\ class \in Undecided
    <3>1. v \in {"failed", a} /\ (attempts[s] >= MaxStepTurns => v = "failed")
      BY <1>3, <2>3
    <3> QED BY <1>1, <1>4, <1>5, <2>3, <3>1
  <2> QED BY <2>1, <2>2, <2>3
<1> QED BY <1>6 DEF v

\* A step that ends with one status and all others as they were.
LEMMA EndStepSettles ==
  ASSUME LoopTyped, at \in Steps, replan \in BOOLEAN, NEW own \in StepStatus, NEW r, Fits(own, r),
         r # "cancelled", EndStep(own, r)
  PROVE  Settled(own, r)
<1> DEFINE st == [status EXCEPT ![at] = own]
           w == replan \/ r = "request_replan"
<1>1. st \in [Steps -> StepStatus] /\ st[at] = own /\ \A t \in Steps : t # at => st[t] = status[t]
  BY DEF LoopTyped
<1>2. Settles(st, own)
  <2> HIDE DEF st
  <2> QED BY <1>1 DEF Settles
<1>3. StepDone(r, FALSE, st, w) /\ w \in BOOLEAN /\ (r = "request_replan" => w)
  BY DEF EndStep
<1> HIDE DEF st, w
<1> QED BY <1>2, <1>3, StepDoneSettles

\* An action that ends the execution ends its step and leaves out the later ones.
LEMMA EndExecutionSettles ==
  ASSUME LoopTyped, at \in Steps, replan \in BOOLEAN, obs.type \in Terminal, EndExecution
  PROVE  \E own \in {"completed", "failed", "blocked", "cancelled"} : \E r :
           Fits(own, r) /\ Settled(own, r)
<1> DEFINE own == CASE obs.type = "finish" -> "completed"
                    [] obs.type \in {"fail", "request_replan"} -> "failed"
                    [] obs.type = "blocked" -> "blocked"
                    [] obs.type = "cancel" -> "cancelled"
           r == IF obs.type = "request_replan" THEN "request_replan" ELSE own
           st == [t \in Steps |-> IF t = at THEN own
                                  ELSE IF t > at /\ status[t] \in {"pending", "running"} THEN "skipped"
                                  ELSE status[t]]
           w == replan \/ r = "request_replan"
<1>1. StepDone(r, TRUE, st, w)
  BY DEF EndExecution
<1>2. /\ own \in {"completed", "failed", "blocked", "cancelled"} /\ Fits(own, r)
      /\ r = "completed" => obs.type = "finish"
  BY DEF Terminal, Fits
<1>3. w \in BOOLEAN /\ (r = "request_replan" => w)
  OBVIOUS
<1>4. Settles(st, own)
  <2>1. own \in StepStatus /\ "skipped" \in StepStatus
    BY <1>2 DEF StepStatus, Ended, Ok
  <2> HIDE DEF own
  <2>2. status \in [Steps -> StepStatus]
    BY DEF LoopTyped
  <2>3. st \in [Steps -> StepStatus] /\ st[at] = own
    BY <2>1, <2>2
  <2>4. ASSUME NEW t \in Steps, t # at
        PROVE  st[t] = status[t] \/ (t > at /\ status[t] \in Open /\ st[t] \in {"blocked", "skipped"})
    BY <2>4 DEF Open
  <2> HIDE DEF st
  <2> QED BY <2>3, <2>4 DEF Settles
<1> HIDE DEF own, r, st, w
<1>5. Settled(own, r)
  BY <1>1, <1>2, <1>3, <1>4, StepDoneSettles
<1> QED BY <1>2, <1>5


\* A confirmation stays pending while nothing but the place of the thread changes.
LEMMA SatisfiedSame ==
  ASSUME LoopInv, UNCHANGED <<plan, status, pending>>, pc' # "check",
         InStep' => Satisfied(at)'
  PROVE  SatisfiedOK' /\ DependenciesFirst'
<1>0. LoopTyped /\ SatisfiedOK /\ DependenciesFirst /\ plan \in Plans
  BY DEF LoopInv, LoopTyped
<1>1. Steps' = Steps /\ \A s : AskedAhead(s)' <=> AskedAhead(s)
  BY Fixed
<1>2. \A t \in Steps : Satisfied(t) => Satisfied(t)'
  BY <1>0, SatisfiedKept
<1>3. ASSUME pending.kind = "action" PROVE Satisfied(pending.step)'
  <2>1. PICK t \in Steps : t = pending.step /\ Satisfied(t)
    BY <1>0, <1>3, PendingData DEF SatisfiedOK
  <2>2. Satisfied(t)' /\ t = pending'.step
    BY <1>2, <2>1
  <2> QED BY <2>2
<1>4. ASSUME pending.kind = "plan safety" PROVE AskedAhead(pending.step)'
  <2>1. PICK t \in Steps : t = pending.step /\ AskedAhead(t)
    BY <1>0, <1>4, PendingData DEF SatisfiedOK
  <2>2. AskedAhead(t)' /\ t = pending'.step
    BY <1>1, <2>1
  <2> QED BY <2>2
<1>5. DependenciesFirst'
  BY <1>0, DependenciesKept
<1> QED BY <1>3, <1>4, <1>5 DEF SatisfiedOK

\* Another round or another try of the step.
LEMMA StaysKeeps ==
  ASSUME LoopInv, pc = "check", pc' \in {"ask", "retry", "fallback"},
         UNCHANGED <<plan, status, memory, turn, pending, replan, cur, at, resume, result>>,
         obs' = NoObs, pending = NoPending \/ turn >= MaxExecutionTurns,
         pc' = "ask" => resume # "acting",
         pc' # "ask" => depth' <= attempts[at] /\ attempts[at] < MaxStepTurns,
         round' \in Nat, depth' \in Nat
  PROVE  LoopInv'
<1>0. /\ LoopTyped /\ PlaceOK /\ BehindOK /\ ActiveOK /\ SatisfiedOK /\ PendingOK /\ plan \in Plans
      /\ at \in Steps /\ cur = plan.unit[at] /\ InStep /\ InStep' /\ status[at] \notin Ended
  BY DEF LoopInv, PlaceOK, InStep, LoopTyped
<1>1. /\ Steps' = Steps /\ \A s : AskedAhead(s)' <=> AskedAhead(s)
      /\ \A s : Reached(s)' <=> BehindIn(status', plan.unit[s], s)
  BY Fixed
<1>2. \A s : Reached(s)' <=> Reached(s)
  BY <1>1 DEF Reached, Behind
<1>3. LoopTyped'
  <2>1. obs' \in Observations
    BY DEF NoObs, Seen, Observations, Types, CallNames, Classes
  <2>2. /\ plan' \in Plans /\ status' \in [Steps -> StepStatus]
        /\ attempts' \in [Steps -> Nat] /\ latest' \in [Steps -> {"none", "ok", "failed"}]
        /\ failedCall' \in [Steps -> FailedCalls] /\ turn' \in Nat /\ seen' \in Nat
        /\ pending' \in {NoPending} \cup
             [kind : {"action", "plan", "plan safety"}, step : Steps, call : CallNames \cup {"ask_user"}]
        /\ replan' \in BOOLEAN /\ cur' \in Nat /\ at' \in Nat
        /\ resume' \in {"no", "acting", "looping"} /\ result' \in Results
    BY <1>0 DEF LoopTyped, memory
  <2> QED BY <1>1, <2>1, <2>2 DEF LoopTyped
<1>4. StartOK' /\ WaitingIsAnswerable'
  BY DEF StartOK, WaitingIsAnswerable
<1>5. PlaceOK'
  BY <1>0, <1>1 DEF PlaceOK
<1>6. BehindOK'
  <2>1. Reached(at) \/ (AskedAhead(at) /\ resume = "acting")
    BY <1>0 DEF BehindOK
  <2>2. \A s : s = at => (Reached(s)' <=> Reached(s)) /\ (AskedAhead(s)' <=> AskedAhead(s))
    BY <1>1, <1>2
  <2>3. (Reached(at) \/ (AskedAhead(at) /\ resume = "acting"))'
    BY <2>1, <2>2
  <2> QED BY <2>3 DEF BehindOK, Waiting
<1>7. ActiveOK'
  BY <1>0, <1>1 DEF ActiveOK
<1>8. SatisfiedOK' /\ DependenciesFirst'
  <2>1. \A s \in Steps : s = at => Satisfied(s)'
    BY <1>0, SatisfiedKept DEF SatisfiedOK
  <2>2. Satisfied(at)'
    BY <1>0, <2>1
  <2> QED BY <2>2, SatisfiedSame
<1>9. PendingOK'
  BY <1>0 DEF PendingOK
<1>10. ObsOK'
  BY DEF ObsOK, NoObs, Seen
<1>11. DepthOK'
  BY DEF DepthOK, memory
<1> QED BY <1>3, <1>4, <1>5, <1>6, <1>7, <1>8, <1>9, <1>10, <1>11 DEF LoopInv

\* The loop is entered with the statuses as they are; a step left running is
\* one that was approved ahead, or one the loop will come to again.
LEMMA EnteredKeeps ==
  ASSUME LoopInv, NEW how \in {"no", "looping"}, NEW w \in BOOLEAN, EnterLoop(how, w),
         UNCHANGED <<plan, failedCall, turn>>, seen' \in Nat, attempts' \in [Steps -> Nat],
         latest' \in [Steps -> {"none", "ok", "failed"}],
         obs' \in Observations, obs'.class # "completed",
         status' \in [Steps -> StepStatus], pending' = NoPending \/ (pending' = pending /\ turn >= MaxExecutionTurns),
         \A s \in Steps : status'[s] \in Active =>
           \/ AskedAhead(s) /\ plan.onFailure[s] = "continue"
           \/ BehindIn(status', plan.unit[s], s),
         SatisfiedOK', DependenciesFirst'
  PROVE  LoopInv'
<1>0. LoopTyped /\ PendingOK /\ plan \in Plans
  BY DEF LoopInv, LoopTyped
<1>1. /\ Steps' = Steps /\ LastUnit' = LastUnit
      /\ \A s : AskedAhead(s)' <=> AskedAhead(s)
      /\ \A s : Reached(s)' <=> BehindIn(status', plan.unit[s], s)
      /\ \A u, s : Behind(u, s)' <=> BehindIn(status', u, s)
  BY Fixed
<1>2. /\ pc' = "unit" /\ cur' = 1 /\ at' = 1 /\ round' = 0 /\ depth' = 0
      /\ replan' = w /\ resume' = how /\ result' = "none"
  BY DEF EnterLoop
<1>3. 1 \in Steps /\ plan.unit[1] = 1 /\ 1 \in 1..LastUnit /\ BehindIn(status', 1, 1)
  BY <1>0, LoopStart
<1>4. LoopTyped'
  <2>1. /\ plan' \in Plans /\ failedCall' \in [Steps -> FailedCalls] /\ turn' \in Nat
    BY <1>0 DEF LoopTyped
  <2>2. pending' \in {NoPending} \cup
             [kind : {"action", "plan", "plan safety"}, step : Steps, call : CallNames \cup {"ask_user"}]
    BY <1>0 DEF LoopTyped
  <2> QED BY <1>1, <1>2, <2>1, <2>2 DEF LoopTyped, Results
<1>5. StartOK' /\ WaitingIsAnswerable' /\ DepthOK'
  BY <1>2 DEF StartOK, WaitingIsAnswerable, DepthOK
<1>6. PlaceOK'
  <2>1. InUnit' /\ cur' \in 1..LastUnit'
    BY <1>1, <1>2, <1>3 DEF InUnit
  <2> QED BY <1>2, <2>1 DEF PlaceOK, InStep
<1>7. BehindOK'
  <2>1. \A u, s : u = cur' /\ s = at' => Behind(u, s)'
    BY <1>1, <1>2, <1>3
  <2>2. Behind(cur, at)'
    BY <2>1
  <2> QED BY <1>2, <2>2 DEF BehindOK, InStep, Waiting
<1>8. ActiveOK'
  <2> SUFFICES ASSUME NEW s \in Steps, status'[s] \in Active,
                      ~(AskedAhead(s) /\ plan.onFailure[s] = "continue")
               PROVE  at' <= s /\ cur' <= plan.unit[s] /\ Reached(s)'
    BY <1>1, <1>2 DEF ActiveOK
  <2>1. 1 <= s /\ 1 <= plan.unit[s]
    BY <1>0, PlanShape
  <2> QED BY <1>1, <1>2, <2>1
<1>9. PendingOK'
  BY <1>0, <1>2 DEF PendingOK, NoPending
<1>10. ObsOK'
  BY <1>2 DEF ObsOK
<1> QED BY <1>4, <1>5, <1>6, <1>7, <1>8, <1>9, <1>10 DEF LoopInv


\* What the judgement of an observation owes: no step that has ended is run
\* again, and what comes back agrees with the steps.
Owed ==
  /\ LoopInv' /\ plan' = plan
  /\ \A t \in Steps : status[t] \in Ended => status'[t] = status[t]
  /\ pc # "returned" /\ pc' = "returned" => ResultFits

\* A judgement that settles the step gives what it owes.
LEMMA SettledOwes ==
  ASSUME LoopInv, pc = "check", plan' = plan, NEW own, NEW r, Fits(own, r), Settled(own, r),
         UNCHANGED <<memory, turn, pending>>, obs' = NoObs,
         own = "waiting_user" => obs.class = "ask_user" /\ turn < MaxExecutionTurns,
         obs.class = "ask_user" => own = "waiting_user" \/ turn >= MaxExecutionTurns
  PROVE  Owed
<1>1. own \notin Active /\ Settles(status', own)
  BY DEF Fits, Active, Settled
<1>2. own = "completed" => Satisfied(at)
  BY DEF LoopInv, SatisfiedOK, InStep
<1>3. \A t \in Steps : status[t] \in Ended => status'[t] = status[t]
  BY <1>1, <1>2, SettledStatus
<1>4. pc' = "returned" => ResultFits
  BY SettledReturns
<1>5. LoopInv'
  BY SettledKeeps
<1> QED BY <1>3, <1>4, <1>5 DEF Owed

\* A judgement that leaves the step open gives what it owes.
LEMMA AnotherRoundOwes ==
  ASSUME LoopInv, pc = "check", AnotherRound, plan.onFailure[at] = "continue",
         UNCHANGED <<plan, memory, turn, pending>>, obs' = NoObs,
         obs.class = "ask_user" => turn >= MaxExecutionTurns
  PROVE  Owed
<1>0. /\ LoopTyped /\ BehindOK /\ ActiveOK /\ PendingOK /\ SatisfiedOK /\ DependenciesFirst
      /\ at \in Steps /\ replan \in BOOLEAN /\ round \in Nat /\ MaxStepTurns \in Nat /\ InStep
      /\ plan \in Plans /\ resume \in {"no", "acting", "looping"}
  BY LimitsAssumption DEF LoopInv, LoopTyped, PlaceOK, InStep
<1>1. pending = NoPending \/ turn >= MaxExecutionTurns
  BY <1>0 DEF PendingOK
<1>2. CASE resume = "acting"
  <2>1. status' = status /\ EnterLoop("looping", replan)
    BY <1>2 DEF AnotherRound, StepDone
  <2>2. pc' = "unit"
    BY <2>1 DEF EnterLoop
  <2>3. ASSUME NEW s \in Steps, status'[s] \in Active
        PROVE  \/ AskedAhead(s) /\ plan.onFailure[s] = "continue"
               \/ BehindIn(status', plan.unit[s], s)
    <3>1. s = at \/ (AskedAhead(s) /\ plan.onFailure[s] = "continue")
      BY <1>0, <2>1, <2>3 DEF ActiveOK
    <3>2. Reached(at) \/ AskedAhead(at)
      BY <1>0 DEF BehindOK
    <3>3. Reached(at) => BehindIn(status', plan.unit[at], at)
      BY <2>1 DEF Reached, Behind
    <3> QED BY <3>1, <3>2, <3>3
  <2>4. SatisfiedOK' /\ DependenciesFirst'
    BY <2>1, <2>2, SatisfiedSame DEF InStep
  <2>5. /\ UNCHANGED <<plan, failedCall, turn>> /\ seen' \in Nat /\ attempts' \in [Steps -> Nat]
        /\ latest' \in [Steps -> {"none", "ok", "failed"}] /\ status' \in [Steps -> StepStatus]
    BY <1>0, <2>1 DEF memory, LoopTyped
  <2>6. obs' \in Observations /\ obs'.class # "completed"
    BY DEF NoObs, Seen, Observations, Types, CallNames, Classes
  <2>7. LoopInv'
    BY <1>0, <1>1, <2>1, <2>3, <2>4, <2>5, <2>6, EnteredKeeps
  <2> QED BY <2>1, <2>2, <2>7 DEF Owed
<1>3. CASE resume # "acting" /\ round < MaxStepTurns
  <2>1. /\ pc' = "ask" /\ round' = round + 1 /\ depth' = 0
        /\ UNCHANGED <<status, replan, cur, at, resume, result>>
    BY <1>3 DEF AnotherRound
  <2>2. round' \in Nat /\ depth' \in Nat
    BY <1>0, <2>1
  <2>3. LoopInv'
    BY <1>1, <1>3, <2>1, <2>2, StaysKeeps
  <2> QED BY <2>1, <2>3 DEF Owed
<1>4. CASE resume # "acting" /\ ~(round < MaxStepTurns)
  <2>1. EndStep("failed", "failed")
    BY <1>4 DEF AnotherRound
  <2>2. "failed" \in StepStatus /\ Fits("failed", "failed")
    BY DEF StepStatus, Ended, Fits
  <2>3. Settled("failed", "failed")
    BY <1>0, <2>1, <2>2, EndStepSettles
  <2> QED BY <2>2, <2>3, SettledOwes
<1> QED BY <1>2, <1>3, <1>4

\* The judgement gives what it owes.
LEMMA CheckOwes ==
  ASSUME LoopInv, Check
  PROVE  Owed /\ seen' = seen
<1> DEFINE v == Verdict(at, obs.class, turn)
<1>0. /\ LoopTyped /\ PendingOK /\ ObsOK /\ DepthOK /\ pc = "check" /\ InStep
      /\ at \in Steps /\ replan \in BOOLEAN /\ turn \in Nat /\ depth \in Nat /\ MaxStepTurns \in Nat
      /\ attempts[at] \in Nat
      /\ MaxExecutionTurns \in Nat
  BY LimitsAssumption, StepData DEF LoopInv, LoopTyped, PlaceOK, InStep, Check
<1>1. /\ UNCHANGED <<plan, memory, turn, pending>> /\ obs' = NoObs
  BY DEF Check
<1>2. /\ obs.class \in Classes \ {"none", "conflict"}
      /\ obs.class \in {"cancelled", "request_replan"} => obs.type \in Terminal
      /\ obs.class = "ask_user" => obs.type \in {"call", "ask_user"}
  BY <1>0 DEF ObsOK
<1>3. depth < MaxStepTurns /\ ~(depth >= MaxStepTurns) /\ depth < attempts[at]
  BY <1>0 DEF DepthOK
<1>4. /\ v \in {"continue", "completed", "skipped", "ask_user", "request_replan", "retry",
                   "fallback", "blocked", "failed"} \cup ({"cancelled"} \cap {obs.class})
      /\ v = "ask_user" => obs.class = "ask_user" /\ turn < MaxExecutionTurns
      /\ obs.class = "ask_user" => v = "ask_user" \/ (v = "failed" /\ turn >= MaxExecutionTurns)
      /\ v \in {"retry", "fallback"} => attempts[at] < MaxStepTurns
      /\ v = "continue" => plan.onFailure[at] = "continue"
  BY <1>0, <1>2, Verdicts
<1>5. ASSUME NEW own \in StepStatus, NEW r, Fits(own, r), r # "cancelled", EndStep(own, r),
             own = "waiting_user" <=> v = "ask_user"
      PROVE  Owed
  <2>1. Settled(own, r)
    BY <1>0, <1>5, EndStepSettles
  <2>2. /\ own = "waiting_user" => obs.class = "ask_user" /\ turn < MaxExecutionTurns
        /\ obs.class = "ask_user" => own = "waiting_user" \/ turn >= MaxExecutionTurns
    BY <1>4, <1>5
  <2> HIDE DEF v
  <2> QED BY <1>0, <1>1, <1>5, <2>1, <2>2, SettledOwes
<1>6. CASE obs.type \in Terminal
  <2>1. EndExecution
    BY <1>3, <1>6 DEF Check
  <2>2. PICK own \in {"completed", "failed", "blocked", "cancelled"} :
               \E r : Fits(own, r) /\ Settled(own, r)
    BY <1>0, <1>6, <2>1, EndExecutionSettles
  <2>3. PICK r : Fits(own, r) /\ Settled(own, r)
    BY <2>2
  <2>4. obs.class # "ask_user" /\ own # "waiting_user"
    BY <1>2, <1>6, <2>2 DEF Terminal
  <2>5. Owed
    BY <1>0, <1>1, <2>2, <2>3, <2>4, SettledOwes
  <2> QED BY <1>1, <2>5 DEF memory
<1>7. CASE obs.type \notin Terminal
  <2>1. (CASE v = "continue" -> AnotherRound
          [] v = "completed" -> EndStep("completed", "completed")
          [] v = "skipped" -> EndStep("skipped", "completed")
          [] v = "ask_user" -> EndStep("waiting_user", "waiting_user")
          [] v = "request_replan" -> EndStep("failed", "request_replan")
          [] v = "retry" -> IF obs.type = "call" /\ ~obs.used
                              THEN Redo("retry") ELSE EndStep("failed", "failed")
          [] v = "fallback" -> IF ~obs.used /\ obs.type # "fallback"
                                 THEN Redo("fallback") ELSE EndStep("failed", "failed")
          [] v = "blocked" -> EndStep("blocked", "blocked")
          [] v = "failed" -> EndStep("failed", "failed"))
    BY <1>3, <1>7 DEF Check
  <2> HIDE DEF v
  <2>2. v # "cancelled"
    BY <1>2, <1>4, <1>7
  <2>3. \/ v = "continue" /\ AnotherRound
        \/ v \in {"retry", "fallback"} /\ Redo(v)
        \/ \E own \in StepStatus : \E r :
             /\ Fits(own, r) /\ r # "cancelled" /\ EndStep(own, r)
             /\ own = "waiting_user" <=> v = "ask_user"
    <3>1. /\ {"completed", "skipped", "waiting_user", "failed", "blocked"} \subseteq StepStatus
          /\ Fits("completed", "completed") /\ Fits("skipped", "completed")
          /\ Fits("waiting_user", "waiting_user") /\ Fits("failed", "request_replan")
          /\ Fits("failed", "failed") /\ Fits("blocked", "blocked")
      BY DEF StepStatus, Ended, Ok, Fits
    <3>2. CASE v = "continue"
      BY <2>1, <3>2
    <3>3. CASE v \in {"retry", "fallback"}
      BY <2>1, <3>1, <3>3
    <3>4. CASE v \in {"completed", "skipped"}
      BY <2>1, <3>1, <3>4
    <3>5. CASE v \in {"ask_user", "request_replan"}
      BY <2>1, <3>1, <3>5
    <3>6. CASE v \in {"blocked", "failed"}
      BY <2>1, <3>1, <3>6
    <3> QED BY <1>4, <2>2, <3>2, <3>3, <3>4, <3>5, <3>6
  <2>4. CASE v = "continue" /\ AnotherRound
    <3>1. plan.onFailure[at] = "continue" /\ (obs.class = "ask_user" => turn >= MaxExecutionTurns)
      BY <1>4, <2>4
    <3>2. Owed
      BY <1>0, <1>1, <2>4, <3>1, AnotherRoundOwes
    <3> QED BY <1>1, <3>2 DEF memory
  <2>5. CASE v \in {"retry", "fallback"} /\ Redo(v)
    <3>1. /\ pc' = v /\ depth' = depth + 1
          /\ UNCHANGED <<status, replan, cur, at, round, resume, result>>
      BY <2>5 DEF Redo
    <3>2. pending = NoPending \/ turn >= MaxExecutionTurns
      BY <1>0, <1>4, <2>5 DEF PendingOK
    <3>3. depth' \in Nat /\ depth' <= attempts[at] /\ attempts[at] < MaxStepTurns
      BY <1>0, <1>3, <1>4, <2>5, <3>1
    <3>4. round' \in Nat
      BY <1>0, <3>1 DEF LoopTyped
    <3>5. LoopInv'
      BY <1>0, <1>1, <2>5, <3>1, <3>2, <3>3, <3>4, StaysKeeps
    <3>6. Owed
      BY <1>1, <2>5, <3>1, <3>5 DEF Owed
    <3> QED BY <1>1, <3>6 DEF memory
  <2>6. Owed
    BY <1>5, <2>3, <2>4, <2>5
  <2> QED BY <1>1, <2>6 DEF memory
<1> QED BY <1>6, <1>7


-----------------------------------------------------------------------------
(* The loop over units and steps *)

\* Going on to another place behind which all is over keeps the invariant.
LEMMA UnitGoesOn ==
  ASSUME LoopInv, pc = "unit", NEW u \in 1..LastUnit, NEW s \in Nat, Go("unit", u, s, replan),
         UNCHANGED <<plan, memory, turn, pending, obs>>,
         (s \in Steps /\ plan.unit[s] = u) \/ \E t \in Steps : plan.unit[t] = u /\ s = t + 1,
         status' \in [Steps -> StepStatus], BehindIn(status', u, s),
         \A t \in Steps : status'[t] = status[t] \/ (status[t] \notin Ended /\ status'[t] = "skipped"),
         \A t \in Steps : status'[t] \in Active =>
           \/ AskedAhead(t) /\ plan.onFailure[t] = "continue"
           \/ s <= t /\ u <= plan.unit[t] /\ BehindIn(status', plan.unit[t], t)
  PROVE  Owed /\ seen' = seen
<1>0. /\ LoopTyped /\ PlaceOK /\ SatisfiedOK /\ PendingOK /\ ObsOK /\ DependenciesFirst /\ plan \in Plans
      /\ LastUnit \in Nat
  BY PlanShape DEF LoopInv, LoopTyped
<1>1. /\ Steps' = Steps /\ LastUnit' = LastUnit
      /\ \A t : AskedAhead(t)' <=> AskedAhead(t)
      /\ \A t : Reached(t)' <=> BehindIn(status', plan.unit[t], t)
      /\ \A v, t : Behind(v, t)' <=> BehindIn(status', v, t)
  BY Fixed
<1>2. /\ pc' = "unit" /\ cur' = u /\ at' = s /\ round' = 0 /\ depth' = 0
      /\ replan' = replan /\ resume' = resume /\ result' = result
  BY DEF Go
<1>3. LoopTyped'
  <2>1. /\ attempts' \in [Steps -> Nat] /\ latest' \in [Steps -> {"none", "ok", "failed"}]
        /\ failedCall' \in [Steps -> FailedCalls] /\ turn' \in Nat /\ seen' \in Nat
        /\ pending' \in {NoPending} \cup
             [kind : {"action", "plan", "plan safety"}, step : Steps, call : CallNames \cup {"ask_user"}]
        /\ plan' \in Plans /\ replan' \in BOOLEAN /\ obs' \in Observations
        /\ resume' \in {"no", "acting", "looping"} /\ result' \in Results
    BY <1>0, <1>2 DEF LoopTyped, memory
  <2>2. cur' \in Nat
    BY <1>0, <1>2
  <2> QED BY <1>1, <1>2, <2>1, <2>2 DEF LoopTyped
<1>4. StartOK' /\ WaitingIsAnswerable' /\ DepthOK'
  BY <1>2 DEF StartOK, WaitingIsAnswerable, DepthOK
<1>5. PlaceOK'
  <2>1. cur' \in 1..LastUnit' /\ (InUnit' \/ (\E t \in Steps : plan.unit[t] = cur /\ at = t + 1)')
    BY <1>1, <1>2 DEF InUnit
  <2> QED BY <1>0, <1>2, <2>1 DEF PlaceOK, InStep
<1>6. BehindOK'
  <2>1. \A v, t : v = cur' /\ t = at' => Behind(v, t)'
    BY <1>1, <1>2
  <2>2. Behind(cur, at)'
    BY <2>1
  <2> QED BY <1>2, <2>2 DEF BehindOK, InStep, Waiting
<1>7. ActiveOK'
  <2> SUFFICES ASSUME NEW t \in Steps, status'[t] \in Active,
                      ~(AskedAhead(t) /\ plan.onFailure[t] = "continue")
               PROVE  at' <= t /\ cur' <= plan.unit[t] /\ Reached(t)'
    BY <1>1, <1>2 DEF ActiveOK
  <2> QED BY <1>1, <1>2
<1>8. \A t \in Steps : status[t] \in Ok => status'[t] \in Ok
  BY DEF Ended
<1>9. SatisfiedOK'
  <2>1. \A t \in Steps : Satisfied(t) => Satisfied(t)'
    BY <1>0, <1>8, SatisfiedKept
  <2>2. ASSUME pending.kind = "action" PROVE Satisfied(pending.step)'
    <3>1. PICK t \in Steps : t = pending.step /\ Satisfied(t)
      BY <1>0, <2>2, PendingData DEF SatisfiedOK
    <3>2. Satisfied(t)' /\ t = pending'.step
      BY <2>1, <3>1
    <3> QED BY <3>2
  <2>3. ASSUME pending.kind = "plan safety" PROVE AskedAhead(pending.step)'
    <3>1. PICK t \in Steps : t = pending.step /\ AskedAhead(t)
      BY <1>0, <2>3, PendingData DEF SatisfiedOK
    <3>2. AskedAhead(t)' /\ t = pending'.step
      BY <1>1, <3>1
    <3> QED BY <3>2
  <2> QED BY <1>2, <2>2, <2>3 DEF SatisfiedOK, InStep
<1>10. PendingOK' /\ ObsOK'
  BY <1>0, <1>2 DEF PendingOK, ObsOK
<1>11. DependenciesFirst'
  <2>1. \A t \in Steps : status'[t] \in {"running", "retrying", "completed"} => status'[t] = status[t]
    OBVIOUS
  <2> QED BY <1>0, <1>8, <2>1, DependenciesKept
<1>12. LoopInv'
  BY <1>3, <1>4, <1>5, <1>6, <1>7, <1>9, <1>10, <1>11 DEF LoopInv
<1>13. \A t \in Steps : status[t] \in Ended => status'[t] = status[t]
  OBVIOUS
<1> QED BY <1>2, <1>12, <1>13 DEF Owed, memory

\* Coming back out of the loop over units keeps the invariant.
LEMMA UnitReturns ==
  ASSUME LoopInv, pc \in {"start", "unit"}, NEW r, Return(r, replan), ResultFits, result' \in Results,
         UNCHANGED <<plan, memory, turn, obs>>,
         status' \in [Steps -> StepStatus],
         \A t \in Steps : \/ status'[t] = status[t]
                          \/ status[t] \notin Ended /\ status'[t] \in {"blocked", "waiting_user"},
         \/ pending' = pending /\ result' # "waiting_user"
         \/ /\ pending' \in [kind : {"plan", "plan safety"}, step : Steps, call : CallNames]
            /\ pending'.kind = "plan safety" => AskedAhead(pending'.step)
            /\ pending'.call = "none" <=> pending'.kind = "plan"
            /\ status'[pending'.step] = "waiting_user"
  PROVE  Owed /\ seen' = seen
<1>0. LoopTyped /\ SatisfiedOK /\ PendingOK /\ ObsOK /\ DependenciesFirst /\ plan \in Plans
  BY DEF LoopInv, LoopTyped
<1>1. /\ Steps' = Steps /\ \A t : AskedAhead(t)' <=> AskedAhead(t)
      /\ \A t : Reached(t)' <=> BehindIn(status', plan.unit[t], t)
  BY Fixed
<1>2. /\ pc' = "returned" /\ cur' = 0 /\ at' = 0 /\ round' = 0 /\ depth' = 0 /\ resume' = "no"
      /\ replan' \in BOOLEAN
  BY <1>0 DEF Return, LoopTyped
<1>3. LoopTyped'
  <2>1. /\ attempts' \in [Steps -> Nat] /\ latest' \in [Steps -> {"none", "ok", "failed"}]
        /\ failedCall' \in [Steps -> FailedCalls] /\ turn' \in Nat /\ seen' \in Nat
        /\ pending' \in {NoPending} \cup
             [kind : {"action", "plan", "plan safety"}, step : Steps, call : CallNames \cup {"ask_user"}]
        /\ plan' \in Plans /\ obs' \in Observations
    BY <1>0 DEF LoopTyped, memory
  <2> QED BY <1>1, <1>2, <2>1 DEF LoopTyped
<1>4. StartOK' /\ PlaceOK' /\ DepthOK'
  BY <1>2 DEF StartOK, PlaceOK, InStep, DepthOK
<1>5. BehindOK'
  <2>1. ASSUME Waiting' PROVE pending'.kind # "action"
    BY <2>1 DEF Waiting
  <2> QED BY <1>2, <2>1 DEF BehindOK, InStep
<1>6. ActiveOK'
  <2>1. \A t \in Steps : status'[t] \in Active => AskedAhead(t) /\ plan.onFailure[t] = "continue"
    BY DEF ResultFits, Active
  <2> QED BY <1>1, <2>1 DEF ActiveOK
<1>7. \A t \in Steps : status[t] \in Ok => status'[t] \in Ok
  BY DEF Ended
<1>8. SatisfiedOK'
  <2>1. CASE pending' = pending
    <3>1. \A t \in Steps : Satisfied(t) => Satisfied(t)'
      BY <1>0, <1>7, SatisfiedKept
    <3>2. ASSUME pending.kind = "action" PROVE Satisfied(pending.step)'
      <4>1. PICK t \in Steps : t = pending.step /\ Satisfied(t)
        BY <1>0, <3>2, PendingData DEF SatisfiedOK
      <4>2. Satisfied(t)' /\ t = pending'.step
        BY <2>1, <3>1, <4>1
      <4> QED BY <4>2
    <3>3. ASSUME pending.kind = "plan safety" PROVE AskedAhead(pending.step)'
      <4>1. PICK t \in Steps : t = pending.step /\ AskedAhead(t)
        BY <1>0, <3>3, PendingData DEF SatisfiedOK
      <4>2. AskedAhead(t)' /\ t = pending'.step
        BY <1>1, <2>1, <4>1
      <4> QED BY <4>2
    <3> QED BY <1>2, <2>1, <3>2, <3>3 DEF SatisfiedOK, InStep
  <2>2. CASE /\ pending' \in [kind : {"plan", "plan safety"}, step : Steps, call : CallNames]
             /\ pending'.kind = "plan safety" => AskedAhead(pending'.step)
    <3>1. pending'.kind # "action"
      BY <2>2
    <3>2. ASSUME pending'.kind = "plan safety" PROVE AskedAhead(pending.step)'
      <4>1. PICK t \in Steps : t = pending'.step
        BY <2>2
      <4>2. AskedAhead(t)'
        BY <1>1, <2>2, <3>2, <4>1
      <4> QED BY <4>1, <4>2
    <3> QED BY <1>2, <3>1, <3>2 DEF SatisfiedOK, InStep
  <2> QED BY <2>1, <2>2
<1>9. PendingOK' /\ ObsOK'
  <2>1. pending'.call = "none" <=> pending'.kind \in {"none", "plan"}
    BY <1>0 DEF PendingOK
  <2> QED BY <1>0, <1>2, <2>1 DEF PendingOK, ObsOK
<1>10. DependenciesFirst'
  <2>1. \A t \in Steps : status'[t] \in {"running", "retrying", "completed"} => status'[t] = status[t]
    OBVIOUS
  <2> QED BY <1>0, <1>7, <2>1, DependenciesKept
<1>11. WaitingIsAnswerable'
  <2> SUFFICES ASSUME result' = "waiting_user"
               PROVE  pending' # NoPending /\ status'[pending'.step] = "waiting_user"
    BY DEF WaitingIsAnswerable
  <2>1. pending'.kind # "none" /\ NoPending.kind = "none"
    BY DEF NoPending
  <2> QED BY <2>1
<1>12. LoopInv'
  BY <1>3, <1>4, <1>5, <1>6, <1>8, <1>9, <1>10, <1>11 DEF LoopInv
<1>13. \A t \in Steps : status[t] \in Ended => status'[t] = status[t]
  OBVIOUS
<1> QED BY <1>12, <1>13 DEF Owed, memory


\* The loop at the unit: what is known of the steps behind the thread.
LEMMA UnitPlace ==
  ASSUME LoopInv, pc = "unit"
  PROVE  /\ LoopTyped /\ plan \in Plans /\ cur \in 1..LastUnit /\ at \in Nat /\ cur \in Nat
         /\ BehindIn(status, cur, at) /\ \A t \in Steps : plan.unit[t] < cur => t < at
         /\ InUnit => at + 1 \in Nat /\ plan.unit[at] = cur /\ at \in Steps
         /\ replan \in BOOLEAN /\ status \in [Steps -> StepStatus]
         /\ \A t \in Steps : status[t] \in Active =>
              \/ AskedAhead(t) /\ plan.onFailure[t] = "continue"
              \/ at <= t /\ cur <= plan.unit[t] /\ BehindIn(status, plan.unit[t], t)
<1>0. LoopTyped /\ PlaceOK /\ BehindOK /\ ActiveOK /\ plan \in Plans /\ at \in Nat /\ cur \in Nat
  BY DEF LoopInv, LoopTyped
<1>1. cur \in 1..LastUnit /\ BehindIn(status, cur, at) /\ \A t \in Steps : plan.unit[t] < cur => t < at
  BY <1>0, UnitsBefore DEF PlaceOK, BehindOK, Behind
<1>2. \A t \in Steps : status[t] \in Active =>
              \/ AskedAhead(t) /\ plan.onFailure[t] = "continue"
              \/ at <= t /\ cur <= plan.unit[t] /\ BehindIn(status, plan.unit[t], t)
  BY <1>0 DEF ActiveOK, InStep, Reached, Behind
<1>3. replan \in BOOLEAN /\ status \in [Steps -> StepStatus]
  BY <1>0 DEF LoopTyped
<1>4. InUnit => at + 1 \in Nat /\ plan.unit[at] = cur /\ at \in Steps
  BY <1>0 DEF InUnit
<1> QED BY <1>0, <1>1, <1>2, <1>3, <1>4

\* A step that has ended is passed.
LEMMA SkipEndedStepOwes ==
  ASSUME LoopInv, SkipEndedStep
  PROVE  Owed /\ seen' = seen
<1>1. /\ pc = "unit" /\ InUnit /\ status[at] \in Ended /\ Go("unit", cur, at + 1, replan)
      /\ UNCHANGED <<plan, status, memory, turn, pending, obs>>
  BY DEF SkipEndedStep
<1>2. /\ plan \in Plans /\ cur \in 1..LastUnit /\ at \in Nat /\ cur \in Nat /\ BehindIn(status, cur, at)
      /\ \A t \in Steps : plan.unit[t] < cur => t < at
      /\ at + 1 \in Nat /\ plan.unit[at] = cur /\ at \in Steps /\ status \in [Steps -> StepStatus]
  BY <1>1, UnitPlace
<1>3. \A t \in Steps : t \in Nat
  BY <1>2, PlanShape
<1>4. BehindIn(status, cur, at + 1)
  <2>1. \A t \in Steps : t < at + 1 /\ ~(t < at) => status[t] \in Ended
    <3>1. \A t \in Steps : t < at + 1 /\ ~(t < at) => t = at
      BY <1>2, <1>3
    <3> QED BY <1>1, <3>1
  <2> QED BY <1>2, <2>1, BehindKept
<1>5. ASSUME NEW t \in Steps, status[t] \in Active, ~(AskedAhead(t) /\ plan.onFailure[t] = "continue")
      PROVE  at + 1 <= t /\ cur <= plan.unit[t] /\ BehindIn(status, plan.unit[t], t)
  <2>1. at <= t /\ cur <= plan.unit[t] /\ BehindIn(status, plan.unit[t], t)
    BY <1>1, <1>5, UnitPlace
  <2>2. t # at
    BY <1>1, <1>5 DEF Active, Ended, Ok
  <2>3. t \in Nat
    BY <1>3
  <2> QED BY <1>2, <2>1, <2>2, <2>3
<1>6. status' = status
  BY <1>1
<1> QED BY <1>1, <1>2, <1>4, <1>5, <1>6, UnitGoesOn

\* A step that is active at or after the one that has not ended is that one.
LEMMA OnlyTheNext ==
  ASSUME LoopInv, pc = "unit", InUnit, status[at] \notin Ended, NEW t \in Steps, t # at,
         status[t] \in Active
  PROVE  AskedAhead(t) /\ plan.onFailure[t] = "continue"
<1>1. plan \in Plans /\ at \in Nat /\ at \in Steps
  BY UnitPlace
<1>2. t \in Nat
  BY <1>1, PlanShape
<1>3. ASSUME at <= t, BehindIn(status, plan.unit[t], t) PROVE FALSE
  <2>1. at < t
    BY <1>1, <1>2, <1>3
  <2> QED BY <1>1, <1>3, <2>1 DEF BehindIn
<1> QED BY <1>3, UnitPlace

\* A step whose needs are not met is passed, or ends the execution.
LEMMA BlockStepOwes ==
  ASSUME LoopInv, BlockStep
  PROVE  Owed /\ seen' = seen
<1>1. /\ pc = "unit" /\ InUnit /\ status[at] \notin Ended
      /\ UNCHANGED <<plan, memory, turn, pending, obs>>
  BY DEF BlockStep
<1>2. /\ plan \in Plans /\ cur \in 1..LastUnit /\ at \in Nat /\ cur \in Nat /\ BehindIn(status, cur, at)
      /\ \A t \in Steps : plan.unit[t] < cur => t < at
      /\ at + 1 \in Nat /\ plan.unit[at] = cur /\ at \in Steps /\ status \in [Steps -> StepStatus]
      /\ replan \in BOOLEAN
  BY <1>1, UnitPlace
<1>3. \A t \in Steps : t \in Nat
  BY <1>2, PlanShape
<1>4. ASSUME NEW x \in {"skipped", "blocked"}, status' = [status EXCEPT ![at] = x]
      PROVE  /\ status' \in [Steps -> StepStatus] /\ status'[at] = x
             /\ \A t \in Steps : t # at => status'[t] = status[t]
             /\ \A t \in Steps : status'[t] \in Active => AskedAhead(t) /\ plan.onFailure[t] = "continue"
  <2>1. x \in StepStatus /\ x \notin Active
    BY DEF StepStatus, Ended, Ok, Active
  <2>2. /\ status' \in [Steps -> StepStatus] /\ status'[at] = x
        /\ \A t \in Steps : t # at => status'[t] = status[t]
    BY <1>2, <1>4, <2>1
  <2> QED BY <1>1, <2>1, <2>2, OnlyTheNext
<1>5. CASE /\ plan.onFailure[at] = "continue"
           /\ status' = [status EXCEPT ![at] = "skipped"] /\ Go("unit", cur, at + 1, replan)
  <2>1. /\ status' \in [Steps -> StepStatus] /\ status'[at] = "skipped"
        /\ \A t \in Steps : t # at => status'[t] = status[t]
        /\ \A t \in Steps : status'[t] \in Active => AskedAhead(t) /\ plan.onFailure[t] = "continue"
    BY <1>4, <1>5
  <2>2. BehindIn(status', cur, at + 1)
    <3>1. \A t \in Steps : t < at + 1 /\ ~(t < at) => status'[t] \in Ended
      <4>1. \A t \in Steps : t < at + 1 /\ ~(t < at) => t = at
        BY <1>2, <1>3
      <4> QED BY <2>1, <4>1 DEF Ended, Ok
    <3>2. \A t \in Steps : t < at => status'[t] = status[t]
      <4>1. ASSUME NEW t \in Steps, t < at PROVE t # at
        BY <1>2, <1>3, <4>1
      <4> QED BY <2>1, <4>1
    <3> QED BY <1>2, <3>1, <3>2, BehindKept
  <2>3. \A t \in Steps : status'[t] = status[t] \/ (status[t] \notin Ended /\ status'[t] = "skipped")
    BY <1>1, <2>1
  <2> QED BY <1>1, <1>2, <1>5, <2>1, <2>2, <2>3, UnitGoesOn
<1>6. CASE /\ plan.onFailure[at] # "continue"
           /\ status' = [status EXCEPT ![at] = "blocked"] /\ Return("blocked", replan)
  <2>1. /\ status' \in [Steps -> StepStatus] /\ status'[at] = "blocked"
        /\ \A t \in Steps : t # at => status'[t] = status[t]
        /\ \A t \in Steps : status'[t] \in Active => AskedAhead(t) /\ plan.onFailure[t] = "continue"
    BY <1>4, <1>6
  <2>2. ResultFits
    BY <1>2, <1>6, <2>1, ReturnFits
  <2>3. result' = "blocked"
    BY <1>6 DEF Return
  <2>4. result' \in Results /\ result' # "waiting_user"
    BY <2>3 DEF Results, Ended
  <2>5. \A t \in Steps : \/ status'[t] = status[t]
                         \/ status[t] \notin Ended /\ status'[t] \in {"blocked", "waiting_user"}
    BY <1>1, <2>1
  <2> QED BY <1>1, <1>6, <2>1, <2>2, <2>4, <2>5, UnitReturns
<1> QED BY <1>5, <1>6 DEF BlockStep

\* A step whose needs are met begins.
LEMMA BeginStepOwes ==
  ASSUME LoopInv, BeginStep
  PROVE  Owed /\ seen' = seen
<1>1. /\ pc = "unit" /\ InUnit /\ status[at] \notin Ended /\ ~DependencyIssue(at)
      /\ status' = [status EXCEPT ![at] = "running"] /\ pc' = "ask" /\ round' = 1
      /\ UNCHANGED <<plan, memory, turn, pending, replan, cur, at, depth, obs, resume, result>>
  BY DEF BeginStep
<1>2. /\ plan \in Plans /\ cur \in 1..LastUnit /\ at \in Nat /\ cur \in Nat /\ BehindIn(status, cur, at)
      /\ \A t \in Steps : plan.unit[t] < cur => t < at
      /\ plan.unit[at] = cur /\ at \in Steps /\ status \in [Steps -> StepStatus]
  BY <1>1, UnitPlace
<1>3. /\ LoopTyped /\ PlaceOK /\ SatisfiedOK /\ PendingOK /\ ObsOK /\ DependenciesFirst
  BY DEF LoopInv
<1>4. /\ Steps' = Steps /\ \A t : AskedAhead(t)' <=> AskedAhead(t)
      /\ \A t : Reached(t)' <=> BehindIn(status', plan.unit[t], t)
  BY <1>1, Fixed
<1>5. /\ status' \in [Steps -> StepStatus] /\ status'[at] = "running"
      /\ \A t \in Steps : t # at => status'[t] = status[t]
  <2>1. "running" \in StepStatus
    BY DEF StepStatus, Active
  <2> QED BY <1>1, <1>2, <2>1
<1>6. \A t \in Steps : status[t] \in Ended => status'[t] = status[t]
  BY <1>1, <1>5
<1>7. \A t \in Steps : status[t] \in Ok => status'[t] \in Ok
  BY <1>6 DEF Ended
<1>8. Satisfied(at)
  BY <1>1 DEF DependencyIssue, Satisfied
<1>9. LoopTyped'
  <2>1. /\ attempts' \in [Steps -> Nat] /\ latest' \in [Steps -> {"none", "ok", "failed"}]
        /\ failedCall' \in [Steps -> FailedCalls] /\ turn' \in Nat /\ seen' \in Nat
        /\ pending' \in {NoPending} \cup
             [kind : {"action", "plan", "plan safety"}, step : Steps, call : CallNames \cup {"ask_user"}]
        /\ plan' \in Plans /\ replan' \in BOOLEAN /\ obs' \in Observations
        /\ resume' \in {"no", "acting", "looping"} /\ result' \in Results
        /\ cur' \in Nat /\ at' \in Nat /\ depth' \in Nat
    BY <1>1, <1>3 DEF LoopTyped, memory
  <2> QED BY <1>1, <1>4, <1>5, <2>1 DEF LoopTyped
<1>10. StartOK' /\ WaitingIsAnswerable' /\ DepthOK'
  BY <1>1 DEF StartOK, WaitingIsAnswerable, DepthOK
<1>11. PlaceOK'
  <2>1. status'[at] \notin Ended
    BY <1>5 DEF Ended, Ok
  <2> QED BY <1>1, <1>2, <1>3, <1>4, <2>1 DEF PlaceOK, InStep
<1>12. BehindOK'
  <2>1. BehindIn(status', cur, at)
    <3>1. \A t \in Steps : t < at => status'[t] = status[t]
      <4>1. ASSUME NEW t \in Steps, t < at PROVE t # at
        <5>1. t \in Nat /\ at \in Nat
          BY <1>2, PlanShape
        <5> QED BY <4>1, <5>1
      <4> QED BY <1>5, <4>1
    <3>2. \A t \in Steps : t < at /\ ~(t < at) => status'[t] \in Ended
      OBVIOUS
    <3> QED BY <1>2, <3>1, <3>2, BehindKept
  <2>2. \A t : t = at' => Reached(t)'
    BY <1>1, <1>2, <1>4, <2>1
  <2>3. Reached(at)'
    BY <2>2
  <2> QED BY <1>1, <2>3 DEF BehindOK, InStep, Waiting
<1>13. ActiveOK'
  <2> SUFFICES ASSUME NEW t \in Steps, status'[t] \in Active, t # at
               PROVE  AskedAhead(t)' /\ plan'.onFailure[t] = "continue"
    BY <1>1, <1>4 DEF ActiveOK, InStep
  <2>1. AskedAhead(t) /\ plan.onFailure[t] = "continue"
    BY <1>1, <1>5, OnlyTheNext
  <2> QED BY <1>1, <1>4, <2>1
<1>14. SatisfiedOK'
  <2>1. \A t \in Steps : Satisfied(t) => Satisfied(t)'
    BY <1>1, <1>2, <1>7, SatisfiedKept
  <2>2. ASSUME pending.kind = "action" PROVE Satisfied(pending.step)'
    <3>1. PICK t \in Steps : t = pending.step /\ Satisfied(t)
      BY <1>3, <2>2, PendingData DEF SatisfiedOK
    <3>2. Satisfied(t)' /\ t = pending'.step
      BY <1>1, <2>1, <3>1
    <3> QED BY <3>2
  <2>3. ASSUME pending.kind = "plan safety" PROVE AskedAhead(pending.step)'
    <3>1. PICK t \in Steps : t = pending.step /\ AskedAhead(t)
      BY <1>3, <2>3, PendingData DEF SatisfiedOK
    <3>2. AskedAhead(t)' /\ t = pending'.step
      BY <1>1, <1>4, <3>1
    <3> QED BY <3>2
  <2>4. \A t \in Steps : t = at' => Satisfied(t)'
    BY <1>1, <1>8, <2>1
  <2>5. Satisfied(at)'
    BY <1>1, <1>2, <2>4
  <2> QED BY <1>1, <2>2, <2>3, <2>5 DEF SatisfiedOK
<1>15. PendingOK' /\ ObsOK'
  BY <1>1, <1>3 DEF PendingOK, ObsOK
<1>16. DependenciesFirst'
  <2>1. \A t \in Steps : status'[t] = status[t] \/ Satisfied(t)
    BY <1>5, <1>8
  <2> QED BY <1>1, <1>2, <1>3, <1>7, <2>1, DependenciesKept
<1>17. LoopInv'
  BY <1>9, <1>10, <1>11, <1>12, <1>13, <1>14, <1>15, <1>16 DEF LoopInv
<1> QED BY <1>1, <1>6, <1>17 DEF Owed, memory


\* A unit is left when all its steps have ended.
LEMMA EndUnitOwes ==
  ASSUME LoopInv, EndUnit
  PROVE  Owed /\ seen' = seen
<1> DEFINE r == UnitResult(cur, status)
<1>1. /\ pc = "unit" /\ ~InUnit /\ LeaveUnit(r, status, replan)
      /\ UNCHANGED <<plan, status, memory, turn, pending, obs>>
  BY DEF EndUnit
<1>2. /\ LoopTyped /\ PlaceOK /\ plan \in Plans /\ cur \in 1..LastUnit /\ at \in Nat /\ cur \in Nat
      /\ BehindIn(status, cur, at) /\ \A t \in Steps : plan.unit[t] < cur => t < at
      /\ replan \in BOOLEAN /\ status \in [Steps -> StepStatus] /\ LastUnit \in Nat
  BY <1>1, UnitPlace, PlanShape DEF LoopInv
<1>3. ASSUME NEW t \in Steps
      PROVE  t \in Nat /\ plan.unit[t] \in 1..LastUnit /\ plan.unit[t] \in Nat /\ (plan.unit[t] <= cur <=> t < at)
  BY <1>1, <1>2, PlanShape, UnitIsOver
<1>4. ASSUME NEW t \in Steps, plan.unit[t] <= cur PROVE status[t] \in Ended
  BY <1>2, <1>3, <1>4 DEF BehindIn
<1>5. /\ r \in {"completed", "skipped", "failed", "blocked", "cancelled"}
      /\ r \in {"failed", "blocked", "cancelled"} =>
           \E t \in Steps : plan.unit[t] = cur /\ status[t] = r
  <2>1. \A t \in Steps : plan.unit[t] = cur => status[t] \in Ended
    BY <1>2, <1>4
  <2> QED BY <1>2, <2>1, UnitEnded
<1>6. ASSUME NEW t \in Steps, status[t] \in Active, ~(AskedAhead(t) /\ plan.onFailure[t] = "continue")
      PROVE  at <= t /\ cur < plan.unit[t] /\ BehindIn(status, plan.unit[t], t)
  <2>1. at <= t /\ cur <= plan.unit[t] /\ BehindIn(status, plan.unit[t], t)
    BY <1>1, <1>6, UnitPlace
  <2>2. ~(t < at)
    BY <1>2, <1>3, <2>1
  <2> QED BY <1>2, <1>3, <2>1, <2>2
<1>7. ASSUME Stops(cur, r, status), NEW t \in Steps, status[t] \in Active
      PROVE  AskedAhead(t) /\ plan.onFailure[t] = "continue"
  <2>1. ASSUME cur < plan.unit[t], BehindIn(status, plan.unit[t], t) PROVE FALSE
    BY <1>2, <1>7, <2>1 DEF BehindIn
  <2> QED BY <1>6, <1>7, <2>1
<1>8. CASE Stops(cur, r, status)
  <2>1. Return(r, replan)
    BY <1>1, <1>8 DEF LeaveUnit
  <2>2. r \in {"blocked", "failed", "cancelled"}
    BY <1>5, <1>8 DEF Stops
  <2> HIDE DEF r
  <2>3. ResultFits
    <3>1. \A t \in Steps : status'[t] \in Active => AskedAhead(t) /\ plan.onFailure[t] = "continue"
      BY <1>1, <1>7, <1>8
    <3>2. \E t \in Steps : status'[t] = r
      BY <1>1, <1>5, <2>2
    <3> QED BY <1>2, <2>1, <2>2, <3>1, <3>2, ReturnFits
  <2>4. result' \in Results /\ result' # "waiting_user"
    BY <2>1, <2>2 DEF Return, Results, Ended
  <2> QED BY <1>1, <1>2, <2>1, <2>3, <2>4, UnitReturns
<1>9. CASE ~Stops(cur, r, status) /\ cur < LastUnit
  <2> DEFINE m == Min(UnitSteps(cur + 1))
  <2>1. Go("unit", cur + 1, m, replan)
    BY <1>1, <1>9 DEF LeaveUnit
  <2>2. /\ cur + 1 \in 1..LastUnit /\ m \in Steps /\ plan.unit[m] = cur + 1
        /\ \A t \in Steps : t < m => plan.unit[t] <= cur
    BY <1>2, <1>9, NextUnit
  <2>3. BehindIn(status, cur + 1, m)
    <3>1. \A t \in Steps : plan.unit[t] = cur => status[t] \in Ended
      BY <1>2, <1>4
    <3> QED BY <1>2, <1>9, <3>1, BehindUnit
  <2> HIDE DEF m, r
  <2>4. m \in Nat
    BY <1>3, <2>2
  <2>5. ASSUME NEW t \in Steps, status[t] \in Active, ~(AskedAhead(t) /\ plan.onFailure[t] = "continue")
        PROVE  m <= t /\ cur + 1 <= plan.unit[t] /\ BehindIn(status, plan.unit[t], t)
    <3>1. cur < plan.unit[t] /\ BehindIn(status, plan.unit[t], t)
      BY <1>6, <2>5
    <3>2. ~(t < m)
      BY <1>2, <1>3, <2>2, <3>1
    <3>3. t \in Nat /\ plan.unit[t] \in Nat
      BY <1>3
    <3> QED BY <1>2, <2>4, <3>1, <3>2, <3>3
  <2>6. status' = status
    BY <1>1
  <2> QED BY <1>1, <1>2, <2>1, <2>2, <2>3, <2>4, <2>5, <2>6, UnitGoesOn
<1>10. CASE ~Stops(cur, r, status) /\ ~(cur < LastUnit)
  <2> DEFINE a == Aggregate(status, replan, r)
  <2>1. Return(a, replan)
    BY <1>1, <1>10 DEF LeaveUnit
  <2>2. r \in {"completed", "skipped", "failed"} /\ (r = "failed" => \E t \in Steps : status[t] = "failed")
    BY <1>5, <1>10 DEF Stops
  <2>3. \A t \in Steps : status[t] \in Ended
    BY <1>2, <1>3, <1>4, <1>10
  <2>4. status' = status
    BY <1>1
  <2> HIDE DEF r
  <2>5. ResultFits /\ result' \in Results \ {"waiting_user"}
    BY <1>2, <2>1, <2>2, <2>3, <2>4, AggregateFits
  <2> HIDE DEF a
  <2> QED BY <1>1, <1>2, <2>1, <2>4, <2>5, UnitReturns
<1> QED BY <1>8, <1>9, <1>10

-----------------------------------------------------------------------------
(* The check of the plan *)

\* The whole plan waits for the user.
LEMMA ConfirmPlanOwes ==
  ASSUME LoopInv, ConfirmPlan
  PROVE  Owed /\ seen' = seen
<1>1. /\ pc = "start" /\ status' = [s \in Steps |-> "waiting_user"]
      /\ pending' = Pending("plan", 1, "none") /\ Return("waiting_user", replan)
      /\ UNCHANGED <<plan, memory, turn, obs>>
  BY DEF ConfirmPlan
<1>2. /\ plan \in Plans /\ replan \in BOOLEAN /\ 1 \in Steps
      /\ status = [s \in Steps |-> "pending"]
  BY <1>1, PlanShape DEF LoopInv, LoopTyped, StartOK
<1>3. /\ status' \in [Steps -> StepStatus] /\ \A s \in Steps : status'[s] = "waiting_user"
      /\ \A s \in Steps : status[s] \notin Ended
  BY <1>1, <1>2 DEF StepStatus, Ended, Ok
<1>4. ResultFits
  <2>1. \A s \in Steps : status'[s] \notin Active
    BY <1>3 DEF Active
  <2> QED BY <1>1, <1>2, <1>3, <2>1, ReturnFits
<1>5. pending' \in [kind : {"plan", "plan safety"}, step : Steps, call : CallNames]
  BY <1>1, <1>2 DEF Pending, CallNames
<1>6. result' = "waiting_user"
  BY <1>1 DEF Return
<1>7. pending'.kind = "plan" /\ pending'.step = 1 /\ pending'.call = "none" /\ result' \in Results
  BY <1>1, <1>6 DEF Pending, Results
<1> QED BY <1>1, <1>2, <1>3, <1>4, <1>5, <1>7, UnitReturns

\* The first step that is not simply allowed stops the execution.
LEMMA CheckPlanOwes ==
  ASSUME LoopInv, CheckPlan
  PROVE  Owed /\ seen' = seen
<1> DEFINE gated == {s \in Steps : plan.gate[s] # "none"}
           first == Min(gated)
<1>1. /\ pc = "start" /\ plan.mode = "run"
      /\ UNCHANGED <<plan, memory, turn, obs>>
      /\ IF gated = {} THEN EnterLoop("no", replan) /\ UNCHANGED <<status, pending>>
         ELSE IF plan.gate[first] = "blocked"
           THEN /\ status' = [status EXCEPT ![first] = "blocked"]
                /\ Return("blocked", replan)
                /\ UNCHANGED pending
           ELSE /\ status' = [status EXCEPT ![first] = "waiting_user"]
                /\ pending' = Pending("plan safety", first, plan.gate[first])
                /\ Return("waiting_user", replan)
  BY DEF CheckPlan
<1>2. /\ LoopTyped /\ plan \in Plans /\ replan \in BOOLEAN /\ status = [s \in Steps |-> "pending"]
      /\ pending = NoPending /\ ObsOK
  BY <1>1 DEF LoopInv, LoopTyped, StartOK
<1>3. ASSUME gated # {}
      PROVE  /\ first \in Steps /\ plan.gate[first] # "none" /\ AskedAhead(first)
             /\ plan.gate[first] \in Asked \cup {"blocked"}
  <2>1. PICK n \in Nat : Steps = 1..n
    BY <1>2, PlanShape
  <2>2. gated \in SUBSET (1..n)
    BY <2>1
  <2>3. first \in gated /\ \A y \in gated : first <= y
    <3> HIDE DEF gated
    <3> QED BY <1>3, <2>1, <2>2, EndsOfSome
  <2>4. \A t \in Steps : t \in Nat /\ first \in Nat
    BY <1>2, <2>3, PlanShape
  <2>5. \A t \in Steps : t < first => plan.gate[t] = "none"
    BY <2>3, <2>4
  <2>6. plan.gate[first] # "none" /\ first \in Steps
    BY <2>3
  <2>7. plan.gate[first] \in Asked \cup {"blocked"}
    BY <1>2, <2>6, PlanShape
  <2> HIDE DEF first, gated
  <2> QED BY <1>1, <2>5, <2>6, <2>7 DEF AskedAhead
<1> HIDE DEF gated, first
<1>4. CASE gated = {}
  <2>1. EnterLoop("no", replan) /\ UNCHANGED <<status, pending>>
    BY <1>1, <1>4
  <2>2. pc' = "unit"
    BY <2>1 DEF EnterLoop
  <2>3. SatisfiedOK' /\ DependenciesFirst'
    BY <1>1, <2>1, <2>2, SatisfiedSame DEF InStep
  <2>4. \A s \in Steps : status'[s] \notin Active
    BY <1>2, <2>1 DEF Active
  <2>5. /\ UNCHANGED <<plan, failedCall, turn>> /\ seen' \in Nat /\ attempts' \in [Steps -> Nat]
        /\ latest' \in [Steps -> {"none", "ok", "failed"}] /\ status' \in [Steps -> StepStatus]
        /\ obs' \in Observations /\ pending' = NoPending
    BY <1>1, <1>2, <2>1 DEF memory, LoopTyped
  <2>6. obs'.class # "completed"
    BY <1>1, <1>2 DEF ObsOK
  <2>7. LoopInv'
    BY <1>2, <2>1, <2>3, <2>4, <2>5, <2>6, EnteredKeeps
  <2> QED BY <1>1, <2>1, <2>2, <2>7 DEF Owed, memory
<1>5. CASE gated # {} /\ plan.gate[first] = "blocked"
  <2>1. /\ status' = [status EXCEPT ![first] = "blocked"] /\ Return("blocked", replan)
        /\ UNCHANGED pending
    BY <1>1, <1>5
  <2>2. first \in Steps
    BY <1>3, <1>5
  <2>3. /\ status' \in [Steps -> StepStatus] /\ status'[first] = "blocked"
        /\ \A t \in Steps : /\ t # first => status'[t] = status[t]
                            /\ status'[t] \in {"pending", "blocked"} /\ status[t] \notin Ended
    BY <1>2, <2>1, <2>2 DEF StepStatus, Ended, Ok
  <2>4. ResultFits
    <3>1. \A t \in Steps : status'[t] \notin Active
      BY <2>3 DEF Active
    <3> QED BY <1>2, <2>1, <2>2, <2>3, <3>1, ReturnFits
  <2>5. result' = "blocked"
    BY <2>1 DEF Return
  <2>6. result' \in Results /\ result' # "waiting_user"
    BY <2>5 DEF Results, Ended
  <2>7. \A t \in Steps : \/ status'[t] = status[t]
                         \/ status[t] \notin Ended /\ status'[t] \in {"blocked", "waiting_user"}
    BY <2>3
  <2> QED BY <1>1, <2>1, <2>3, <2>4, <2>6, <2>7, UnitReturns
<1>6. CASE gated # {} /\ plan.gate[first] # "blocked"
  <2>1. /\ status' = [status EXCEPT ![first] = "waiting_user"] /\ Return("waiting_user", replan)
        /\ pending' = Pending("plan safety", first, plan.gate[first])
    BY <1>1, <1>6
  <2>2. first \in Steps /\ AskedAhead(first) /\ plan.gate[first] \in Asked
    BY <1>3, <1>6
  <2>3. /\ status' \in [Steps -> StepStatus] /\ status'[first] = "waiting_user"
        /\ \A t \in Steps : /\ t # first => status'[t] = status[t]
                            /\ status'[t] \in {"pending", "waiting_user"} /\ status[t] \notin Ended
    BY <1>2, <2>1, <2>2 DEF StepStatus, Ended, Ok
  <2>4. ResultFits
    <3>1. \A t \in Steps : status'[t] \notin Active
      BY <2>3 DEF Active
    <3> QED BY <1>2, <2>1, <2>2, <2>3, <3>1, ReturnFits
  <2>5. result' = "waiting_user"
    BY <2>1 DEF Return
  <2>6. /\ pending' \in [kind : {"plan", "plan safety"}, step : Steps, call : CallNames]
        /\ pending'.step = first /\ pending'.call \in Asked /\ result' \in Results
    BY <2>1, <2>2, <2>5 DEF Pending, CallNames, Calls, Results
  <2>7. pending'.call # "none" /\ pending'.kind = "plan safety"
    BY <2>1, <2>6 DEF Asked, Pending
  <2>8. \A t \in Steps : \/ status'[t] = status[t]
                         \/ status[t] \notin Ended /\ status'[t] \in {"blocked", "waiting_user"}
    BY <2>3
  <2> QED BY <1>1, <2>1, <2>2, <2>3, <2>4, <2>6, <2>7, <2>8, UnitReturns
<1> QED BY <1>4, <1>5, <1>6


-----------------------------------------------------------------------------
(* The answer of the user *)

\* The step about which the user is asked has not ended, and what it needs is
\* done unless it was asked about ahead of its turn.
LEMMA AskedAbout ==
  ASSUME LoopInv, Waiting
  PROVE  /\ pending.step \in Steps /\ status[pending.step] = "waiting_user" /\ pending # NoPending
         /\ pc = "returned" /\ plan \in Plans
         /\ pending.call # "none" => /\ Satisfied(pending.step)
                                     /\ AskedAhead(pending.step) \/ Reached(pending.step)
<1>0. /\ LoopTyped /\ BehindOK /\ SatisfiedOK /\ PendingOK /\ WaitingIsAnswerable /\ plan \in Plans
      /\ pc = "returned" /\ result = "waiting_user" /\ pending # NoPending
  BY DEF LoopInv, LoopTyped, Waiting
<1>1. pending.step \in Steps /\ pending.kind \in {"action", "plan", "plan safety"}
  BY <1>0, PendingData
<1>2. status[pending.step] = "waiting_user"
  BY <1>0 DEF WaitingIsAnswerable
<1>3. ASSUME pending.call # "none" PROVE pending.kind \in {"action", "plan safety"}
  BY <1>0, <1>1, <1>3 DEF PendingOK
<1>4. ASSUME pending.kind = "action"
      PROVE  Satisfied(pending.step) /\ (AskedAhead(pending.step) \/ Reached(pending.step))
  BY <1>0, <1>4 DEF SatisfiedOK, BehindOK
<1>5. ASSUME pending.kind = "plan safety"
      PROVE  Satisfied(pending.step) /\ AskedAhead(pending.step)
  BY <1>0, <1>5 DEF SatisfiedOK, Satisfied
<1> QED BY <1>0, <1>1, <1>2, <1>3, <1>4, <1>5

\* While the execution has returned only a step approved ahead is left running.
LEMMA LeftRunning ==
  ASSUME LoopInv, pc = "returned", NEW t \in Steps, status[t] \in Active
  PROVE  AskedAhead(t) /\ plan.onFailure[t] = "continue"
BY DEF LoopInv, ActiveOK, InStep

\* The pending action is taken up: the thread is at its step, with something to judge.
LEMMA TakenUp ==
  ASSUME LoopInv, Waiting, pending.call # "none", NEW s \in Steps, s = pending.step,
         pc' = "check", resume' = "acting", result' = "none", at' = s, cur' = plan.unit[s],
         round' = 0, depth' = 0, UNCHANGED <<plan, replan>>, turn' = turn + 1, seen' = seen + 1,
         attempts' \in [Steps -> Nat], attempts'[s] >= 1,
         latest' \in [Steps -> {"none", "ok", "failed"}], failedCall' \in [Steps -> FailedCalls],
         obs' \in Observations, ObsOK', status' \in [Steps -> StepStatus],
         status'[s] \in {"running", "waiting_user"}, \A t \in Steps : t # s => status'[t] = status[t],
         \/ pending' = NoPending
         \/ pending' = pending /\ status'[s] = "waiting_user" /\ obs'.class = "ask_user"
  PROVE  Owed
<1>0. /\ LoopTyped /\ SatisfiedOK /\ PendingOK /\ DependenciesFirst /\ plan \in Plans
      /\ pc = "returned" /\ pending # NoPending
      /\ status[s] = "waiting_user" /\ Satisfied(s) /\ (AskedAhead(s) \/ Reached(s))
  <2>1. /\ status[pending.step] = "waiting_user" /\ Satisfied(pending.step)
        /\ AskedAhead(pending.step) \/ Reached(pending.step)
    BY AskedAbout
  <2> QED BY <2>1, AskedAbout DEF LoopInv
<1>1. /\ Steps' = Steps /\ \A t : AskedAhead(t)' <=> AskedAhead(t)
      /\ \A t : Reached(t)' <=> BehindIn(status', plan.unit[t], t)
  BY Fixed
<1>2. \A t \in Steps : status[t] \in Ended => status'[t] = status[t]
  BY <1>0 DEF Ended, Ok
<1>3. \A t \in Steps : status[t] \in Ok => status'[t] \in Ok
  BY <1>2 DEF Ended
<1>4. LoopTyped'
  <2>1. /\ pending' \in {NoPending} \cup
             [kind : {"action", "plan", "plan safety"}, step : Steps, call : CallNames \cup {"ask_user"}]
        /\ plan' \in Plans /\ replan' \in BOOLEAN
    BY <1>0 DEF LoopTyped
  <2>2. plan.unit[s] \in Nat /\ s \in Nat
    BY <1>0, PlanShape
  <2>3. turn' \in Nat /\ seen' \in Nat
    <3>1. turn \in Nat /\ seen \in Nat
      BY <1>0 DEF LoopTyped
    <3> QED BY <3>1
  <2>4. cur' \in Nat /\ at' \in Nat
    BY <2>2, Zenon
  <2> QED BY <1>1, <2>1, <2>3, <2>4 DEF LoopTyped, Results
<1>5. StartOK' /\ WaitingIsAnswerable'
  BY DEF StartOK, WaitingIsAnswerable
<1>6. PlaceOK'
  <2>1. status'[s] \notin Ended
    BY DEF Ended, Ok
  <2> QED BY <1>1, <2>1 DEF PlaceOK, InStep
<1>7. BehindOK'
  <2>1. CASE AskedAhead(s)
    <3>1. \A t : t = at' => AskedAhead(t)'
      BY <1>1, <2>1
    <3>2. AskedAhead(at)'
      BY <3>1
    <3> QED BY <3>2 DEF BehindOK, Waiting
  <2>2. CASE Reached(s)
    <3>1. \A t \in Steps : t < s => status'[t] = status[t]
      <4>1. ASSUME NEW t \in Steps, t < s PROVE t # s
        <5>1. t \in Nat /\ s \in Nat
          BY <1>0, PlanShape
        <5> QED BY <4>1, <5>1
      <4> QED BY <4>1
    <3>2. plan.unit[s] \in Nat /\ \A t \in Steps : plan.unit[t] < plan.unit[s] => t < s
      BY <1>0, PlanShape, StepsBefore
    <3>3. \A t \in Steps : t < s /\ ~(t < s) => status'[t] \in Ended
      OBVIOUS
    <3>4. BehindIn(status', plan.unit[s], s)
      BY <1>0, <2>2, <3>1, <3>2, <3>3, BehindKept DEF Reached, Behind
    <3>5. \A t : t = at' => Reached(t)'
      BY <1>1, <3>4
    <3>6. Reached(at)'
      BY <3>5
    <3> QED BY <3>6 DEF BehindOK, Waiting
  <2> QED BY <1>0, <2>1, <2>2
<1>8. ActiveOK'
  <2> SUFFICES ASSUME NEW t \in Steps, status'[t] \in Active, t # s
               PROVE  AskedAhead(t)' /\ plan'.onFailure[t] = "continue"
    BY <1>1 DEF ActiveOK, InStep
  <2> QED BY <1>0, <1>1, LeftRunning
<1>9. SatisfiedOK'
  <2>1. \A t : t = s => Satisfied(t)'
    BY <1>0, <1>3, SatisfiedKept
  <2>2. Satisfied(at)'
    BY <2>1
  <2>3. CASE pending' = NoPending
    BY <2>2, <2>3 DEF SatisfiedOK, NoPending
  <2>4. CASE pending' = pending
    <3>1. Satisfied(pending.step)'
      BY <2>1, <2>4
    <3>2. ASSUME pending'.kind = "plan safety" PROVE AskedAhead(pending.step)'
      <4>1. AskedAhead(s)
        BY <1>0, <2>4, <3>2 DEF SatisfiedOK
      <4>2. \A t : t = pending'.step => AskedAhead(t)'
        BY <1>1, <2>4, <4>1
      <4> QED BY <4>2
    <3> QED BY <2>2, <3>1, <3>2 DEF SatisfiedOK
  <2> QED BY <2>3, <2>4
<1>10. PendingOK'
  <2>1. CASE pending' = NoPending
    BY <2>1 DEF PendingOK, NoPending
  <2>2. CASE pending' = pending /\ status'[s] = "waiting_user" /\ obs'.class = "ask_user"
    BY <1>0, <2>2 DEF PendingOK
  <2> QED BY <2>1, <2>2
<1>11. DepthOK'
  <2>1. attempts'[s] \in Nat /\ MaxStepTurns \in Nat \ {0}
    BY LimitsAssumption
  <2>2. 0 < attempts'[s] /\ 0 < MaxStepTurns
    BY <2>1
  <2> QED BY <2>2 DEF DepthOK
<1>12. DependenciesFirst'
  <2>1. \A t \in Steps : status'[t] = status[t] \/ Satisfied(t)
    BY <1>0
  <2> QED BY <1>0, <1>3, <2>1, DependenciesKept
<1>13. LoopInv'
  BY <1>4, <1>5, <1>6, <1>7, <1>8, <1>9, <1>10, <1>11, <1>12 DEF LoopInv
<1> QED BY <1>0, <1>2, <1>13 DEF Owed

\* The whole plan is approved.
LEMMA ApprovePlanOwes ==
  ASSUME LoopInv, ApprovePlan
  PROVE  Owed /\ seen' = seen
<1>1. /\ Waiting /\ pending' = NoPending /\ EnterLoop("no", replan)
      /\ UNCHANGED <<plan, status, memory, turn, obs>>
  BY DEF ApprovePlan
<1>2. /\ LoopTyped /\ ObsOK /\ DependenciesFirst /\ plan \in Plans /\ pc = "returned" /\ pc' = "unit"
  BY <1>1 DEF LoopInv, LoopTyped, Waiting, EnterLoop
<1>3. SatisfiedOK'
  BY <1>1, <1>2 DEF SatisfiedOK, NoPending, InStep
<1>4. DependenciesFirst'
  BY <1>1, <1>2, DependenciesKept
<1>5. \A s \in Steps : status'[s] \in Active => AskedAhead(s) /\ plan.onFailure[s] = "continue"
  BY <1>1, <1>2, LeftRunning
<1>6. /\ seen' \in Nat /\ attempts' \in [Steps -> Nat] /\ failedCall' = failedCall
      /\ latest' \in [Steps -> {"none", "ok", "failed"}]
      /\ obs' \in Observations /\ obs'.class # "completed" /\ status' \in [Steps -> StepStatus]
      /\ replan \in BOOLEAN
  BY <1>1, <1>2 DEF LoopTyped, ObsOK, memory
<1>7. LoopInv'
  BY <1>1, <1>3, <1>4, <1>5, <1>6, EnteredKeeps
<1> QED BY <1>1, <1>2, <1>7 DEF Owed, memory

\* A call that the user has approved is performed, and judged next.
LEMMA ApproveCallOwes ==
  ASSUME LoopInv, ApproveCall
  PROVE  /\ Owed
         /\ pc = "returned" /\ pending.call = obs'.call /\ pending' = NoPending
         /\ obs'.class = "completed" => pending.step = at'
<1>1. PICK s \in Steps : s = pending.step
  BY AskedAbout DEF ApproveCall
<1>2. PICK class \in CallClasses(pending.call, TRUE, pending.kind = "action") :
        /\ Record(s, Seen("call", pending.call, class, FALSE), Max({attempts[s], 1}))
        /\ IF class = "conflict"
             THEN status' = [status EXCEPT ![s] = "failed"] /\ Return("failed", replan)
             ELSE /\ status' = [status EXCEPT ![s] = "running"]
                  /\ pc' = "check" /\ resume' = "acting" /\ result' = "none"
                  /\ at' = s /\ cur' = plan.unit[s] /\ round' = 0 /\ depth' = 0
                  /\ UNCHANGED replan
  BY <1>1 DEF ApproveCall
<1>3. /\ Waiting /\ pending.call \in Calls /\ turn' = turn + 1 /\ pending' = NoPending /\ plan' = plan
  BY DEF ApproveCall
<1>4. /\ LoopTyped /\ DependenciesFirst /\ plan \in Plans /\ pc = "returned" /\ status[s] = "waiting_user"
      /\ status \in [Steps -> StepStatus] /\ turn \in Nat /\ seen \in Nat /\ replan \in BOOLEAN
  <2>1. status[pending.step] = "waiting_user"
    BY <1>3, AskedAbout
  <2> QED BY <1>1, <1>3, <2>1 DEF LoopInv, LoopTyped, Waiting
<1>5. /\ class \in Undecided \cup {"blocked", "completed", "conflict", "ask_user"}
      /\ class = "ask_user" => pending.call \in {"asked tool", "command"}
  <2>1. Failures \subseteq Undecided \cup {"blocked"}
    BY LimitsAssumption
  <2>2. CASE pending.call = "call"
    <3>1. class \in Failures \cup {"completed"}
      BY <2>2 DEF CallClasses, Asked
    <3> QED BY <2>1, <3>1 DEF Undecided
  <2>3. CASE pending.call = "asked model"
    <3>1. class \in Failures \cup {"completed"}
      BY <2>3 DEF CallClasses, Asked
    <3> QED BY <2>1, <3>1 DEF Undecided
  <2>4. CASE pending.call = "asked tool"
    <3>1. class \in Failures \cup {"completed", "conflict", "ask_user"}
      BY <2>4 DEF CallClasses, Asked
    <3> QED BY <2>1, <2>4, <3>1
  <2>5. CASE pending.call = "command"
    <3>1. class \in Failures \cup {"completed", "conflict", "ask_user"}
      BY <2>5 DEF CallClasses, Asked
    <3> QED BY <2>1, <2>5, <3>1
  <2> QED BY <1>3, <2>2, <2>3, <2>4, <2>5 DEF Calls, Asked
<1> DEFINE o == Seen("call", pending.call, class, FALSE)
<1>6. /\ o \in Observations /\ o.type = "call" /\ o.call = pending.call /\ o.class = class
      /\ o.call # "none"
  <2>1. class \in Classes
    <3>1. class \in Undecided \/ class \in {"blocked", "completed", "conflict", "ask_user"}
      BY <1>5
    <3> QED BY <3>1 DEF Classes, Ok
  <2>2. pending.call \in CallNames /\ pending.call # "none"
    BY <1>3 DEF CallNames, Calls, Asked
  <2> QED BY <2>1, <2>2 DEF Seen, Observations, Types
<1>7. Max({attempts[s], 1}) \in Nat /\ Max({attempts[s], 1}) >= 1
  BY <1>4, StepData, MaxOfTwo
<1>8. Record(s, o, Max({attempts[s], 1}))
  BY <1>2
<1> HIDE DEF o
<1> DEFINE a == Max({attempts[s], 1})
<1>9. a \in Nat /\ a >= 1 /\ Record(s, o, a)
  BY <1>7, <1>8
<1> HIDE DEF a
<1>10. /\ obs' = o /\ seen' = seen + 1
       /\ attempts' \in [Steps -> Nat] /\ attempts'[s] >= a
       /\ latest' \in [Steps -> {"none", "ok", "failed"}]
       /\ failedCall' \in [Steps -> FailedCalls]
       /\ class \notin Ok => failedCall'[s].call = o.call /\ failedCall'[s].class = o.class
  BY <1>4, <1>6, <1>9, Recorded
<1>11. attempts'[s] >= 1
  <2>1. attempts'[s] \in Nat
    BY <1>10
  <2> QED BY <1>9, <1>10, <2>1
<1>12. CASE class = "conflict"
  <2>1. status' = [status EXCEPT ![s] = "failed"] /\ Return("failed", replan)
    BY <1>2, <1>12
  <2>2. /\ pc' = "returned" /\ cur' = 0 /\ at' = 0 /\ round' = 0 /\ depth' = 0 /\ resume' = "no"
        /\ replan' \in BOOLEAN /\ result' \in {"failed", "request_replan"}
    BY <1>4, <2>1 DEF Return
  <2>3. /\ status' \in [Steps -> StepStatus] /\ status'[s] = "failed"
        /\ \A t \in Steps : t # s => status'[t] = status[t]
    BY <1>4, <2>1 DEF StepStatus, Ended
  <2>4. \A t \in Steps : status[t] \in Ended => status'[t] = status[t]
    BY <1>4, <2>3 DEF Ended, Ok
  <2>5. \A t \in Steps : status[t] \in Ok => status'[t] \in Ok
    BY <2>4 DEF Ended
  <2>6. Steps' = Steps /\ \A t : AskedAhead(t)' <=> AskedAhead(t)
    BY <1>3, Fixed
  <2>7. LoopTyped'
    <3>1. /\ plan' \in Plans /\ turn' \in Nat /\ seen' \in Nat /\ obs' \in Observations
          /\ result' \in Results
      BY <1>3, <1>4, <1>6, <1>10, <2>2 DEF Results, Ended
    <3> QED BY <1>3, <1>10, <2>2, <2>3, <2>6, <3>1 DEF LoopTyped
  <2>8. /\ StartOK' /\ PlaceOK' /\ BehindOK' /\ DepthOK' /\ WaitingIsAnswerable'
    BY <2>2 DEF StartOK, PlaceOK, BehindOK, DepthOK, WaitingIsAnswerable, InStep, Waiting
  <2>9. ActiveOK'
    <3>1. ASSUME NEW t \in Steps, status'[t] \in Active
          PROVE  AskedAhead(t)' /\ plan'.onFailure[t] = "continue"
      <4>1. t # s
        BY <2>3, <3>1 DEF Active
      <4> QED BY <1>3, <1>4, <2>3, <2>6, <3>1, <4>1, LeftRunning
    <3> QED BY <2>6, <3>1 DEF ActiveOK
  <2>10. SatisfiedOK' /\ PendingOK'
    BY <1>3, <2>2 DEF SatisfiedOK, PendingOK, NoPending, InStep
  <2>11. ObsOK'
    BY <1>6, <1>10, <1>12, <2>2 DEF ObsOK
  <2>12. DependenciesFirst'
    <3>1. \A t \in Steps : status'[t] \in {"running", "retrying", "completed"} => status'[t] = status[t]
      BY <2>3
    <3> QED BY <1>3, <1>4, <2>5, <3>1, DependenciesKept
  <2>13. LoopInv'
    BY <2>7, <2>8, <2>9, <2>10, <2>11, <2>12 DEF LoopInv
  <2>14. Owed
    BY <1>3, <1>4, <2>4, <2>13 DEF Owed
  <2> QED BY <1>3, <1>4, <1>6, <1>10, <1>12, <2>14
<1>13. CASE class # "conflict"
  <2>1. /\ status' = [status EXCEPT ![s] = "running"]
        /\ pc' = "check" /\ resume' = "acting" /\ result' = "none"
        /\ at' = s /\ cur' = plan.unit[s] /\ round' = 0 /\ depth' = 0
        /\ UNCHANGED replan
    BY <1>2, <1>13
  <2>2. /\ status' \in [Steps -> StepStatus] /\ status'[s] = "running"
        /\ \A t \in Steps : t # s => status'[t] = status[t]
    BY <1>4, <2>1 DEF StepStatus, Active
  <2>3. ObsOK'
    <3>1. /\ obs'.type = "call" /\ obs'.class = class /\ obs'.call = pending.call
          /\ class \in Classes \ {"none", "conflict"} /\ class \notin {"cancelled", "request_replan"}
      BY <1>5, <1>6, <1>10, <1>13 DEF Classes, Undecided, Ok
    <3>2. class = "ask_user" => /\ failedCall'[s].call = obs'.call /\ failedCall'[s].class = "ask_user"
                                /\ obs'.call \in {"asked tool", "command"}
      BY <1>5, <1>6, <1>10, <3>1 DEF Ok
    <3> QED BY <2>1, <3>1, <3>2 DEF ObsOK
  <2>4. pending.call # "none" /\ obs' \in Observations
    BY <1>6, <1>10
  <2>5. Owed
    BY <1>1, <1>3, <1>4, <1>10, <1>11, <2>1, <2>2, <2>3, <2>4, TakenUp
  <2> QED BY <1>1, <1>3, <1>4, <1>6, <1>10, <2>1, <2>5
<1> QED BY <1>12, <1>13


\* A question that the user has answered is put again.
LEMMA ApproveQuestionOwes ==
  ASSUME LoopInv, ApproveQuestion
  PROVE  Owed /\ obs'.call = "none" /\ plan' = plan
<1>1. PICK s \in Steps : s = pending.step
  BY AskedAbout DEF ApproveQuestion
<1>2. /\ Waiting /\ pending.call = "ask_user"
      /\ Record(s, Seen("ask_user", "none", "ask_user", FALSE), Max({attempts[s], 1}))
      /\ at' = s /\ cur' = plan.unit[s] /\ round' = 0 /\ depth' = 0
      /\ pc' = "check" /\ resume' = "acting" /\ result' = "none" /\ turn' = turn + 1
      /\ UNCHANGED <<plan, status, pending, replan>>
  BY <1>1 DEF ApproveQuestion
<1>3. LoopTyped /\ status[s] = "waiting_user" /\ status \in [Steps -> StepStatus] /\ pending # NoPending
  <2>1. status[pending.step] = "waiting_user" /\ pending # NoPending
    BY <1>2, AskedAbout
  <2> QED BY <1>1, <2>1 DEF LoopInv, LoopTyped
<1> DEFINE o == Seen("ask_user", "none", "ask_user", FALSE)
           a == Max({attempts[s], 1})
<1>4. /\ o \in Observations /\ o.type = "ask_user" /\ o.call = "none" /\ o.class = "ask_user"
  BY DEF Seen, Observations, Types, Controls, CallNames, Classes
<1>5. a \in Nat /\ a >= 1
  BY <1>3, StepData, MaxOfTwo
<1>6. Record(s, o, a)
  BY <1>2
<1> HIDE DEF o, a
<1>7. /\ obs' = o /\ seen' = seen + 1
      /\ attempts' \in [Steps -> Nat] /\ attempts'[s] >= a
      /\ latest' \in [Steps -> {"none", "ok", "failed"}]
      /\ failedCall' \in [Steps -> FailedCalls]
  BY <1>3, <1>4, <1>5, <1>6, Recorded
<1>8. attempts'[s] >= 1
  <2>1. attempts'[s] \in Nat
    BY <1>7
  <2> QED BY <1>5, <1>7, <2>1
<1>9. ObsOK'
  <2>1. obs'.type = "ask_user" /\ obs'.class = "ask_user" /\ obs'.call = "none"
    BY <1>4, <1>7
  <2>2. "ask_user" \in Classes \ {"none", "conflict"}
    BY DEF Classes
  <2> QED BY <1>2, <1>3, <2>1, <2>2 DEF ObsOK
<1>10. Owed
  <2>1. /\ obs' \in Observations /\ obs'.class = "ask_user" /\ pending.call # "none"
        /\ status' \in [Steps -> StepStatus] /\ status'[s] = "waiting_user"
    BY <1>2, <1>3, <1>4, <1>7
  <2> QED BY <1>1, <1>2, <1>7, <1>8, <1>9, <2>1, TakenUp
<1> QED BY <1>2, <1>4, <1>7, <1>10

\* A rejected step is cancelled and those that need it are skipped: the only
\* way in which a step that has ended is given another end.
LEMMA RejectKeeps ==
  ASSUME LoopInv, Reject
  PROVE  /\ LoopInv' /\ pc = "returned" /\ pc' # "returned" /\ plan' = plan /\ obs' = obs
         /\ \A t \in Steps : status[t] \in Ended =>
              \/ status'[t] = status[t]
              \/ /\ status'[t] = "skipped" /\ pending.step \in Needs(t)
                 /\ status'[pending.step] = "cancelled"
<1>1. PICK s \in Steps : s = pending.step
  BY AskedAbout DEF Reject
<1>2. /\ Waiting
      /\ status' = [t \in Steps |-> IF t = s THEN "cancelled"
                                    ELSE IF s \in Needs(t) THEN "skipped" ELSE status[t]]
      /\ seen' = seen + 1 /\ latest' = [latest EXCEPT ![s] = "failed"]
      /\ attempts' = [attempts EXCEPT ![s] = Max({@, 1})]
      /\ pending' = NoPending /\ EnterLoop("no", replan)
      /\ UNCHANGED <<plan, failedCall, turn, obs>>
  BY <1>1 DEF Reject
<1>3. /\ LoopTyped /\ ObsOK /\ DependenciesFirst /\ plan \in Plans /\ pc = "returned" /\ pc' = "unit"
      /\ status[s] = "waiting_user" /\ status \in [Steps -> StepStatus] /\ seen \in Nat
      /\ attempts \in [Steps -> Nat] /\ replan \in BOOLEAN
  <2>1. status[pending.step] = "waiting_user"
    BY <1>2, AskedAbout
  <2> QED BY <1>1, <1>2, <2>1 DEF LoopInv, LoopTyped, Waiting, EnterLoop
<1>4. /\ status' \in [Steps -> StepStatus] /\ status'[s] = "cancelled"
      /\ \A t \in Steps : t # s => status'[t] = status[t] \/ (status'[t] = "skipped" /\ s \in Needs(t))
  <2>1. "cancelled" \in StepStatus /\ "skipped" \in StepStatus
    BY DEF StepStatus, Ended, Ok
  <2> QED BY <1>2, <1>3, <2>1
<1>5. \A t \in Steps : status[t] \in Ok => status'[t] \in Ok
  BY <1>3, <1>4 DEF Ok
<1>6. SatisfiedOK'
  BY <1>2, <1>3 DEF SatisfiedOK, NoPending, InStep
<1>7. DependenciesFirst'
  <2>1. \A t \in Steps : status'[t] \in {"running", "retrying", "completed"} => status'[t] = status[t]
    BY <1>4
  <2> QED BY <1>2, <1>3, <1>5, <2>1, DependenciesKept
<1>8. ASSUME NEW t \in Steps, status'[t] \in Active
      PROVE  AskedAhead(t) /\ plan.onFailure[t] = "continue"
  <2>1. status[t] \in Active
    BY <1>4, <1>8 DEF Active
  <2> QED BY <1>3, <2>1, LeftRunning
<1>9. /\ seen' \in Nat /\ obs' \in Observations /\ obs'.class # "completed"
      /\ latest' \in [Steps -> {"none", "ok", "failed"}]
  <2>1. latest \in [Steps -> {"none", "ok", "failed"}] /\ obs \in Observations
    BY <1>3 DEF LoopTyped
  <2>2. obs.class # "completed"
    BY <1>3 DEF ObsOK
  <2>3. seen' \in Nat
    BY <1>2, <1>3
  <2> QED BY <1>2, <2>1, <2>2, <2>3
<1>10. attempts' \in [Steps -> Nat]
  <2>1. Max({attempts[s], 1}) \in Nat
    BY <1>3, MaxOfTwo
  <2> QED BY <1>2, <1>3, <2>1
<1>11. LoopInv'
  BY <1>2, <1>3, <1>4, <1>6, <1>7, <1>8, <1>9, <1>10, EnteredKeeps
<1>12. ASSUME NEW t \in Steps, status[t] \in Ended
       PROVE  \/ status'[t] = status[t]
              \/ /\ status'[t] = "skipped" /\ pending.step \in Needs(t)
                 /\ status'[pending.step] = "cancelled"
  <2>1. t # s
    BY <1>3, <1>12 DEF Ended, Ok
  <2> QED BY <1>1, <1>4, <2>1
<1> QED BY <1>2, <1>3, <1>11, <1>12

\* An answer to another question ends the execution.
LEMMA AnswerMismatchOwes ==
  ASSUME LoopInv, AnswerMismatch
  PROVE  Owed /\ obs' = obs
<1>1. PICK s \in Steps : s = pending.step
  BY AskedAbout DEF AnswerMismatch
<1>2. /\ Waiting /\ seen' = seen + 1 /\ latest' = [latest EXCEPT ![s] = "failed"]
      /\ attempts' = [attempts EXCEPT ![s] = Max({@, 1})] /\ result' = "failed"
      /\ UNCHANGED <<plan, status, failedCall, turn, pending, replan, pc, cur, at, round,
                     depth, obs, resume>>
  BY <1>1 DEF AnswerMismatch
<1>3. /\ LoopTyped /\ StartOK /\ PlaceOK /\ BehindOK /\ ActiveOK /\ SatisfiedOK /\ PendingOK /\ ObsOK
      /\ DependenciesFirst /\ plan \in Plans /\ pc = "returned" /\ attempts \in [Steps -> Nat]
  BY <1>2 DEF LoopInv, LoopTyped, Waiting
<1>4. /\ Steps' = Steps /\ \A t : AskedAhead(t)' <=> AskedAhead(t)
  BY <1>2, Fixed
<1>5. LoopTyped'
  <2>1. Max({attempts[s], 1}) \in Nat
    BY <1>3, MaxOfTwo
  <2>2. attempts' \in [Steps -> Nat]
    BY <1>2, <1>3, <2>1
  <2>3. /\ plan' \in Plans /\ status' \in [Steps -> StepStatus]
        /\ latest' \in [Steps -> {"none", "ok", "failed"}]
        /\ failedCall' \in [Steps -> FailedCalls] /\ turn' \in Nat
        /\ pending' \in {NoPending} \cup
             [kind : {"action", "plan", "plan safety"}, step : Steps, call : CallNames \cup {"ask_user"}]
        /\ replan' \in BOOLEAN /\ cur' \in Nat /\ at' \in Nat /\ round' \in Nat /\ depth' \in Nat
        /\ obs' \in Observations /\ resume' \in {"no", "acting", "looping"} /\ pc' = "returned"
    BY <1>2, <1>3 DEF LoopTyped
  <2>4. seen' \in Nat /\ result' \in Results
    <3>1. seen \in Nat
      BY <1>3 DEF LoopTyped
    <3> QED BY <1>2, <3>1 DEF Results, Ended
  <2> QED BY <1>4, <2>2, <2>3, <2>4 DEF LoopTyped
<1>6. StartOK' /\ PlaceOK' /\ BehindOK' /\ DepthOK' /\ WaitingIsAnswerable'
  BY <1>2, <1>3 DEF StartOK, PlaceOK, BehindOK, DepthOK, WaitingIsAnswerable, InStep, Waiting
<1>7. ActiveOK'
  <2>1. \A t \in Steps : status'[t] \in Active => AskedAhead(t)' /\ plan'.onFailure[t] = "continue"
    BY <1>2, <1>3, <1>4, LeftRunning
  <2> QED BY <1>4, <2>1 DEF ActiveOK
<1>8. SatisfiedOK' /\ DependenciesFirst'
  BY <1>2, <1>3, SatisfiedSame DEF InStep
<1>9. PendingOK' /\ ObsOK'
  BY <1>2, <1>3 DEF PendingOK, ObsOK
<1>10. LoopInv'
  BY <1>5, <1>6, <1>7, <1>8, <1>9 DEF LoopInv
<1> QED BY <1>2, <1>3, <1>10 DEF Owed

-----------------------------------------------------------------------------
(* The specification *)

\* An execution starts in the invariant.
LEMMA LoopInit ==
  ASSUME Init
  PROVE  LoopInv
<1>1. plan \in Plans /\ \A s \in Steps : s \in Nat
  BY PlanShape DEF Init
<1>2. LoopTyped
  <2>1. NoObs \in Observations
    BY DEF NoObs, Seen, Observations, Types, CallNames, Classes
  <2>2. NoCall \in FailedCalls
    BY DEF NoCall, FailedCalls, CallNames, Classes, Undecided
  <2> HIDE DEF NoObs, NoCall
  <2>3. status \in [Steps -> StepStatus] /\ result \in Results
    BY DEF Init, StepStatus, Results
  <2>4. /\ attempts \in [Steps -> Nat] /\ latest \in [Steps -> {"none", "ok", "failed"}]
        /\ failedCall \in [Steps -> FailedCalls]
    BY <2>2 DEF Init
  <2>5. /\ plan \in Plans /\ turn \in Nat /\ seen \in Nat /\ replan \in BOOLEAN /\ pc = "start"
        /\ cur \in Nat /\ at \in Nat /\ round \in Nat /\ depth \in Nat /\ resume = "no"
        /\ obs \in Observations
    BY <2>1 DEF Init
  <2>6. pending \in {NoPending} \cup
             [kind : {"action", "plan", "plan safety"}, step : Steps, call : CallNames \cup {"ask_user"}]
    BY DEF Init
  <2> QED BY ONLY <2>3, <2>4, <2>5, <2>6 DEF LoopTyped
<1>3. StartOK /\ PlaceOK /\ BehindOK /\ ActiveOK
  BY DEF Init, StartOK, PlaceOK, BehindOK, ActiveOK, InStep, Waiting, Active
<1>4. SatisfiedOK /\ PendingOK /\ ObsOK /\ DepthOK
  BY DEF Init, SatisfiedOK, PendingOK, ObsOK, DepthOK, InStep, NoPending, NoObs, Seen
<1>5. DependenciesFirst /\ WaitingIsAnswerable
  BY DEF Init, DependenciesFirst, WaitingIsAnswerable
<1> QED BY <1>2, <1>3, <1>4, <1>5 DEF LoopInv

\* The steps of the loop, by what they mean for the statuses, the result and
\* the calls that need the user's word.
LEMMA LoopStep ==
  ASSUME LoopInv, Next
  PROVE  /\ LoopInv'
         /\ pc # "returned" /\ pc' = "returned" => ResultFits
         /\ \A t \in Steps : status[t] \in Ended =>
              \/ status'[t] = status[t]
              \/ /\ status'[t] = "skipped" /\ pc = "returned" /\ pending.step \in Needs(t)
                 /\ status'[pending.step] = "cancelled"
         /\ seen' > seen /\ obs'.call \in Asked /\ obs'.class = "completed" =>
              /\ pc = "returned" /\ pending.step = at' /\ pending.call = obs'.call
              /\ pending' = NoPending
<1>0. /\ LoopTyped /\ ObsOK /\ seen \in Nat
  BY DEF LoopInv, LoopTyped
<1>1. ASSUME Owed, seen' = seen \/ obs'.call \notin Asked \/ obs'.class # "completed"
      PROVE  /\ LoopInv'
             /\ pc # "returned" /\ pc' = "returned" => ResultFits
             /\ \A t \in Steps : status[t] \in Ended => status'[t] = status[t]
             /\ ~(seen' > seen /\ obs'.call \in Asked /\ obs'.class = "completed")
  <2>1. seen' = seen => ~(seen' > seen)
    BY <1>0
  <2> QED BY <1>1, <2>1 DEF Owed
<1>2. CASE Turn \/ RetryDecided \/ FallbackDecided
  <2>1. /\ LoopInv' /\ Performed /\ pc' = "check" /\ plan' = plan /\ at' = at
        /\ pc \in {"ask", "retry", "fallback"}
    BY <1>2, ActionSteps
  <2>2. at \in Steps /\ status[at] \notin Ended
    BY <2>1 DEF LoopInv, PlaceOK, InStep
  <2>3. \A t \in Steps : status[t] \in Ended => status'[t] = status[t]
    BY <2>1, <2>2 DEF Performed
  <2>4. obs'.call \notin Asked \/ obs'.class # "completed"
    BY <2>1 DEF Performed
  <2> QED BY <2>1, <2>3, <2>4
<1>3. CASE Check
  BY <1>1, <1>3, CheckOwes
<1>4. CASE ConfirmPlan \/ CheckPlan
  BY <1>1, <1>4, ConfirmPlanOwes, CheckPlanOwes
<1>5. CASE SkipEndedStep \/ BlockStep \/ BeginStep \/ EndUnit
  BY <1>1, <1>5, SkipEndedStepOwes, BlockStepOwes, BeginStepOwes, EndUnitOwes
<1>6. CASE ApprovePlan
  BY <1>1, <1>6, ApprovePlanOwes
<1>7. CASE ApproveCall
  <2>1. /\ Owed
        /\ pc = "returned" /\ pending.call = obs'.call /\ pending' = NoPending
        /\ obs'.class = "completed" => pending.step = at'
    BY <1>7, ApproveCallOwes
  <2> QED BY <2>1 DEF Owed
<1>8. CASE ApproveQuestion
  <2>1. Owed /\ obs'.call = "none" /\ "none" \notin Asked
    BY <1>8, ApproveQuestionOwes DEF Asked
  <2> QED BY <1>1, <2>1
<1>9. CASE Reject
  <2>1. obs'.class # "completed"
    BY <1>0, <1>9, RejectKeeps DEF ObsOK
  <2> QED BY <1>9, <2>1, RejectKeeps
<1>10. CASE AnswerMismatch
  <2>1. Owed /\ obs'.class # "completed"
    BY <1>0, <1>10, AnswerMismatchOwes DEF ObsOK, AnswerMismatch, Waiting
  <2> QED BY <1>1, <2>1
<1> QED BY <1>2, <1>3, <1>4, <1>5, <1>6, <1>7, <1>8, <1>9, <1>10 DEF Next, Work, Answer

\* The invariant of the loop holds throughout an execution.
THEOREM ExecutorLoopInvariant == Spec => []LoopInv
<1>1. ASSUME LoopInv, UNCHANGED vars PROVE LoopInv'
  <2>1. /\ Steps' = Steps /\ LastUnit' = LastUnit /\ \A s : AskedAhead(s)' <=> AskedAhead(s)
        /\ \A u, s : Behind(u, s)' <=> BehindIn(status', u, s)
    BY <1>1, Fixed DEF vars
  <2>2. UNCHANGED <<plan, status, attempts, latest, failedCall, turn, seen, pending, replan,
                    pc, cur, at, round, depth, obs, resume, result>>
    BY <1>1 DEF vars
  <2>3. LoopTyped' /\ StartOK' /\ PlaceOK'
    <3>1. LoopTyped'
      BY <1>1, <2>1, <2>2 DEF LoopInv, LoopTyped
    <3>2. StartOK'
      BY <1>1, <2>1, <2>2 DEF LoopInv, StartOK
    <3>3. PlaceOK'
      BY <1>1, <2>1, <2>2 DEF LoopInv, PlaceOK, InUnit, InStep
    <3> QED BY <3>1, <3>2, <3>3
  <2>4. \A s : Reached(s)' <=> Reached(s)
    BY <2>2, Fixed DEF Reached, Behind
  <2>5. BehindOK' /\ ActiveOK'
    <3>1. \A u, s : Behind(u, s)' <=> Behind(u, s)
      BY <2>1, <2>2 DEF Behind
    <3>2. Behind(cur, at)' <=> Behind(cur, at)
      BY <2>2, <3>1
    <3>3. (Reached(at)' <=> Reached(at)) /\ (AskedAhead(at)' <=> AskedAhead(at))
      BY <2>1, <2>2, <2>4
    <3>4. /\ Reached(pending.step)' <=> Reached(pending.step)
          /\ AskedAhead(pending.step)' <=> AskedAhead(pending.step)
      BY <2>1, <2>2, <2>4
    <3>5. BehindOK'
      BY <1>1, <2>2, <3>2, <3>3, <3>4 DEF LoopInv, BehindOK, InStep, Waiting
    <3>6. ActiveOK'
      BY <1>1, <2>1, <2>2, <2>4 DEF LoopInv, ActiveOK, InStep
    <3> QED BY <3>5, <3>6
  <2>6. SatisfiedOK' /\ PendingOK' /\ ObsOK' /\ DepthOK'
    BY <1>1, <2>2 DEF LoopInv, SatisfiedOK, Satisfied, AskedAhead, Steps, InStep, PendingOK, ObsOK, DepthOK
  <2>7. DependenciesFirst' /\ WaitingIsAnswerable'
    BY <1>1, <2>2 DEF LoopInv, DependenciesFirst, AskedAhead, Steps, WaitingIsAnswerable
  <2> QED BY <2>3, <2>5, <2>6, <2>7 DEF LoopInv
<1>2. LoopInv /\ [Next]_vars => LoopInv'
  BY <1>1, LoopStep
<1> QED BY LoopInit, <1>2, PTL DEF Spec


\* The user is asked about the step that waits.
THEOREM ExecutorLoopWaitingIsAnswerable == Spec => []WaitingIsAnswerable
<1>1. LoopInv => WaitingIsAnswerable
  BY DEF LoopInv
<1> QED BY <1>1, ExecutorLoopInvariant, PTL

\* A step that runs or has run found what it depends on done, unless the user
\* approved it before its turn.
THEOREM ExecutorLoopDependenciesFirst == Spec => []DependenciesFirst
<1>1. LoopInv => DependenciesFirst
  BY DEF LoopInv
<1> QED BY <1>1, ExecutorLoopInvariant, PTL

\* A call that needs the user's word succeeds only in the step in which the user
\* approves that call of that step.
THEOREM ExecutorLoopAskedRunsOnlyOnApproval == Spec => AskedRunsOnlyOnApproval
<1> DEFINE A == seen' > seen /\ obs'.call \in Asked /\ obs'.class = "completed"
                  => pc = "returned" /\ pending.step = at' /\ pending.call = obs'.call
                     /\ pending' = NoPending
<1>1. LoopInv /\ [Next]_vars => [A]_vars
  BY LoopStep
<1>2. Spec => [][A]_vars
  <2> HIDE DEF A
  <2> QED BY <1>1, ExecutorLoopInvariant, PTL DEF Spec
<1> QED BY <1>2 DEF AskedRunsOnlyOnApproval

\* An ended step keeps its end, but for the rejection of a step it needs.
THEOREM ExecutorLoopStepsEndOnce == Spec => StepsEndOnce
<1> DEFINE A == \A s \in Steps : status[s] \in Ended =>
                  \/ status'[s] = status[s]
                  \/ /\ status'[s] = "skipped" /\ pc = "returned" /\ pending.step \in Needs(s)
                     /\ status'[pending.step] = "cancelled"
<1>1. LoopInv /\ [Next]_vars => [A]_vars
  BY LoopStep
<1>2. Spec => [][A]_vars
  <2> HIDE DEF A
  <2> QED BY <1>1, ExecutorLoopInvariant, PTL DEF Spec
<1> QED BY <1>2 DEF StepsEndOnce

\* The result an execution comes back with agrees with its steps.
THEOREM ExecutorLoopResultMatchesSteps == Spec => ResultMatchesSteps
<1> DEFINE A == pc # "returned" /\ pc' = "returned" => ResultFits
<1>1. LoopInv /\ [Next]_vars => [A]_vars
  BY LoopStep
<1>2. Spec => [][A]_vars
  <2> HIDE DEF A
  <2> QED BY <1>1, ExecutorLoopInvariant, PTL DEF Spec
<1> QED BY <1>2 DEF ResultMatchesSteps, ResultFits

=============================================================================
