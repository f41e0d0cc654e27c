--------------------------- MODULE ModelCallProofs ---------------------------
(* Proofs about ModelCall for any number of threads and calls, any providers,    *)
(* configurations and answers: a candidate that cools down is left alone, and a  *)
(* call that may fall back gives up only when nobody is left to be asked.  Both  *)
(* hold of the calls whose candidates are called with the credential and the     *)
(* model they are looked up by: the health of a candidate is kept by the one and *)
(* read by the other.                                                            *)
EXTENDS ModelCall, WellFoundedInduction, TLAPS

(***************************** one route of a call *****************************)
UsableNow(r, c, excluded, on, h) ==
    /\ c.enabled /\ c.conf \in on
    /\ Lookup(r, c) \notin excluded /\ IsAvailable(h, Lookup(r, c))

\* A set of numbers that is not empty has a least one, which Min is.
LEMMA MinIsIn ==
    ASSUME NEW S \in SUBSET Nat, S # {}
    PROVE  Min(S) \in S
<1> DEFINE R == {p \in Nat \X Nat : p[1] < p[2]}
<1>1. IsWellFoundedOn(R, Nat)
  BY NatLessThanWellFounded DEF OpToRel
<1>2. PICK n \in S : \A m \in S : <<m, n>> \notin R
  <2> HIDE DEF R
  <2> QED BY <1>1, WFMin
<1>3. ASSUME NEW m \in S PROVE n <= m
  <2>1. m \in Nat /\ n \in Nat /\ ~(m < n)
    BY <1>2
  <2> QED BY <2>1
<1> QED BY <1>3 DEF Min

(********************************* the choice **********************************)
\* The candidate of a call may be taken, and is its route's.
LEMMA FirstIsUsable ==
    ASSUME NEW o, o.route \in Routes, NEW excluded, NEW on, NEW h,
           FirstEnabled(o, excluded, on, h) # None
    PROVE  /\ o.conf = None
           /\ FirstEnabled(o, excluded, on, h) \in Listed(o.route)
           /\ UsableNow(o.route, FirstEnabled(o, excluded, on, h), excluded, on, h)
<1> DEFINE usable == UsableAt(o.route, excluded, on, h)
<1>1. o.conf = None /\ usable # {}
  BY DEF FirstEnabled
<1>2. Candidates[o.route] \in Seq(Listed(o.route))
  BY RouterAssumption
<1>3. usable \in SUBSET Nat
  BY <1>2 DEF UsableAt
<1>4. Min(usable) \in usable
  <2> HIDE DEF usable
  <2> QED BY <1>1, <1>3, MinIsIn
<1>5. FirstEnabled(o, excluded, on, h) = Candidates[o.route][Min(usable)]
  BY <1>1 DEF FirstEnabled
<1> HIDE DEF usable
<1>6. PICK i \in usable : i = Min(usable)
  BY <1>4
<1>7. /\ i \in DOMAIN Candidates[o.route]
      /\ UsableNow(o.route, Candidates[o.route][i], excluded, on, h)
  BY <1>6 DEF usable, UsableAt, UsableNow
<1> QED BY <1>1, <1>5, <1>6, <1>7 DEF Listed

\* Without one, none of the route may be taken.
LEMMA NoneIsUsable ==
    ASSUME NEW o, o.route \in Routes, o.conf = None, NEW excluded, NEW on, NEW h,
           FirstEnabled(o, excluded, on, h) = None, NEW c \in Listed(o.route)
    PROVE  ~UsableNow(o.route, c, excluded, on, h)
<1> SUFFICES ASSUME UsableNow(o.route, c, excluded, on, h) PROVE FALSE
  OBVIOUS
<1> DEFINE usable == UsableAt(o.route, excluded, on, h)
<1>1. PICK i \in DOMAIN Candidates[o.route] : c = Candidates[o.route][i]
  BY DEF Listed
<1>2. i \in usable
  BY <1>1 DEF UsableAt, UsableNow
<1>3. Candidates[o.route] \in Seq(Listed(o.route)) /\ None \notin Listed(o.route)
  BY RouterAssumption
<1>4. usable \in SUBSET Nat
  BY <1>3 DEF UsableAt
<1>5. Min(usable) \in usable
  <2> HIDE DEF usable
  <2> QED BY <1>2, <1>4, MinIsIn
<1>6. FirstEnabled(o, excluded, on, h) = Candidates[o.route][Min(usable)]
  BY <1>2 DEF FirstEnabled
<1>7. Min(usable) \in DOMAIN Candidates[o.route]
  BY <1>5 DEF UsableAt
<1> HIDE DEF usable
<1> QED BY <1>3, <1>6, <1>7 DEF Listed

(********************************* the invariant *******************************)
Chosen  == (UNION {Listed(r) : r \in Routes}) \cup {None}
Targets == {TargetOf(Asked(j), c) : j \in Calls, c \in Chosen}
Results == {Resolution(Asked(j), n, c, g) :
               j \in Calls, n \in Nat, c \in Chosen,
               g \in Targets}
Chunks == [kind : {"text", "failure"}, final : BOOLEAN]

Doing == [pc : {"idle", "route", "wait", "settle", "parse", "stream", "embed", "over"},
          job : Calls \cup {None}, part : Nat, repairs : Nat, chars : Nat,
          excluded : SUBSET Targets, tried : SUBSET Targets, res : Results \cup {None},
          attempt : Nat, code : Codes, out : Seq(Chunks), held : {"text", "failure", None}]

\* A thread that works has a call, and is at one of its parts.
WorkOK(w) == w.pc # "idle" => w.job \in Calls /\ w.part \in 1..Len(w.job.sizes)

\* Who was tried was excluded, but for the one that is being asked; only a call that
\* leaves the choice to its route, and is no stream and no embedding, tries a second.
TriedOK(w) ==
    /\ w.pc = "route" => w.tried = w.excluded
    /\ w.pc \in {"wait", "settle"} => w.tried = w.excluded \cup {w.res.target}
    /\ w.pc = "route" /\ w.tried # {} => LeavesChoice(w.job)
    /\ w.pc \in {"wait", "settle"} \/ (w.pc = "route" /\ w.tried # {}) =>
          w.job.goal \notin {"stream", "embed"}

\* The candidate that is asked was not excluded.
AskedOK(w) ==
    w.pc \in {"wait", "settle"} /\ LeavesChoice(w.job) /\ w.res.cand # None
        /\ CalledAsLookedUp(w.job) => w.res.target \notin w.excluded

Fine(w) == w \in Doing /\ WorkOK(w) /\ TriedOK(w) /\ AskedOK(w)

CallInv == th \in [Threads -> Doing] /\ \A t \in Threads : Fine(th[t])

(********************************* its steps ***********************************)
LEMMA IdleFine == Fine(Idle)
<1>1. None \notin Calls /\ {} \in SUBSET Targets /\ <<>> \in Seq(Chunks) /\ "ok" \in Codes
  BY CallAssumption DEF Codes
<1> QED BY <1>1 DEF Fine, Doing, WorkOK, TriedOK, AskedOK, Idle

LEMMA InitFine == Init => CallInv
<1> SUFFICES ASSUME Init PROVE CallInv
  OBVIOUS
<1>1. th = [t \in Threads |-> Idle]
  BY DEF Init
<1>2. Idle \in Doing
  BY IdleFine DEF Fine
<1> QED BY <1>1, <1>2, IdleFine DEF CallInv

\* What one thread becomes is all that a step of it changes.
LEMMA BecomeFine ==
    ASSUME CallInv, NEW t \in Threads, NEW w, Fine(w), Become(t, w)
    PROVE  CallInv' /\ th'[t] = w /\ \A u \in Threads \ {t} : th'[u] = th[u]
<1>1. th \in [Threads -> Doing] /\ w \in Doing
  BY DEF CallInv, Fine
<1>2. /\ th' \in [Threads -> Doing] /\ th'[t] = w
      /\ \A u \in Threads \ {t} : th'[u] = th[u]
  BY <1>1 DEF Become
<1>3. \A u \in Threads : Fine(th'[u])
  BY <1>2 DEF CallInv
<1>4. CallInv'
  BY <1>2, <1>3 DEF CallInv, Fine, WorkOK, TriedOK, AskedOK
<1> QED BY <1>2, <1>4

\* A generate begins with nobody tried.
LEMMA PromptedFine ==
    ASSUME NEW w \in Doing, w.job \in Calls, w.part \in 1..Len(w.job.sizes), NEW n \in Nat
    PROVE  Fine(Prompted(w, n))
<1>1. {} \in SUBSET Targets /\ "ok" \in Codes
  BY DEF Codes
<1>2. Prompted(w, n) \in Doing
  BY <1>1 DEF Prompted, Doing
<1>3. /\ Prompted(w, n).pc = "route" /\ Prompted(w, n).job = w.job
      /\ Prompted(w, n).part = w.part
      /\ Prompted(w, n).excluded = {} /\ Prompted(w, n).tried = {}
  BY DEF Prompted, Doing
<1> QED BY <1>2, <1>3 DEF Fine, WorkOK, TriedOK, AskedOK

\* A prompt of a call has a length.
LEMMA SizeType ==
    ASSUME NEW j \in Calls, NEW n \in 1..Len(j.sizes)
    PROVE  j.sizes[n] \in Nat /\ Len(j.sizes) \in Nat
BY CallAssumption

LEMMA BeginFine ==
    ASSUME CallInv, NEW t \in Threads, NEW j \in Calls, Begin(t, j)
    PROVE  \E w : Fine(w) /\ Become(t, w)
<1> DEFINE w == [Idle EXCEPT !.job = j, !.part = 1]
<1>1. j.sizes \in Seq(Nat) /\ j.sizes # <<>>
  BY CallAssumption
<1>2. Head(j.sizes) \in Nat /\ 1 \in 1..Len(j.sizes)
  BY <1>1
<1>3. w \in Doing /\ w.job = j /\ w.part = 1
  BY IdleFine DEF Fine, Doing, Idle
<1>4. Fine(Prompted(w, Head(j.sizes)))
  <2> HIDE DEF w
  <2> QED BY <1>2, <1>3, PromptedFine
<1> QED BY <1>4 DEF Begin

(* A call of a stream or an embedding may name the manager's configuration itself. *)
LEMMA AskedSame ==
    ASSUME NEW j \in Calls, j.goal # "embed" \/ Asked(j).conf = None
    PROVE  Asked(j) = j
<1>1. DefaultConf # None /\ "conf" \in DOMAIN j
  BY RouterAssumption, CallAssumption
<1> QED BY <1>1 DEF Asked

LEMMA AskedRoute ==
    ASSUME NEW j \in Calls
    PROVE  Asked(j).route = j.route /\ Asked(j).route \in Routes
BY CallAssumption DEF Asked

\* What a route leads to, told of the record the thread has then.
Routed(w, cand, r) ==
    [w EXCEPT !.res = r, !.attempt = 1, !.tried = @ \cup {r.target},
              !.pc = IF w.job.goal \in {"stream", "embed"} THEN w.job.goal ELSE "wait"]

\* The candidate that is asked is the one that was looked up, and may be taken.
LEMMA RouteTakes ==
    ASSUME NEW j \in Calls, NEW excluded, NEW on, NEW h,
           FirstEnabled(Asked(j), excluded, on, h) # None, CalledAsLookedUp(j)
    PROVE  LET c == FirstEnabled(Asked(j), excluded, on, h) IN
           /\ c \in Listed(j.route) /\ c.conf \in DOMAIN Confs
           /\ UsableNow(j.route, c, excluded, on, h)
           /\ TargetOf(Asked(j), c) = Lookup(j.route, c)
           /\ TargetOf(Asked(j), c).conf = c.conf
<1> DEFINE c == FirstEnabled(Asked(j), excluded, on, h)
<1>1. Asked(j).route = j.route /\ j.route \in Routes
  BY AskedRoute
<1>2. /\ Asked(j).conf = None
      /\ c \in Listed(j.route)
      /\ UsableNow(j.route, c, excluded, on, h)
  BY <1>1, FirstIsUsable
<1>3. Asked(j) = j
  BY <1>2, AskedSame
<1>4. TargetOf(Asked(j), c) = Resolved(j.route, c, j)
  BY <1>3 DEF TargetOf
<1>5. Lookup(j.route, c) = Resolved(j.route, c, j)
  BY <1>2 DEF CalledAsLookedUp
<1>6. Lookup(j.route, c).conf = c.conf
  BY DEF Lookup, Target
<1>7. c.conf \in DOMAIN Confs
  BY <1>1, <1>2, RouterAssumption
<1> QED BY <1>2, <1>4, <1>5, <1>6, <1>7

LEMMA RouteFine ==
    ASSUME CallInv, NEW t \in Threads, Route(t)
    PROVE  \E w : Fine(w) /\ Become(t, w)
<1> DEFINE w == th[t]
           j == w.job
           cand == FirstEnabled(Asked(j), w.excluded, enabled, health)
           target == TargetOf(Asked(j), cand)
           r == Resolution(Asked(j), w.chars, cand, target)
<1>1. w \in Doing /\ w.pc = "route" /\ Fine(w)
  BY DEF CallInv, Route, Fine
<1>2. j \in Calls /\ w.part \in 1..Len(j.sizes)
  BY <1>1 DEF Fine, WorkOK
<1>3. \/ Become(t, Idle)
      \/ /\ Become(t, Routed(w, cand, r))
         /\ ~(w.excluded # {} /\ r.cand = None)
  BY DEF Route, GenerateFailed, Routed
<1>4. ASSUME ~(w.excluded # {} /\ r.cand = None) PROVE Fine(Routed(w, cand, r))
  <2>1. Asked(j).route = j.route /\ j.route \in Routes
    BY <1>2, AskedRoute
  <2>2. cand \in Chosen
    <3>1. cand # None => cand \in Listed(j.route)
      BY <2>1, FirstIsUsable
    <3> HIDE DEF cand
    <3> QED BY <2>1, <3>1 DEF Chosen
  <2> DEFINE pc == IF j.goal \in {"stream", "embed"} THEN j.goal ELSE "wait"
             v == Routed(w, cand, r)
  <2>3. target \in Targets
    BY <1>2, <2>2 DEF Targets
  <2>4. r \in Results
    <3>1. w.chars \in Nat
      BY <1>1 DEF Doing
    <3> HIDE DEF cand, target, j, w
    <3> QED BY <1>2, <2>2, <2>3, <3>1 DEF Results
  <2>5. r.target = target /\ r.cand = cand
    BY DEF Resolution
  <2>6. pc \in {"stream", "embed", "wait"}
    OBVIOUS
  <2> HIDE DEF r, pc, target, cand
  <2>7. /\ v \in Doing /\ v.pc = pc /\ v.job = j /\ v.part = w.part /\ v.res = r
        /\ v.excluded = w.excluded /\ v.tried = w.tried \cup {target}
    BY <1>1, <2>3, <2>4, <2>5, <2>6 DEF Doing, Routed, pc
  <2>8. WorkOK(v)
    BY <1>2, <2>7 DEF WorkOK
  <2>9. TriedOK(v)
    <3>1. w.tried = w.excluded
      BY <1>1 DEF Fine, TriedOK
    <3>2. v.pc = "wait" => j.goal \notin {"stream", "embed"}
      BY <2>7 DEF pc
    <3> QED BY <2>5, <2>6, <2>7, <3>1, <3>2 DEF TriedOK
  <2>10. AskedOK(v)
    <3> SUFFICES ASSUME v.pc = "wait", cand # None, CalledAsLookedUp(j)
                 PROVE  target \notin w.excluded
      BY <2>5, <2>6, <2>7 DEF AskedOK
    <3> QED BY <1>2, RouteTakes DEF cand, target, UsableNow
  <2> QED BY <2>7, <2>8, <2>9, <2>10 DEF Fine
<1> QED BY <1>3, <1>4, IdleFine

LEMMA AttemptFine ==
    ASSUME CallInv, NEW t \in Threads, Answer(t) \/ Expire(t)
    PROVE  \E w : Fine(w) /\ Become(t, w)
<1> DEFINE w == th[t]
<1>1. w \in Doing /\ w.pc = "wait" /\ Fine(w)
  BY DEF CallInv, Answer, Expire, Fine
<1>2. PICK code \in Codes : Conclude(t, code)
  <2>1. "busy" \in Codes /\ Outcomes \subseteq Codes
    BY CallAssumption DEF Codes
  <2> QED BY <2>1 DEF Answer, Expire
<1> DEFINE again == [w EXCEPT !.attempt = @ + 1]
           over  == [w EXCEPT !.pc = "settle", !.code = code]
<1>3. Become(t, again) \/ Become(t, over)
  BY <1>2 DEF Conclude
<1>4. /\ again \in Doing /\ again.pc = "wait" /\ over \in Doing /\ over.pc = "settle"
      /\ again.job = w.job /\ again.part = w.part /\ again.res = w.res
      /\ again.excluded = w.excluded /\ again.tried = w.tried
      /\ over.job = w.job /\ over.part = w.part /\ over.res = w.res
      /\ over.excluded = w.excluded /\ over.tried = w.tried
  <2>1. w \in Doing /\ w.pc = "wait" /\ w.attempt + 1 \in Nat /\ code \in Codes
    BY <1>1 DEF Doing
  <2> HIDE DEF w
  <2> QED BY ONLY <2>1 DEF Doing
<1>5. Fine(again) /\ Fine(over)
  <2> HIDE DEF again, over, w
  <2> QED BY <1>1, <1>4 DEF Fine, WorkOK, TriedOK, AskedOK
<1> QED BY <1>3, <1>5

LEMMA SettleFine ==
    ASSUME CallInv, NEW t \in Threads, Settle(t)
    PROVE  \E w : Fine(w) /\ Become(t, w)
<1> DEFINE w == th[t]
           g == w.res.target
           next  == [w EXCEPT !.pc = "route", !.excluded = @ \cup {g}]
           parse == [w EXCEPT !.pc = "parse"]
<1>1. w \in Doing /\ w.pc = "settle" /\ Fine(w)
  BY DEF CallInv, Settle, Fine
<1>2. \/ Become(t, Idle)
      \/ Become(t, parse)
      \/ MayFallBack(t, w.code) /\ Become(t, next)
  BY DEF Settle, GenerateDone, GenerateFailed
<1>3. w.tried = w.excluded \cup {g} /\ w.tried \in SUBSET Targets
  BY <1>1 DEF Fine, TriedOK, Doing
<1>4. parse \in Doing /\ parse.pc = "parse" /\ parse.job = w.job /\ parse.part = w.part
  BY <1>1 DEF Doing
<1>5. Fine(parse)
  <2> HIDE DEF parse, w
  <2> QED BY <1>1, <1>4 DEF Fine, WorkOK, TriedOK, AskedOK
<1>6. /\ next \in Doing /\ next.pc = "route" /\ next.job = w.job /\ next.part = w.part
      /\ next.excluded = w.excluded \cup {g} /\ next.tried = w.tried
  <2>1. w.excluded \cup {g} \in SUBSET Targets
    BY <1>3
  <2> HIDE DEF g
  <2> QED BY <1>1, <2>1 DEF Doing
<1>7. ASSUME MayFallBack(t, w.code) PROVE Fine(next)
  <2>1. LeavesChoice(w.job)
    BY <1>7 DEF MayFallBack, LeavesChoice
  <2> HIDE DEF next, w
  <2> QED BY <1>1, <1>3, <1>6, <2>1 DEF Fine, WorkOK, TriedOK, AskedOK
<1> QED BY <1>2, <1>5, <1>7, IdleFine

LEMMA ParseFine ==
    ASSUME CallInv, NEW t \in Threads, Accept(t) \/ Repair(t) \/ Reject(t)
    PROVE  \E w : Fine(w) /\ Become(t, w)
<1> DEFINE w == th[t]
           j == w.job
           onward == [w EXCEPT !.part = @ + 1, !.repairs = 0]
           again  == [w EXCEPT !.repairs = @ + 1]
<1>1. w \in Doing /\ w.pc = "parse" /\ j \in Calls /\ w.part \in 1..Len(j.sizes)
  BY DEF CallInv, Accept, Repair, Reject, Parsing, Fine, WorkOK
<1>2. Len(j.sizes) \in Nat /\ \A n \in 1..Len(j.sizes) : j.sizes[n] \in Nat
  BY <1>1, SizeType
<1>3. CASE Accept(t)
  <2>1. \/ Become(t, Idle)
        \/ w.part # Len(j.sizes) /\ Become(t, Prompted(onward, j.sizes[w.part + 1]))
    BY <1>3 DEF Accept
  <2>2. ASSUME w.part # Len(j.sizes) PROVE Fine(Prompted(onward, j.sizes[w.part + 1]))
    <3>1. w.part + 1 \in 1..Len(j.sizes)
      BY <1>1, <1>2, <2>2
    <3>2. j.sizes[w.part + 1] \in Nat
      BY <1>2, <3>1
    <3>3. onward \in Doing /\ onward.job = j /\ onward.part = w.part + 1
      <4>1. w \in Doing /\ w.part + 1 \in Nat
        BY <1>1 DEF Doing
      <4> QED BY ONLY <4>1 DEF Doing
    <3> HIDE DEF onward, j, w
    <3> QED BY <1>1, <3>1, <3>2, <3>3, PromptedFine
  <2> QED BY <2>1, <2>2, IdleFine
<1>4. CASE Repair(t)
  <2>1. Become(t, Prompted(again, j.sizes[w.part] + RepairExtra))
    BY <1>4 DEF Repair
  <2>2. j.sizes[w.part] + RepairExtra \in Nat
    <3>1. RepairExtra \in Nat
      BY CallAssumption
    <3>2. j.sizes[w.part] \in Nat
      BY <1>1, <1>2
    <3> QED BY ONLY <3>1, <3>2
  <2>3. again \in Doing /\ again.job = j /\ again.part = w.part
    <3>1. w \in Doing /\ w.repairs + 1 \in Nat
      BY <1>1 DEF Doing
    <3> QED BY ONLY <3>1 DEF Doing
  <2> HIDE DEF again, j, w
  <2> QED BY <1>1, <2>1, <2>2, <2>3, PromptedFine
<1>5. CASE Reject(t)
  BY <1>5, IdleFine DEF Reject
<1> QED BY <1>3, <1>4, <1>5

LEMMA StreamFine ==
    ASSUME CallInv, NEW t \in Threads,
           StreamChunk(t) \/ StreamEnd(t) \/ StreamBreak(t) \/ Return(t)
    PROVE  \E w : Fine(w) /\ Become(t, w)
<1> DEFINE w == th[t]
<1>1. w \in Doing /\ (w.pc # "idle" => w.job \in Calls /\ w.part \in 1..Len(w.job.sizes))
  BY DEF CallInv, Fine, WorkOK
<1>2. \A kind \in {"text", "failure"} : \A final \in BOOLEAN :
          Append(w.out, Chunk(kind, final)) \in Seq(Chunks)
  <2>1. w.out \in Seq(Chunks)
    BY <1>1 DEF Doing
  <2>2. \A kind \in {"text", "failure"} : \A final \in BOOLEAN : Chunk(kind, final) \in Chunks
    BY DEF Chunk, Chunks
  <2> QED BY <2>1, <2>2
<1>3. w.held \in {"text", "failure", None} /\ w.out \in Seq(Chunks)
  BY <1>1 DEF Doing
<1>4. CASE StreamChunk(t)
  <2>1. PICK kind \in Kinds(w.held) :
          Become(t, [w EXCEPT !.held = kind,
                       !.out = IF w.held = None THEN @ ELSE Append(@, Chunk(w.held, FALSE))])
    BY <1>4 DEF StreamChunk
  <2> DEFINE out == IF w.held = None THEN w.out ELSE Append(w.out, Chunk(w.held, FALSE))
             v == [w EXCEPT !.held = kind, !.out = out]
  <2>2. out \in Seq(Chunks) /\ kind \in {"text", "failure"}
    BY <1>2, <1>3, <2>1 DEF Kinds
  <2>3. Become(t, v)
    BY <2>1
  <2>4. w.pc = "stream"
    BY <1>4 DEF StreamChunk
  <2>5. v \in Doing /\ v.pc = "stream" /\ v.job = w.job /\ v.part = w.part
    <3> HIDE DEF out
    <3> QED BY <1>1, <2>2, <2>4 DEF Doing
  <2> HIDE DEF v, w
  <2> QED BY <1>1, <2>3, <2>4, <2>5 DEF Fine, WorkOK, TriedOK, AskedOK
<1>5. CASE StreamEnd(t) \/ StreamBreak(t)
  <2>1. PICK out \in Seq(Chunks) : Become(t, [w EXCEPT !.pc = "over", !.held = None, !.out = out])
    <3>1. CASE StreamEnd(t)
      <4> DEFINE kind == IF w.held = None THEN "text" ELSE w.held
      <4>1. kind \in {"text", "failure"}
        BY <1>3
      <4>2. Append(w.out, Chunk(kind, TRUE)) \in Seq(Chunks)
        <5> HIDE DEF kind
        <5> QED BY <1>2, <4>1
      <4>3. Become(t, [w EXCEPT !.pc = "over", !.held = None,
                                !.out = Append(w.out, Chunk(kind, TRUE))])
        BY <3>1 DEF StreamEnd
      <4> QED BY <4>2, <4>3
    <3>2. CASE StreamBreak(t)
      <4>1. Become(t, [w EXCEPT !.pc = "over", !.held = None,
                                !.out = Append(w.out, Chunk("failure", TRUE))])
        BY <3>2 DEF StreamBreak
      <4> QED BY <1>2, <4>1
    <3> QED BY <1>5, <3>1, <3>2
  <2> DEFINE v == [w EXCEPT !.pc = "over", !.held = None, !.out = out]
  <2>2. v \in Doing /\ v.pc = "over" /\ v.job = w.job /\ v.part = w.part
    BY <1>1 DEF Doing
  <2>3. w.pc = "stream"
    BY <1>5 DEF StreamEnd, StreamBreak
  <2>4. Fine(v)
    <3> HIDE DEF v, w
    <3> QED BY <1>1, <2>2, <2>3 DEF Fine, WorkOK, TriedOK, AskedOK
  <2> QED BY <2>1, <2>4
<1>6. CASE Return(t)
  BY <1>6, IdleFine DEF Return
<1> QED BY <1>4, <1>5, <1>6 DEF StreamChunk

\* The steps of a thread, and those that leave every thread alone.
OwnStep(t) == \/ \E j \in Calls : Begin(t, j)
              \/ Work(t) \/ Answer(t)
              \/ StreamChunk(t) \/ StreamEnd(t) \/ StreamBreak(t) \/ Return(t)

LEMMA NextSplit ==
    ASSUME [Next]_vars
    PROVE  (\E t \in Threads : OwnStep(t)) \/ UNCHANGED th
<1>1. CASE UNCHANGED vars
  BY <1>1 DEF vars
<1>2. CASE Next
  BY <1>2 DEF Next, OwnStep, Switch, Tick
<1> QED BY <1>1, <1>2

LEMMA OwnStepFine ==
    ASSUME CallInv, NEW t \in Threads, OwnStep(t)
    PROVE  \E w : Fine(w) /\ Become(t, w)
<1>1. CASE \E j \in Calls : Begin(t, j)
  BY <1>1, BeginFine
<1>2. CASE Route(t)
  BY <1>2, RouteFine
<1>3. CASE Answer(t) \/ Expire(t)
  BY <1>3, AttemptFine
<1>4. CASE Settle(t)
  BY <1>4, SettleFine
<1>5. CASE Accept(t) \/ Repair(t) \/ Reject(t)
  BY <1>5, ParseFine
<1>6. CASE StreamChunk(t) \/ StreamEnd(t) \/ StreamBreak(t) \/ Return(t)
  BY <1>6, StreamFine
<1> QED BY <1>1, <1>2, <1>3, <1>4, <1>5, <1>6 DEF OwnStep, Work

LEMMA StepFine == CallInv /\ [Next]_vars => CallInv'
<1> SUFFICES ASSUME CallInv, [Next]_vars PROVE CallInv'
  OBVIOUS
<1>1. CASE UNCHANGED th
  BY <1>1 DEF CallInv, Fine, WorkOK, TriedOK, AskedOK
<1>2. ASSUME NEW t \in Threads, OwnStep(t) PROVE CallInv'
  <2>1. PICK w : Fine(w) /\ Become(t, w)
    BY <1>2, OwnStepFine
  <2> QED BY <2>1, BecomeFine
<1> QED BY <1>1, <1>2, NextSplit

\* The inductive invariant: each thread is at a part of its call, whom it tried is whom
\* it excluded and the one it asks, and it never asks one again that it excluded
\* (generate, _prepare_call).
THEOREM CallInvariant == Spec => []CallInv
<1> QED BY InitFine, StepFine, PTL DEF Spec

(****************************** the two properties *****************************)
\* A step of one thread leaves the others where they are.
LEMMA OthersStay ==
    ASSUME CallInv, NEW t \in Threads, OwnStep(t), NEW u \in Threads \ {t}
    PROVE  th'[u] = th[u]
<1>1. PICK w : Fine(w) /\ Become(t, w)
  BY OwnStepFine
<1> QED BY <1>1, BecomeFine

LEMMA RouteBecomes ==
    ASSUME CallInv, NEW t \in Threads, Route(t)
    PROVE  LET j      == th[t].job
               cand   == FirstEnabled(Asked(j), th[t].excluded, enabled, health)
               target == TargetOf(Asked(j), cand)
               r      == Resolution(Asked(j), th[t].chars, cand, target) IN
           IF Refused(j, r) \/ (th[t].excluded # {} /\ cand = None)
           THEN th'[t] = Idle
           ELSE th'[t].res = r /\ th'[t].pc # "idle" /\ r.cand = cand /\ r.target = target
<1> DEFINE w == th[t]
           j == w.job
           cand == FirstEnabled(Asked(j), w.excluded, enabled, health)
           target == TargetOf(Asked(j), cand)
           r == Resolution(Asked(j), w.chars, cand, target)
<1>1. th \in [Threads -> Doing] /\ w \in Doing
  BY DEF CallInv
<1>2. r.cand = cand /\ r.target = target
  BY DEF Resolution
<1>3. IF Refused(j, r) \/ (w.excluded # {} /\ r.cand = None)
      THEN Become(t, Idle) ELSE Become(t, Routed(w, cand, r))
  BY DEF Route, GenerateFailed, Routed
<1>4. \A v : Become(t, v) => th'[t] = v
  BY <1>1 DEF Become
<1> HIDE DEF r, cand, target
<1>5. Routed(w, cand, r).res = r /\ Routed(w, cand, r).pc # "idle"
  BY <1>1 DEF Routed, Doing
<1> QED BY <1>2, <1>3, <1>4, <1>5 DEF r, cand, target

LEMMA CoolingStep ==
    ASSUME \A j \in Calls : Asked(j).conf = None => CalledAsLookedUp(j),
           CallInv, [Next]_vars, NEW t \in Threads,
           th[t].pc = "route", th'[t].pc \in {"wait", "stream", "embed"},
           th'[t].res.cand # None
    PROVE  IsAvailable(health, th'[t].res.target)
<1> DEFINE j == th[t].job
           cand == FirstEnabled(Asked(j), th[t].excluded, enabled, health)
           target == TargetOf(Asked(j), cand)
<1>1. OwnStep(t)
  <2>1. th'[t] # th[t]
    OBVIOUS
  <2> QED BY <2>1, NextSplit, OthersStay
<1>2. Route(t)
  BY <1>1 DEF OwnStep, Begin, Work, Answer, Expire, Settle, Accept, Repair, Reject, Parsing,
              StreamChunk, StreamEnd, StreamBreak, Return
<1>3. j \in Calls
  BY DEF CallInv, Fine, WorkOK
<1>4. th'[t] # Idle
  BY DEF Idle
<1>5. th'[t].res.cand = cand /\ th'[t].res.target = target
  BY <1>2, <1>4, RouteBecomes
<1>6. Asked(j).conf = None
  BY <1>3, <1>5, AskedRoute, FirstIsUsable
<1>7. UsableNow(j.route, cand, th[t].excluded, enabled, health) /\ target = Lookup(j.route, cand)
  BY <1>3, <1>5, <1>6, RouteTakes
<1> QED BY <1>5, <1>7 DEF UsableNow

\* No call reaches a candidate that is cooling down or whose circuit is open, for any
\* threads, failures and times, provided calls that choose by their route call its
\* candidates with the credential and the model they are looked up by
\* (_first_enabled_candidate, record_failure).
THEOREM CoolingStaysAlone ==
    ASSUME \A j \in Calls : Asked(j).conf = None => CalledAsLookedUp(j)
    PROVE  Spec => CoolingIsLeftAlone
<1>1. CallInv /\ [Next]_vars =>
        [\A t \in Threads :
          th[t].pc = "route" /\ th'[t].pc \in {"wait", "stream", "embed"}
              /\ th'[t].res.cand # None =>
                  IsAvailable(health, th'[t].res.target)]_vars
  BY CoolingStep
<1> QED BY <1>1, CallInvariant, PTL DEF Spec, CoolingIsLeftAlone

\* Whom a call that gives up could still have asked.
LeftOver(t) ==
    {c \in Listed(th[t].job.route) :
        LET g == Resolved(th[t].job.route, c, th[t].job) IN
        /\ c.enabled /\ c.conf \in enabled
        /\ g \notin th[t].tried
        /\ IsAvailable(health, g)}

LEMMA GivesUpStep ==
    ASSUME \A j \in Calls : LeavesChoice(j) => CalledAsLookedUp(j),
           CallInv, [Next]_vars, NEW t \in Threads, GivesUp(t), th'[t].pc = "idle"
    PROVE  \/ LeftOver(t) = {}
           \/ \E c \in LeftOver(t) : ~th[t].job.truncate /\ TooLong(c.conf, th[t].chars)
<1> DEFINE w == th[t]
           j == w.job
<1>1. /\ w \in Doing /\ Fine(w) /\ w.pc \in {"route", "settle"} /\ w.tried # {}
      /\ w.code # "ok" /\ MayFallBack(t, w.code) /\ w.res.cand # None
      /\ LeavesChoice(j)
  BY DEF CallInv, GivesUp, MayFallBack, LeavesChoice, Fine
<1>2. j \in Calls /\ CalledAsLookedUp(j) /\ j.goal \notin {"stream", "embed"}
  BY <1>1 DEF Fine, WorkOK, TriedOK
<1>3. Asked(j) = j /\ j.route \in Routes /\ j.conf = None
  BY <1>1, <1>2, AskedSame, CallAssumption DEF LeavesChoice
<1>4. OwnStep(t)
  <2>1. th'[t] # th[t]
    BY <1>1
  <2> QED BY <2>1, NextSplit, OthersStay
<1>5. CASE Settle(t)
  <2>1. w.pc = "settle" /\ w.res.target \notin w.excluded
    BY <1>1, <1>2, <1>5 DEF Settle, Fine, AskedOK
  <2>2. Become(t, [w EXCEPT !.pc = "route", !.excluded = @ \cup {w.res.target}])
    BY <1>1, <1>5, <2>1 DEF Settle
  <2>3. th'[t].pc = "route"
    BY <1>1, <2>2 DEF Become, CallInv, Doing
  <2> QED BY <2>3
<1>6. CASE Route(t)
  <2> DEFINE cand == FirstEnabled(j, w.excluded, enabled, health)
             target == TargetOf(j, cand)
             r == Resolution(j, w.chars, cand, target)
  <2>1. w.tried = w.excluded
    BY <1>1, <1>6 DEF Route, Fine, TriedOK
  <2>2. Refused(j, r) \/ cand = None
    BY <1>3, <1>6, RouteBecomes
  <2>3. ASSUME NEW c \in Listed(j.route) PROVE Lookup(j.route, c) = Resolved(j.route, c, j)
    BY <1>2 DEF CalledAsLookedUp
  <2>4. \A c \in Listed(j.route) :
          c \in LeftOver(t) <=> UsableNow(j.route, c, w.excluded, enabled, health)
    BY <2>1, <2>3 DEF LeftOver, UsableNow
  <2>5. CASE cand = None
    <3>1. \A c \in Listed(j.route) : ~UsableNow(j.route, c, w.excluded, enabled, health)
      BY <1>3, <2>5, NoneIsUsable
    <3>2. LeftOver(t) \subseteq Listed(j.route)
      BY DEF LeftOver
    <3> QED BY <2>4, <3>1, <3>2
  <2>6. CASE cand # None
    <3>1. /\ cand \in Listed(j.route) /\ UsableNow(j.route, cand, w.excluded, enabled, health)
          /\ target.conf = cand.conf
      BY <1>2, <1>3, <2>6, RouteTakes
    <3>2. ~r.fits
      BY <1>2, <2>2, <2>6 DEF Refused
    <3>3. ~j.truncate /\ TooLong(target.conf, w.chars)
      <4>1. r.fits = (j.truncate \/ ~TooLong(target.conf, w.chars))
        BY DEF Resolution
      <4> QED BY <3>2, <4>1
    <3> QED BY <2>4, <3>1, <3>3
  <2> QED BY <2>5, <2>6
<1> QED BY <1>1, <1>4, <1>5, <1>6
        DEF OwnStep, Begin, Work, Answer, Expire, Accept, Repair, Reject, Parsing,
            StreamChunk, StreamEnd, StreamBreak, Return

\* A call that may fall back gives up only when each candidate of its route was asked,
\* is switched off or cools down, or the next cannot hold the prompt, for any number of
\* candidates and threads, provided the candidates of such calls are called as they are
\* looked up (generate, _should_fallback_to_next_candidate).
THEOREM FailoverIsComplete ==
    ASSUME \A j \in Calls : LeavesChoice(j) => CalledAsLookedUp(j)
    PROVE  Spec => FailoverComplete
<1>1. CallInv /\ [Next]_vars =>
        [\A t \in Threads : GivesUp(t) /\ th'[t].pc = "idle" =>
          LET left == {c \in Listed(th[t].job.route) :
                         LET g == Resolved(th[t].job.route, c, th[t].job) IN
                         /\ c.enabled /\ c.conf \in enabled
                         /\ g \notin th[t].tried
                         /\ IsAvailable(health, g)} IN
          left = {} \/ \E c \in left : ~th[t].job.truncate /\ TooLong(c.conf, th[t].chars)]_vars
  BY GivesUpStep DEF LeftOver
<1> QED BY <1>1, CallInvariant, PTL DEF Spec, FailoverComplete

\* What both ask for is so when the manager has no credential of its own and a model is
\* named for every candidate or for its provider configuration: then a call that leaves
\* the choice to the route calls each candidate as it was looked up.
LEMMA OrdinaryRoutes ==
    ASSUME ManagerSlug = None,
           \A r \in Routes : \A c \in Listed(r) : Or(c.model, Confs[c.conf].model) # None,
           NEW j \in Calls, LeavesChoice(j)
    PROVE  CalledAsLookedUp(j)
<1>1. j.route \in Routes /\ j.slug = None /\ j.model = None
  BY CallAssumption DEF LeavesChoice
<1>2. ASSUME NEW c \in Listed(j.route)
      PROVE  /\ Or(j.slug, Or(ManagerSlug, Or(c.slug, Confs[c.conf].slug))) = c.slug
             /\ Or(j.model, Or(c.model, Or(Confs[c.conf].model, Confs[c.conf].default)))
                  = Or(c.model, Confs[c.conf].model)
  BY <1>1, RouterAssumption DEF Or
<1> QED BY <1>2 DEF CalledAsLookedUp, Lookup, Resolved

==============================================================================
