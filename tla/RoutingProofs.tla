--------------------------- MODULE RoutingProofs ---------------------------
(***************************************************************************)
(* Proofs about Routing, for any names, order of priority, length of a     *)
(* stream and number of reloads.                                           *)
(***************************************************************************)
EXTENDS Routing, SequenceTheorems, FiniteSetTheorems, TLAPS

-----------------------------------------------------------------------------
(* The inductive invariant *)

CallType == [op : Op \cup {"none"}, exchanges : Seq(Outcome), result : Result \cup {"none"}]

\* What a call may return, by what was asked.
Returns(op) ==
    CASE op = "health"      -> {"healthy", "unhealthy"}
      [] op = "list_models" -> {"lists", "lacks"} \cup Failure
      [] op = "chat"        -> {"response"} \cup Failure
      [] op = "stream"      -> {"body"} \cup Failure
      [] OTHER              -> {}

\* The exchanges of a call and what it returned: while it is pending it was
\* refused or lost at most once.
CallOK(c) ==
    /\ c.result \in Returns(c.op) \cup {"none"}
    /\ Len(c.exchanges) <= 2
    /\ c.result = "none" => /\ Len(c.exchanges) <= 1
                            /\ \A i \in 1..Len(c.exchanges) : c.exchanges[i] \in Retried
    /\ c.result = "none" /\ c.op = "health" => Len(c.exchanges) = 0
    /\ \A i, j \in 1..Len(c.exchanges) : i < j => c.exchanges[i] \in Retried
    /\ c.result = "BackendUnavailable" =>
          \A i \in 1..Len(c.exchanges) : c.exchanges[i] \in Retried

CallsOK == \A b \in Names : CallOK(call[b])

\* What every phase finds.
PhasesOK ==
    /\ phase \in {"health", "models", "serve", "yield"} => request.op \in {"chat", "stream"}
    /\ phase = "gather" => /\ request.op \in {"health", "list_models"}
                           /\ \A b \in registered : call[b].op = request.op
    /\ phase \in {"start", "health", "models", "gather"} => backend = NoBackend
    /\ phase \in {"serve", "yield"} => backend \in Names
    /\ phase = "serve" => call[backend].op = request.op
    /\ phase # "done" => outcome = Open
    /\ phase \in {"start", "health", "models", "gather", "serve"} => position = 0 /\ chunks = 0

Unasked(hm, answers) == {n \in HealthyIn(hm) : answers[n] = "unasked"}

\* How far resolve() has come: in its first loop nobody was asked for models; in
\* the second all health is known, whoever was asked has not got the model,
\* and who is being asked is the first that was not asked yet.
ResolutionOK ==
    /\ phase \in {"start", "health"} =>
          \A n \in Names : /\ listed[n] = "unasked"
                           /\ call[n].op \in {"none", "health"}
    /\ phase = "health" => request.preferred = Automatic
    /\ phase \in {"models", "serve", "yield", "done"} /\ request.preferred = Automatic
         /\ request.op \in {"chat", "stream"} =>
          \A n \in Candidates : health_map[n] \in {"healthy", "unhealthy"}
    /\ phase = "models" =>
          \A n \in Names :
             /\ listed[n] \in {"unasked", "lacks"}
             /\ request.preferred = Automatic /\ listed[n] = "unasked" /\ call[n].op = "list_models" =>
                   First(n, Unasked(health_map, listed))

\* What the loop of stream() has counted.
ChunksIn(n) == {i \in 1..n : body[i] = "chunk"}

CountOK ==
    phase = "yield" => /\ \A i \in 1..position : body[i] \in {"chunk", "skip"}
                       /\ chunks = Cardinality(ChunksIn(position))

IInv ==
    /\ TypeOK
    /\ CallsOK
    /\ PhasesOK
    /\ ResolutionOK
    /\ CountOK
    /\ AutoPicksFirst
    /\ GivingUpIsHonest
    /\ FailuresAreAttributed
    /\ StreamIsExact
    /\ GatheredFromAll

-----------------------------------------------------------------------------
(* Calls *)

\* A call that starts is in order.
LEMMA StartedOK ==
    ASSUME NEW op \in Op
    PROVE  /\ Started(op) \in CallType /\ CallOK(Started(op)) /\ Started(op).op = op
           /\ NoCall \in CallType /\ CallOK(NoCall) /\ NoCall.op = "none"
  <1>1. <<>> \in Seq(Outcome) /\ Len(<<>>) = 0
    OBVIOUS
  <1>2. QED
    BY <1>1 DEF Started, NoCall, CallType, CallOK

\* An answer to a call is one of those the call may return, and none of those
\* stands for an answer that did not come.
LEMMA AnsweredOK ==
    ASSUME NEW op \in Op, NEW o \in Outcome, NEW l \in BOOLEAN,
           op = "health" \/ o \notin Retried
    PROVE  /\ Answered(op, o, l) \in Returns(op)
           /\ Answered(op, o, l) \in Result
           /\ Answered(op, o, l) \notin {"none", "BackendUnavailable"}
  <1>1. CASE op = "health"
    BY <1>1 DEF Answered, Returns, health, Result
  <1>2. CASE op = "list_models"
    BY <1>2 DEF Answered, Returns, list_models, Result, Failure, Outcome, Retried
  <1>3. CASE op = "chat"
    BY <1>3 DEF Answered, Returns, chat, Result, Failure, Outcome, Retried
  <1>4. CASE op = "stream"
    BY <1>4 DEF Answered, Returns, stream, Result, Failure, Outcome, Retried
  <1>5. QED
    BY <1>1, <1>2, <1>3, <1>4 DEF Op

\* An exchange keeps a call in order: it is retried once and only when no answer
\* came.
LEMMA ExchangeOK ==
    ASSUME NEW c \in CallType, CallOK(c), c.op # "none", c.result = "none",
           NEW o \in Outcome, NEW l \in BOOLEAN,
           NEW d, d = [c EXCEPT !.exchanges = Append(@, o), !.result = Returned(c, o, l)]
    PROVE  d \in CallType /\ CallOK(d) /\ d.op = c.op
  <1> DEFINE n == Len(c.exchanges)
             es == Append(c.exchanges, o)
             r  == Returned(c, o, l)
  <1>1. c.op \in Op /\ c.exchanges \in Seq(Outcome) /\ n \in Nat
    BY DEF CallType
  <1>2. d = [op |-> c.op, exchanges |-> es, result |-> r]
    BY DEF CallType
  <1>3. /\ es \in Seq(Outcome) /\ Len(es) = n + 1
        /\ \A i \in 1..n : es[i] = c.exchanges[i]
        /\ es[n + 1] = o
    BY <1>1
  <1>4. n <= 1 /\ \A i \in 1..n : c.exchanges[i] \in Retried
    BY DEF CallOK
  <1>5. CASE c.op # "health" /\ o \in Retried
    <2>1. r = IF n = 0 THEN "none" ELSE "BackendUnavailable"
      BY <1>5 DEF Returned
    <2>2. r \in Returns(c.op) \cup {"none"} /\ r \in Result \cup {"none"}
      BY <2>1, <1>1, <1>5 DEF Returns, Failure, Result, Op
    <2>3. \A i \in 1..(n + 1) : es[i] \in Retried
      <3>1. TAKE i \in 1..(n + 1)
      <3>2. i \in 1..n \/ i = n + 1
        BY <1>1
      <3>3. QED
        BY <3>2, <1>3, <1>4, <1>5
    <2>4. r = "none" => n = 0
      BY <2>1
    <2>5. QED
      BY <1>1, <1>2, <1>3, <1>4, <1>5, <2>2, <2>3, <2>4 DEF CallType, CallOK
  <1>6. CASE ~(c.op # "health" /\ o \in Retried)
    <2>1. r = Answered(c.op, o, l)
      BY <1>6 DEF Returned
    <2>2. r \in Returns(c.op) /\ r \in Result /\ r \notin {"none", "BackendUnavailable"}
      BY <2>1, <1>1, <1>6, AnsweredOK
    <2>3. \A i, j \in 1..(n + 1) : i < j => es[i] \in Retried
      <3>1. TAKE i, j \in 1..(n + 1)
      <3>2. HAVE i < j
      <3>3. i \in 1..n
        BY <3>2, <1>1
      <3>4. QED
        BY <3>3, <1>3, <1>4
    <2>4. QED
      BY <1>1, <1>2, <1>3, <1>4, <2>2, <2>3 DEF CallType, CallOK
  <1>7. QED
    BY <1>5, <1>6

\* Nothing that counts or decides changes while a call goes on.
Elsewhere == <<config, phase, resolution, streaming, outcome>>

\* A call that goes on at b keeps the invariant, as long as what it returns is
\* in order.
LEMMA CallStep ==
    ASSUME IInv, NEW b \in Names, Pending(b), NEW d \in CallType, CallOK(d), d.op = call[b].op,
           call' = [call EXCEPT ![b] = d], UNCHANGED <<serves, reloads>>, UNCHANGED Elsewhere
    PROVE  IInv'
  <1> USE DEF Elsewhere, config, resolution, streaming
  <1>1. /\ call' \in [Names -> CallType] /\ call'[b] = d
        /\ \A n \in Names : call'[n].op = call[n].op
        /\ \A n \in Names \ {b} : call'[n] = call[n]
    BY DEF IInv, TypeOK, HttpTypeOK, CallType
  <1>2. TypeOK'
    BY <1>1 DEF IInv, TypeOK, HttpTypeOK, CallType
  <1>3. CallsOK'
    BY <1>1 DEF IInv, CallsOK
  <1>4. PhasesOK'
    BY <1>1 DEF IInv, PhasesOK, TypeOK
  <1>5. ResolutionOK' /\ CountOK' /\ AutoPicksFirst' /\ GivingUpIsHonest'
          /\ FailuresAreAttributed' /\ StreamIsExact'
    BY <1>1 DEF IInv, ResolutionOK, CountOK, AutoPicksFirst, GivingUpIsHonest,
                FailuresAreAttributed, StreamIsExact, Candidates, HealthyIn, First, Before,
                Unasked, Passed, ChunksIn
  <1>6. GatheredFromAll'
    BY <1>1 DEF IInv, GatheredFromAll, Pending, TypeOK
  <1>7. QED
    BY <1>2, <1>3, <1>4, <1>5, <1>6 DEF IInv

-----------------------------------------------------------------------------
(* The order of the candidates *)

\* Priority is an order: it goes one way.
LEMMA BeforeOneWay ==
    ASSUME NEW m, NEW n, Before(m, n)
    PROVE  ~Before(n, m) /\ m # n
  BY PriorityAssumption DEF Before

LEMMA CandidatesAreNames == Candidates \subseteq Names
  BY PriorityAssumption DEF Candidates

-----------------------------------------------------------------------------
(* The steps of resolve() *)

\* Nothing has been resolved, read or streamed yet.
LEMMA QuietBefore ==
    ASSUME IInv, phase \in {"start", "health", "models", "gather"}
    PROVE  backend = NoBackend /\ outcome = Open /\ position = 0 /\ chunks = 0
  BY DEF IInv, PhasesOK

\* What Await leaves in the table of calls.
LEMMA AwaitCalls ==
    ASSUME TypeOK, CallsOK, NEW op \in Op, NEW n \in Names, NEW where, Await(op, n, where)
    PROVE  /\ call' \in [Names -> CallType] /\ CallsOK'
           /\ call'[n].op = op
           /\ \A m \in Names \ {n} : call'[m] = call[m]
           /\ phase' = where /\ outcome' = outcome
  BY StartedOK DEF TypeOK, HttpTypeOK, CallType, CallsOK, Await

\* A request that ends without a backend.
LEMMA EndsUnserved ==
    ASSUME IInv, phase \in {"start", "health", "models"}, request.op \in {"chat", "stream"},
           NEW kind, NEW n, End(kind, n),
           kind \in {"raw"} \cup RuitongError, n \in Names \cup {NoBackend},
           UNCHANGED <<serves, reloads, config, backend, streaming>>,
           health_map' \in [Names -> {"unread", "healthy", "unhealthy"}],
           listed' \in [Names -> {"unasked", "lists", "lacks"} \cup Failure],
           request.preferred = Automatic =>
               /\ \A m \in Candidates : health_map'[m] \in {"healthy", "unhealthy"}
               /\ \/ kind = "ModelNotFound" /\ HealthyIn(health_map') # {}
                        /\ \A m \in Candidates : Passed(m)'
                  \/ kind = "BackendUnavailable"
                        /\ \A m \in Candidates : health_map'[m] = "unhealthy"
                  \/ \E m \in Candidates : /\ listed'[m] \in Failure /\ kind = listed'[m]
                                            /\ n = NamedBy(listed'[m], m)
    PROVE  IInv'
  <1> USE DEF End, config, streaming
  <1>1. /\ backend = NoBackend /\ position = 0 /\ chunks = 0
        /\ phase' = "done" /\ outcome' = [kind |-> kind, backend |-> n]
        /\ Candidates' = Candidates /\ request' = request
    BY QuietBefore DEF Ended, Candidates
  <1>2. TypeOK'
    BY <1>1 DEF IInv, TypeOK, HttpTypeOK, Phase, RuitongError
  <1>3. CallsOK' /\ PhasesOK' /\ CountOK'
    BY <1>1 DEF IInv, CallsOK, PhasesOK, CountOK
  <1>4. ResolutionOK'
    BY <1>1 DEF ResolutionOK
  <1>5. AutoPicksFirst' /\ FailuresAreAttributed' /\ StreamIsExact'
    BY <1>1 DEF AutoPicksFirst, FailuresAreAttributed, StreamIsExact, RuitongError
  <1>6. GivingUpIsHonest'
    <2>1. outcome'.kind = kind /\ outcome'.backend = n /\ outcome' = Ended(kind, n)
      BY <1>1 DEF Ended
    <2>2. CASE kind = "ModelNotFound" /\ HealthyIn(health_map') # {}
                 /\ \A m \in Candidates : Passed(m)'
      BY <1>1, <2>1, <2>2 DEF GivingUpIsHonest, HealthyIn
    <2>3. CASE kind = "BackendUnavailable"
                 /\ \A m \in Candidates : health_map'[m] = "unhealthy"
      BY <1>1, <2>1, <2>3 DEF GivingUpIsHonest
    <2>4. CASE \E m \in Candidates : /\ listed'[m] \in Failure /\ kind = listed'[m]
                                      /\ n = NamedBy(listed'[m], m)
      <3>1. PICK m \in Candidates : /\ listed'[m] \in Failure /\ kind = listed'[m]
                                    /\ n = NamedBy(listed'[m], m)
        BY <2>4
      <3>2. outcome' = Ended(listed'[m], NamedBy(listed'[m], m)) /\ m \in Candidates'
        BY <1>1, <2>1, <3>1
      <3>3. NamedBy(listed[m], m)' = NamedBy(listed'[m], m)
        BY DEF NamedBy
      <3>4. QED
        BY <3>1, <3>2, <3>3 DEF GivingUpIsHonest
    <2>5. CASE request.preferred # Automatic
      BY <1>1, <2>5 DEF GivingUpIsHonest
    <2>6. QED
      BY <2>2, <2>3, <2>4, <2>5
  <1>7. GatheredFromAll'
    BY <1>1 DEF IInv, PhasesOK, GatheredFromAll
  <1>8. QED
    BY <1>2, <1>3, <1>4, <1>5, <1>6, <1>7 DEF IInv

\* A request that goes on to await the health or the models of a backend.
LEMMA AwaitsNext ==
    ASSUME IInv, phase \in {"start", "health", "models"}, request.op \in {"chat", "stream"},
           NEW op \in {"health", "list_models"}, NEW n \in Names,
           NEW where, where = (IF op = "health" THEN "health" ELSE "models"),
           Await(op, n, where),
           UNCHANGED <<serves, reloads, config, backend, streaming>>,
           health_map' \in [Names -> {"unread", "healthy", "unhealthy"}],
           listed' \in [Names -> {"unasked", "lists", "lacks"} \cup Failure],
           ResolutionOK'
    PROVE  IInv'
  <1> USE DEF config, streaming
  <1>0. op \in Op
    BY DEF Op
  <1>1. /\ backend = NoBackend /\ position = 0 /\ chunks = 0 /\ outcome = Open
        /\ phase' = where /\ outcome' = Open /\ Open.kind = "none"
        /\ call' \in [Names -> CallType] /\ CallsOK'
    BY <1>0, QuietBefore, AwaitCalls DEF IInv, Ended, Open
  <1>2. TypeOK'
    BY <1>1 DEF IInv, TypeOK, HttpTypeOK, Phase, CallType
  <1>3. PhasesOK' /\ CountOK'
    BY <1>1 DEF IInv, PhasesOK, CountOK
  <1>4. AutoPicksFirst' /\ FailuresAreAttributed' /\ StreamIsExact' /\ GivingUpIsHonest'
          /\ GatheredFromAll'
    BY <1>1 DEF AutoPicksFirst, FailuresAreAttributed, StreamIsExact, GivingUpIsHonest,
                GatheredFromAll
  <1>5. QED
    BY <1>1, <1>2, <1>3, <1>4 DEF IInv

\* The first step of resolve().
LEMMA ResolveStep == IInv /\ Resolve => IInv'
  <1> SUFFICES ASSUME IInv, Resolve
               PROVE  IInv'
    OBVIOUS
  <1> USE DEF Resolve
  <1>1. /\ \A m \in Names : listed[m] = "unasked" /\ call[m].op \in {"none", "health"}
        /\ health_map' = health_map /\ listed' = listed /\ request' = request
        /\ Candidates' = Candidates
        /\ UNCHANGED <<serves, reloads, config, backend, streaming>>
    BY DEF IInv, ResolutionOK, resolution, config, Candidates
  <1>2. /\ health_map' \in [Names -> {"unread", "healthy", "unhealthy"}]
        /\ listed' \in [Names -> {"unasked", "lists", "lacks"} \cup Failure]
        /\ request.preferred \in Names \cup {Automatic} /\ registered \in SUBSET Names
        /\ Automatic \notin Names
        /\ "BackendUnavailable" \in {"raw"} \cup RuitongError
    BY <1>1, NamesAssumption DEF IInv, TypeOK, RuitongError, Automatic
  <1>3. CASE request.preferred = Automatic /\ Candidates = {}
               /\ End("BackendUnavailable", NoBackend)
    BY <1>1, <1>2, <1>3, EndsUnserved
  <1>4. CASE request.preferred = Automatic
               /\ \E n \in Candidates : First(n, Candidates) /\ Await("health", n, "health")
    <2>1. PICK n \in Candidates : Await("health", n, "health")
      BY <1>4
    <2>2. n \in Names /\ "health" \in Op
      BY CandidatesAreNames DEF Op
    <2>3. phase' = "health" /\ call'[n].op = "health" /\ \A m \in Names \ {n} : call'[m] = call[m]
      BY <2>1, <2>2, AwaitCalls DEF IInv
    <2>4. ResolutionOK'
      BY <1>1, <1>4, <2>3 DEF ResolutionOK
    <2>5. QED
      BY <1>1, <1>2, <2>1, <2>2, <2>4, AwaitsNext
  <1>5. CASE request.preferred \in registered /\ Await("list_models", request.preferred, "models")
    <2>1. request.preferred \in Names /\ request.preferred # Automatic /\ "list_models" \in Op
      BY <1>5, <1>2 DEF Op
    <2>2. phase' = "models"
      BY <1>5 DEF Await
    <2>3. ResolutionOK'
      BY <1>1, <2>1, <2>2 DEF ResolutionOK
    <2>4. QED
      BY <1>1, <1>2, <1>5, <2>1, <2>3, AwaitsNext
  <1>6. CASE request.preferred \notin registered \cup {Automatic}
               /\ End("BackendUnavailable", request.preferred)
    BY <1>1, <1>2, <1>6, EndsUnserved
  <1>7. QED
    BY <1>3, <1>4, <1>5, <1>6

\* The second loop goes on: it asks the first candidate it has not asked, or
\* gives up for a reason.
LEMMA AskNextStep ==
    ASSUME IInv, phase \in {"health", "models"}, request.preferred = Automatic,
           AskNext(health_map', listed'),
           UNCHANGED <<serves, reloads, config, backend, streaming>>,
           health_map' \in [Names -> {"unread", "healthy", "unhealthy"}],
           listed' \in [Names -> {"unasked", "lists", "lacks"} \cup Failure],
           \A m \in Candidates : health_map'[m] \in {"healthy", "unhealthy"},
           \A m \in Names : /\ listed'[m] \in {"unasked", "lacks"}
                            /\ listed'[m] = "unasked" => call[m].op # "list_models"
    PROVE  IInv'
  <1> DEFINE left == Unasked(health_map', listed')
  <1>1. /\ request.op \in {"chat", "stream"} /\ request' = request
        /\ Candidates' = Candidates
        /\ \A n : First(n, left) => First(n, Unasked(health_map, listed))'
        /\ left \subseteq HealthyIn(health_map') /\ HealthyIn(health_map') \subseteq Candidates
        /\ Candidates \subseteq Names
        /\ {"BackendUnavailable", "ModelNotFound"} \subseteq RuitongError
    BY CandidatesAreNames
       DEF IInv, PhasesOK, config, Candidates, First, Before, Unasked, HealthyIn, RuitongError
  <1>2. CASE \E n \in left : First(n, left) /\ Await("list_models", n, "models")
    <2>1. PICK n \in left : First(n, left) /\ Await("list_models", n, "models")
      BY <1>2
    <2>2. n \in Names /\ "list_models" \in Op
      BY <1>1, <2>1 DEF Op
    <2>3. phase' = "models" /\ \A m \in Names \ {n} : call'[m] = call[m]
      BY <2>1, <2>2, AwaitCalls DEF IInv
    <2>4. ResolutionOK'
      BY <1>1, <2>1, <2>3 DEF ResolutionOK
    <2>5. QED
      BY <1>1, <2>1, <2>2, <2>4, AwaitsNext
  <1>3. CASE left = {} /\ \E n \in HealthyIn(health_map') :
               First(n, HealthyIn(health_map')) /\ End("ModelNotFound", n)
    <2>1. PICK n \in HealthyIn(health_map') : End("ModelNotFound", n)
      BY <1>3
    <2>2. \A m \in Candidates : Passed(m)'
      BY <1>1, <1>3 DEF Passed, Unasked, HealthyIn
    <2>3. n \in Names /\ HealthyIn(health_map') # {}
      BY <1>1, <2>1
    <2>4. QED
      BY <1>1, <2>1, <2>2, <2>3, EndsUnserved
  <1>4. CASE HealthyIn(health_map') = {} /\ \E n \in Candidates :
               First(n, Candidates) /\ End("BackendUnavailable", n)
    <2>1. PICK n \in Candidates : End("BackendUnavailable", n)
      BY <1>4
    <2>2. \A m \in Candidates : health_map'[m] = "unhealthy"
      BY <1>4 DEF HealthyIn
    <2>3. n \in Names
      BY <1>1
    <2>4. QED
      BY <1>1, <2>1, <2>2, <2>3, EndsUnserved
  <1>5. QED
    BY <1>2, <1>3, <1>4 DEF AskNext, Unasked

\* The health of a candidate comes in.
LEMMA HealthReadStep == ASSUME IInv, NEW n \in Names, HealthRead(n) PROVE IInv'
  <1> USE DEF HealthRead
  <1>1. /\ phase = "health" /\ request.op \in {"chat", "stream"} /\ request.preferred = Automatic
        /\ \A m \in Names : listed[m] = "unasked" /\ call[m].op \in {"none", "health"}
        /\ listed' = listed /\ request' = request /\ Candidates' = Candidates
        /\ UNCHANGED <<serves, reloads, config, backend, streaming>>
        /\ listed' \in [Names -> {"unasked", "lists", "lacks"} \cup Failure]
    BY DEF IInv, PhasesOK, ResolutionOK, config, Candidates, TypeOK
  <1>2. call[n].result \in {"healthy", "unhealthy"}
    BY DEF IInv, CallsOK, CallOK, Returns, Pending
  <1>3. /\ health_map' \in [Names -> {"unread", "healthy", "unhealthy"}]
        /\ Candidates \subseteq Names
    BY <1>2, CandidatesAreNames DEF IInv, TypeOK
  <1> DEFINE unread == {m \in Candidates : health_map'[m] = "unread"}
  <1>4. CASE \E m \in unread : First(m, unread) /\ Await("health", m, "health")
    <2>1. PICK m \in unread : Await("health", m, "health")
      BY <1>4
    <2>2. m \in Names /\ "health" \in Op
      BY <1>3 DEF Op
    <2>3. phase' = "health" /\ call'[m].op = "health" /\ \A k \in Names \ {m} : call'[k] = call[k]
      BY <2>1, <2>2, AwaitCalls DEF IInv
    <2>4. ResolutionOK'
      BY <1>1, <2>3 DEF ResolutionOK
    <2>5. QED
      BY <1>1, <1>3, <2>1, <2>2, <2>4, AwaitsNext
  <1>5. CASE unread = {} /\ AskNext(health_map', listed)
    <2>1. \A m \in Candidates : health_map'[m] \in {"healthy", "unhealthy"}
      BY <1>3, <1>5
    <2>2. AskNext(health_map', listed')
      BY <1>1, <1>5
    <2>3. QED
      BY <1>1, <1>3, <2>1, <2>2, AskNextStep
  <1>6. QED
    BY <1>4, <1>5

\* The models of a backend come in.
LEMMA ModelsReadStep == ASSUME IInv, NEW n \in Names, ModelsRead(n) PROVE IInv'
  <1> USE DEF ModelsRead
  <1>1. /\ phase = "models" /\ request.op \in {"chat", "stream"}
        /\ backend = NoBackend /\ outcome = Open /\ position = 0 /\ chunks = 0
        /\ health_map' = health_map /\ request' = request /\ Candidates' = Candidates
        /\ UNCHANGED <<serves, reloads, config, streaming>>
        /\ health_map' \in [Names -> {"unread", "healthy", "unhealthy"}]
        /\ Candidates \subseteq Names
    BY QuietBefore, CandidatesAreNames
       DEF IInv, PhasesOK, config, resolution, Candidates, TypeOK
  <1>2. call[n].result \in {"lists", "lacks"} \cup Failure
    BY DEF IInv, CallsOK, CallOK, Returns, Pending, Failure
  <1>3. /\ listed' \in [Names -> {"unasked", "lists", "lacks"} \cup Failure]
        /\ listed'[n] = call[n].result
        /\ \A m \in Names \ {n} : listed'[m] = listed[m]
        /\ \A m \in Names : listed[m] \in {"unasked", "lacks"}
    BY <1>1, <1>2 DEF IInv, TypeOK, ResolutionOK
  <1>4. ASSUME request.preferred = Automatic
        PROVE  /\ \A m \in Candidates : health_map[m] \in {"healthy", "unhealthy"}
               /\ First(n, Unasked(health_map, listed))
               /\ n \in HealthyIn(health_map) /\ n \in Candidates
               /\ \A m \in Names \ {n} : listed[m] = "unasked" => call[m].op # "list_models"
    <2>1. /\ \A m \in Candidates : health_map[m] \in {"healthy", "unhealthy"}
          /\ \A m \in Names : listed[m] = "unasked" /\ call[m].op = "list_models" =>
                First(m, Unasked(health_map, listed))
      BY <1>1, <1>4 DEF IInv, ResolutionOK
    <2>2. First(n, Unasked(health_map, listed))
      BY <2>1
    <2>3. n \in HealthyIn(health_map) /\ n \in Candidates
      BY <2>2 DEF First, Unasked, HealthyIn
    <2>4. \A m \in Names \ {n} : listed[m] = "unasked" => call[m].op # "list_models"
      BY <2>1, <2>2, BeforeOneWay DEF First
    <2>5. QED
      BY <2>1, <2>2, <2>3, <2>4
  <1>5. CASE listed'[n] = "lists" /\ backend' = n /\ Await(request.op, n, "serve")
    <2>1. request.op \in Op
      BY <1>1 DEF Op
    <2>2. /\ call' \in [Names -> CallType] /\ CallsOK' /\ call'[n].op = request.op
          /\ phase' = "serve" /\ outcome' = Open /\ Open.kind = "none"
      BY <1>1, <1>5, <2>1, AwaitCalls DEF IInv, Open, Ended
    <2>3. TypeOK'
      BY <1>1, <1>3, <1>5, <2>2 DEF IInv, TypeOK, HttpTypeOK, Phase, CallType, config, streaming
    <2>4. PhasesOK' /\ CountOK'
      BY <1>1, <1>5, <2>2 DEF PhasesOK, CountOK, streaming
    <2>5. ResolutionOK'
      BY <1>1, <1>4, <2>2 DEF ResolutionOK
    <2>6. AutoPicksFirst'
      <3>1. SUFFICES ASSUME request.preferred = Automatic
                     PROVE  /\ n \in Candidates
                            /\ health_map[n] = "healthy"
                            /\ \A m \in Candidates : Before(m, n) => Passed(m)'
        BY <1>1, <1>5 DEF AutoPicksFirst, Before
      <3>2. n \in Candidates /\ health_map[n] = "healthy"
        BY <3>1, <1>4 DEF HealthyIn
      <3>3. ASSUME NEW m \in Candidates, Before(m, n) PROVE Passed(m)'
        <4>1. m # n /\ ~Before(n, m) /\ m \in Names
          BY <3>3, <1>1, BeforeOneWay
        <4>2. m \notin Unasked(health_map, listed)
          BY <3>1, <4>1, <1>4 DEF First
        <4>3. health_map[m] = "unhealthy" \/ (health_map[m] = "healthy" /\ listed[m] = "lacks")
          BY <3>1, <4>1, <4>2, <1>3, <1>4 DEF Unasked, HealthyIn
        <4>4. QED
          BY <4>1, <4>3, <1>1, <1>3 DEF Passed
      <3>4. QED
        BY <3>2, <3>3
    <2>7. GivingUpIsHonest' /\ FailuresAreAttributed' /\ StreamIsExact' /\ GatheredFromAll'
      BY <2>2 DEF GivingUpIsHonest, FailuresAreAttributed, StreamIsExact, GatheredFromAll
    <2>8. QED
      BY <2>2, <2>3, <2>4, <2>5, <2>6, <2>7 DEF IInv
  <1>6. CASE listed'[n] = "lacks" /\ request.preferred = Automatic
               /\ AskNext(health_map, listed') /\ UNCHANGED backend
    <2>1. \A m \in Names : /\ listed'[m] \in {"unasked", "lacks"}
                           /\ listed'[m] = "unasked" => call[m].op # "list_models"
      BY <1>3, <1>4, <1>6
    <2>2. AskNext(health_map', listed')
      BY <1>1, <1>6
    <2>3. QED
      BY <1>1, <1>3, <1>4, <1>6, <2>1, <2>2, AskNextStep
  <1>7. CASE listed'[n] = "lacks" /\ request.preferred # Automatic
               /\ End("ModelNotFound", n) /\ UNCHANGED backend
    BY <1>1, <1>3, <1>7, EndsUnserved DEF RuitongError
  <1>8. CASE listed'[n] \in Failure /\ End(listed'[n], NamedBy(listed'[n], n)) /\ UNCHANGED backend
    <2> DEFINE b == NamedBy(listed'[n], n)
    <2>1. listed'[n] \in {"raw"} \cup RuitongError
      BY <1>8 DEF Failure, RuitongError
    <2>2. request.preferred = Automatic =>
              n \in Candidates /\ \A m \in Candidates : health_map'[m] \in {"healthy", "unhealthy"}
      BY <1>1, <1>4
    <2>3. b \in Names \cup {NoBackend} /\ End(listed'[n], b)
      BY <1>8 DEF NamedBy
    <2>4. request.preferred = Automatic =>
              \E m \in Candidates : /\ listed'[m] \in Failure /\ listed'[n] = listed'[m]
                                    /\ b = NamedBy(listed'[m], m)
      BY <1>8, <2>2
    <2> HIDE DEF b
    <2>5. QED
      BY <1>1, <1>3, <1>8, <2>1, <2>2, <2>3, <2>4, EndsUnserved
  <1>9. QED
    BY <1>5, <1>6, <1>7, <1>8

-----------------------------------------------------------------------------
(* The chosen backend serves *)

\* A request that ends with the backend that served it.
LEMMA EndsServed ==
    ASSUME IInv, phase \in {"serve", "yield"}, NEW kind \in RuitongError \cup {"value", "closed"},
           End(kind, backend), UNCHANGED <<serves, reloads, config, resolution, streaming>>,
           request.op = "stream" /\ kind = "value" =>
               LET before == {i \in DOMAIN body : \A j \in 1..i : body[j] # "done"}
               IN  /\ chunks = Cardinality({i \in before : body[i] = "chunk"})
                   /\ chunks > 0
                   /\ \A i \in before : body[i] # "odd"
    PROVE  IInv'
  <1> USE DEF End, config, resolution, streaming
  <1>1. /\ backend \in Names /\ request.op \in {"chat", "stream"} /\ NoBackend \notin Names
        /\ phase' = "done" /\ outcome' = [kind |-> kind, backend |-> backend]
        /\ outcome'.kind = kind /\ outcome'.backend = backend
        /\ Candidates' = Candidates /\ request' = request
    BY NamesAssumption DEF IInv, PhasesOK, Ended, Candidates, NoBackend
  <1>2. TypeOK'
    BY <1>1 DEF IInv, TypeOK, HttpTypeOK, Phase, RuitongError
  <1>3. CallsOK' /\ PhasesOK' /\ CountOK'
    BY <1>1 DEF IInv, CallsOK, PhasesOK, CountOK
  <1>4. ResolutionOK'
    BY <1>1 DEF IInv, ResolutionOK
  <1>5. AutoPicksFirst'
    BY <1>1 DEF IInv, AutoPicksFirst, Before, Passed
  <1>6. GivingUpIsHonest' /\ FailuresAreAttributed' /\ GatheredFromAll'
    BY <1>1 DEF GivingUpIsHonest, FailuresAreAttributed, GatheredFromAll
  <1>7. StreamIsExact'
    BY <1>1 DEF StreamIsExact
  <1>8. QED
    BY <1>2, <1>3, <1>4, <1>5, <1>6, <1>7 DEF IInv

LEMMA WrappedOK == \A failure : Wrapped(failure) \in RuitongError
  BY DEF Wrapped, RuitongError

\* The answer of the backend comes in.
LEMMA ChatReturnsStep == IInv /\ ChatReturns => IInv'
  <1> SUFFICES ASSUME IInv, ChatReturns
               PROVE  IInv'
    OBVIOUS
  <1> USE DEF ChatReturns
  <1>1. /\ backend \in Names /\ request.op \in {"chat", "stream"}
        /\ call[backend].op = request.op
        /\ call[backend].result \in Returns(request.op) \cup {"none"}
    BY DEF IInv, PhasesOK, CallsOK, CallOK
  <1>2. CASE call[backend].result = "response" /\ End("value", backend)
    <2>1. request.op # "stream"
      BY <1>1, <1>2 DEF Returns, Failure
    <2>2. QED
      BY <1>2, <2>1, EndsServed
  <1>3. CASE End(Wrapped(call[backend].result), backend)
    <2>1. Wrapped(call[backend].result) \in RuitongError /\ "value" \notin RuitongError
      BY WrappedOK DEF RuitongError
    <2>2. QED
      BY <1>3, <2>1, EndsServed
  <1>4. QED
    BY <1>2, <1>3

\* Bodies are short sequences of lines.
LEMMA BodiesOK ==
    /\ \A b \in Bodies : b \in Seq(Line) /\ Len(b) \in 0..MaxLines
    /\ <<>> \in Bodies /\ <<"chunk">> \in Bodies
  <1>1. ASSUME NEW b \in Bodies PROVE b \in Seq(Line) /\ Len(b) \in 0..MaxLines
    <2>1. PICK n \in 0..MaxLines : b \in [1..n -> Line]
      BY DEF Bodies
    <2>2. n \in Nat
      BY <2>1, LinesAssumption
    <2>3. b \in Seq(Line) /\ Len(b) = n
      BY <2>1, <2>2
    <2>4. QED
      BY <2>1, <2>3
  <1>2. <<>> \in [1..0 -> Line] /\ 0 \in 0..MaxLines
    BY LinesAssumption
  <1>3. <<"chunk">> \in [1..1 -> Line] /\ 1 \in 0..MaxLines
    BY LinesAssumption DEF Line
  <1>4. QED
    BY <1>1, <1>2, <1>3 DEF Bodies

\* The body of a stream has been read.
LEMMA BodyReadStep == IInv /\ BodyRead => IInv'
  <1> SUFFICES ASSUME IInv, BodyRead
               PROVE  IInv'
    OBVIOUS
  <1> USE DEF BodyRead, httpVars, config, resolution
  <1>1. /\ backend \in Names /\ request.op \in {"chat", "stream"} /\ position = 0 /\ chunks = 0
        /\ outcome' = Open /\ Open.kind = "none" /\ phase' = "yield"
        /\ Candidates' = Candidates
    BY DEF IInv, PhasesOK, Open, Ended, Candidates
  <1>2. body' \in Bodies /\ Len(body') \in Nat
    BY BodiesOK
  <1>3. TypeOK'
    BY <1>1, <1>2 DEF IInv, TypeOK, HttpTypeOK, Phase
  <1>4. CallsOK' /\ PhasesOK'
    BY <1>1 DEF IInv, CallsOK, PhasesOK
  <1>5. CountOK'
    <2>1. ChunksIn(position)' = {}
      BY <1>1 DEF ChunksIn
    <2>2. QED
      BY <2>1, <1>1, FS_EmptySet DEF CountOK
  <1>6. ResolutionOK' /\ AutoPicksFirst'
    BY <1>1 DEF IInv, ResolutionOK, AutoPicksFirst, Before, Passed
  <1>7. GivingUpIsHonest' /\ FailuresAreAttributed' /\ StreamIsExact' /\ GatheredFromAll'
    BY <1>1 DEF GivingUpIsHonest, FailuresAreAttributed, StreamIsExact, GatheredFromAll
  <1>8. QED
    BY <1>3, <1>4, <1>5, <1>6, <1>7 DEF IInv

\* The lines before the first "done" are those the loop has read.
LEMMA PrefixIsRange ==
    ASSUME NEW p \in Nat, NEW l \in Nat, p <= l, NEW b, DOMAIN b = 1..l,
           \A i \in 1..p : b[i] # "done", p = l \/ b[p + 1] = "done"
    PROVE  {i \in DOMAIN b : \A j \in 1..i : b[j] # "done"} = 1..p
  <1>1. ASSUME NEW i \in 1..p PROVE i \in DOMAIN b /\ \A j \in 1..i : b[j] # "done"
    OBVIOUS
  <1>2. ASSUME NEW i \in 1..l, \A j \in 1..i : b[j] # "done" PROVE i \in 1..p
    <2>1. SUFFICES ASSUME p < i PROVE FALSE
      OBVIOUS
    <2>2. p + 1 \in 1..i /\ p # l
      BY <2>1
    <2>3. QED
      BY <2>2, <1>2
  <1>3. QED
    BY <1>1, <1>2

\* What the loop has counted when it ends.
LEMMA CountedAtEnd ==
    ASSUME IInv, phase = "yield",
           position = Len(body) \/ (position < Len(body) /\ body[position + 1] = "done")
    PROVE  LET before == {i \in DOMAIN body : \A j \in 1..i : body[j] # "done"}
           IN  /\ chunks = Cardinality({i \in before : body[i] = "chunk"})
               /\ \A i \in before : body[i] # "odd"
  <1>1. /\ position \in Nat /\ Len(body) \in Nat /\ DOMAIN body = 1..Len(body)
        /\ position <= Len(body)
    BY BodiesOK DEF IInv, TypeOK
  <1>2. /\ \A i \in 1..position : body[i] \in {"chunk", "skip"}
        /\ chunks = Cardinality(ChunksIn(position))
    BY DEF IInv, CountOK
  <1>3. {i \in DOMAIN body : \A j \in 1..i : body[j] # "done"} = 1..position
    BY <1>1, <1>2, PrefixIsRange
  <1>4. {i \in 1..position : body[i] = "chunk"} = ChunksIn(position)
    BY DEF ChunksIn
  <1>5. QED
    BY <1>2, <1>3, <1>4

\* The loop of stream() takes a line, or is left.
LEMMA ReadLineStep == IInv /\ ReadLine => IInv'
  <1> SUFFICES ASSUME IInv, ReadLine
               PROVE  IInv'
    OBVIOUS
  <1>1. /\ phase = "yield" /\ UNCHANGED <<serves, reloads, config, resolution, body>>
        /\ position \in Nat /\ chunks \in 0..position /\ Len(body) \in Nat
        /\ body \in Seq(Line)
        /\ {"BackendError"} \subseteq RuitongError /\ "value" \notin RuitongError
    BY BodiesOK DEF ReadLine, IInv, TypeOK, RuitongError
  <1>2. CASE /\ position = Len(body) \/ (position < Len(body) /\ body[position + 1] = "done")
             /\ StreamEnds
    <2>1. UNCHANGED <<serves, reloads, config, resolution, streaming>>
      BY <1>1, <1>2 DEF StreamEnds, streaming
    <2>2. LET before == {i \in DOMAIN body : \A j \in 1..i : body[j] # "done"}
          IN  /\ chunks = Cardinality({i \in before : body[i] = "chunk"})
              /\ \A i \in before : body[i] # "odd"
      BY <1>1, <1>2, CountedAtEnd
    <2>3. CASE chunks = 0
      BY <1>1, <1>2, <2>1, <2>3, EndsServed DEF StreamEnds
    <2>4. CASE chunks # 0
      BY <1>1, <1>2, <2>1, <2>2, <2>4, EndsServed DEF StreamEnds
    <2>5. QED
      BY <2>3, <2>4
  <1>3. CASE /\ position < Len(body) /\ body[position + 1] \in {"chunk", "skip"}
             /\ position' = position + 1
             /\ chunks' = chunks + (IF body[position + 1] = "chunk" THEN 1 ELSE 0)
             /\ UNCHANGED <<phase, outcome, call>>
    <2> USE DEF config, resolution
    <2>1. TypeOK'
      BY <1>1, <1>3 DEF IInv, TypeOK, HttpTypeOK
    <2>2. CallsOK' /\ PhasesOK'
      BY <1>1, <1>3 DEF IInv, CallsOK, PhasesOK
    <2>3. CountOK'
      <3>1. /\ \A i \in 1..position : body[i] \in {"chunk", "skip"}
            /\ chunks = Cardinality(ChunksIn(position))
        BY <1>1 DEF IInv, CountOK
      <3>2. \A i \in 1..(position + 1) : i \in 1..position \/ i = position + 1
        BY <1>1
      <3>3. IsFiniteSet(ChunksIn(position)) /\ position + 1 \notin ChunksIn(position)
        <4>1. IsFiniteSet(1..position)
          BY <1>1, FS_Interval
        <4>2. ChunksIn(position) \subseteq 1..position
          BY DEF ChunksIn
        <4>3. IsFiniteSet(ChunksIn(position))
          BY <4>1, <4>2, FS_Subset
        <4>4. QED
          BY <1>1, <4>2, <4>3
      <3>4. CASE body[position + 1] = "chunk"
        <4>1. ChunksIn(position)' = ChunksIn(position) \cup {position + 1}
          BY <1>1, <1>3, <3>2, <3>4 DEF ChunksIn
        <4>2. Cardinality(ChunksIn(position)') = Cardinality(ChunksIn(position)) + 1
          BY <3>3, <4>1, FS_AddElement
        <4>3. QED
          BY <1>1, <1>3, <3>1, <3>2, <3>4, <4>2 DEF CountOK
      <3>5. CASE body[position + 1] = "skip"
        <4>1. ChunksIn(position)' = ChunksIn(position)
          BY <1>1, <1>3, <3>2, <3>5 DEF ChunksIn
        <4>2. QED
          BY <1>1, <1>3, <3>1, <3>2, <3>5, <4>1 DEF CountOK
      <3>6. QED
        BY <1>3, <3>4, <3>5
    <2>4. ResolutionOK' /\ AutoPicksFirst'
      BY <1>1, <1>3 DEF IInv, ResolutionOK, AutoPicksFirst, Candidates, Before, Passed
    <2>5. outcome'.kind = "none" /\ phase' = "yield"
      BY <1>1, <1>3 DEF IInv, PhasesOK, Open, Ended
    <2>6. GivingUpIsHonest' /\ FailuresAreAttributed' /\ StreamIsExact' /\ GatheredFromAll'
      BY <2>5 DEF GivingUpIsHonest, FailuresAreAttributed, StreamIsExact, GatheredFromAll
    <2>7. QED
      BY <2>1, <2>2, <2>3, <2>4, <2>6 DEF IInv
  <1>4. CASE End(Wrapped("raw"), backend) /\ UNCHANGED <<position, chunks>>
    <2>1. UNCHANGED <<serves, reloads, config, resolution, streaming>>
      BY <1>1, <1>4 DEF streaming
    <2>2. Wrapped("raw") \in RuitongError
      BY WrappedOK
    <2>3. QED
      BY <1>1, <1>4, <2>1, <2>2, EndsServed
  <1>5. QED
    BY <1>2, <1>3, <1>4 DEF ReadLine

\* The reader of a stream leaves.
LEMMA StreamClosedStep == IInv /\ StreamClosed => IInv'
  BY EndsServed DEF StreamClosed

-----------------------------------------------------------------------------
(* All backends are asked at once *)

LEMMA StartGatherStep == IInv /\ StartGather => IInv'
  <1> SUFFICES ASSUME IInv, StartGather
               PROVE  IInv'
    OBVIOUS
  <1> USE DEF StartGather, config, resolution, streaming
  <1>1. /\ backend = NoBackend /\ position = 0 /\ chunks = 0
        /\ outcome' = Open /\ Open.kind = "none" /\ phase' = "gather"
        /\ Candidates' = Candidates /\ request.op \in Op /\ registered \in SUBSET Names
    BY QuietBefore DEF IInv, TypeOK, RouterOp, Op, Open, Ended, Candidates
  <1>2. /\ call' \in [Names -> CallType] /\ CallsOK'
        /\ \A b \in registered : call'[b].op = request.op
    BY <1>1, StartedOK DEF CallsOK
  <1>3. TypeOK'
    BY <1>1, <1>2 DEF IInv, TypeOK, HttpTypeOK, Phase, CallType
  <1>4. PhasesOK' /\ CountOK' /\ ResolutionOK'
    BY <1>1, <1>2 DEF PhasesOK, CountOK, ResolutionOK
  <1>5. AutoPicksFirst' /\ GivingUpIsHonest' /\ FailuresAreAttributed' /\ StreamIsExact'
          /\ GatheredFromAll'
    BY <1>1 DEF AutoPicksFirst, GivingUpIsHonest, FailuresAreAttributed, StreamIsExact,
                GatheredFromAll
  <1>6. QED
    BY <1>2, <1>3, <1>4, <1>5 DEF IInv

\* The request ends with what all backends returned, or one of them raised.
LEMMA EndsGathered ==
    ASSUME IInv, phase = "gather", NEW kind, NEW n \in Names \cup {NoBackend}, End(kind, n),
           UNCHANGED <<serves, reloads, config, resolution, streaming>>,
           kind \in {"value"} \cup Failure,
           IF kind = "value" THEN \A b \in registered : ~Pending(b) /\ call[b].result \notin Failure
           ELSE request.op = "list_models"
    PROVE  IInv'
  <1> USE DEF End, config, resolution, streaming
  <1>1. /\ backend = NoBackend /\ position = 0 /\ chunks = 0
        /\ outcome' = [kind |-> kind, backend |-> n] /\ phase' = "done"
        /\ request.op \in {"health", "list_models"} /\ registered \in SUBSET Names
        /\ \A b \in registered : call[b].op = request.op
    BY QuietBefore DEF IInv, PhasesOK, TypeOK, Ended
  <1>2. TypeOK'
    BY <1>1 DEF IInv, TypeOK, HttpTypeOK, Phase, RuitongError, Failure
  <1>3. CallsOK' /\ PhasesOK' /\ CountOK' /\ ResolutionOK'
    BY <1>1 DEF IInv, CallsOK, PhasesOK, CountOK, ResolutionOK
  <1>4. AutoPicksFirst' /\ GivingUpIsHonest' /\ FailuresAreAttributed' /\ StreamIsExact'
    BY <1>1 DEF AutoPicksFirst, GivingUpIsHonest, FailuresAreAttributed, StreamIsExact
  <1>5. GatheredFromAll'
    <2>1. CASE kind # "value"
      BY <1>1, <2>1 DEF GatheredFromAll
    <2>2. CASE kind = "value"
      <3>1. ASSUME NEW b \in registered
            PROVE  call[b].result \in IF request.op = "health" THEN {"healthy", "unhealthy"}
                                                               ELSE {"lists", "lacks"}
        <4>1. /\ call[b].result \in Returns(request.op) /\ call[b].result \notin Failure
              /\ request.op \in {"health", "list_models"}
          BY <1>1, <2>2, <3>1 DEF IInv, CallsOK, CallOK, Pending
        <4>2. QED
          BY <4>1 DEF Returns
      <3>2. QED
        BY <1>1, <2>2, <3>1 DEF GatheredFromAll
    <2>3. QED
      BY <2>1, <2>2
  <1>6. QED
    BY <1>2, <1>3, <1>4, <1>5 DEF IInv

LEMMA GatherStep ==
    ASSUME IInv, Gathered \/ \E b \in Names : GatherFails(b)
    PROVE  IInv'
  <1>1. CASE Gathered
    BY <1>1, EndsGathered DEF Gathered
  <1>2. ASSUME NEW b \in Names, GatherFails(b) PROVE IInv'
    <2> DEFINE n == NamedBy(call[b].result, b)
    <2>1. /\ phase = "gather" /\ End(call[b].result, n) /\ call[b].result \in Failure
          /\ UNCHANGED <<serves, reloads, config, resolution, streaming>>
          /\ call[b].op = request.op /\ request.op \in {"health", "list_models"}
          /\ call[b].result \in Returns(request.op) \cup {"none"}
      BY <1>2 DEF GatherFails, IInv, PhasesOK, CallsOK, CallOK
    <2>2. request.op = "list_models" /\ call[b].result # "value"
      BY <2>1 DEF Returns, Failure
    <2>3. n \in Names \cup {NoBackend}
      BY DEF NamedBy
    <2> HIDE DEF n
    <2>4. QED
      BY <2>1, <2>2, <2>3, EndsGathered
  <1>3. QED
    BY <1>1, <1>2

-----------------------------------------------------------------------------
(* The calls go on *)

LEMMA FixtureStep == ASSUME IInv, NEW b \in Names, FixtureReturns(b) PROVE IInv'
  <1> DEFINE op == call[b].op
             r  == CASE op = "health"      -> "healthy"
                     [] op = "list_models" -> IF serves[b] THEN "lists" ELSE "lacks"
                     [] op = "chat"        -> "response"
                     [] op = "stream"      -> "body"
             d  == [call[b] EXCEPT !.result = r]
  <1>1. /\ Pending(b) /\ call' = [call EXCEPT ![b].result = r]
        /\ UNCHANGED <<serves, reloads>> /\ UNCHANGED Elsewhere
    BY DEF FixtureReturns, Elsewhere
  <1>2. /\ call \in [Names -> CallType] /\ CallOK(call[b]) /\ call[b] \in CallType
        /\ call[b].result = "none" /\ op \in Op
    BY <1>1 DEF IInv, TypeOK, HttpTypeOK, CallType, CallsOK, Pending
  <1>3. call' = [call EXCEPT ![b] = d]
    BY <1>1
  <1>4. r \in Returns(op) /\ r \in Result /\ r \notin {"none", "BackendUnavailable"}
    BY <1>2 DEF Op, Returns, Result
  <1>5. /\ d.op = op /\ d.result = r /\ d.exchanges = call[b].exchanges
        /\ d \in CallType
    BY <1>2, <1>4 DEF CallType
  <1>6. CallOK(d)
    BY <1>2, <1>4, <1>5 DEF CallOK
  <1>7. QED
    BY <1>1, <1>3, <1>5, <1>6, CallStep

LEMMA ServerStep == ASSUME IInv, NEW b \in Names, ServerAnswers(b) PROVE IInv'
  <1>1. PICK o \in Outcome :
           call' = [call EXCEPT ![b].exchanges = Append(@, o),
                                ![b].result = Returned(call[b], o, serves[b])]
    BY DEF ServerAnswers, Exchange
  <1> DEFINE d == [call[b] EXCEPT !.exchanges = Append(@, o),
                                  !.result = Returned(call[b], o, serves[b])]
  <1>2. Pending(b) /\ UNCHANGED <<serves, reloads>> /\ UNCHANGED Elsewhere
    BY DEF ServerAnswers, Exchange, Elsewhere
  <1>3. /\ call \in [Names -> CallType] /\ CallOK(call[b]) /\ call[b] \in CallType
        /\ serves[b] \in BOOLEAN
    BY DEF IInv, TypeOK, HttpTypeOK, CallType, CallsOK
  <1>4. call[b].op # "none" /\ call[b].result = "none"
    BY <1>2 DEF Pending
  <1>5. call' = [call EXCEPT ![b] = d]
    BY <1>1, <1>3
  <1>6. d \in CallType /\ CallOK(d) /\ d.op = call[b].op
    <2>1. d = [call[b] EXCEPT !.exchanges = Append(@, o),
                              !.result = Returned(call[b], o, serves[b])]
      OBVIOUS
    <2>2. \A e : e = [call[b] EXCEPT !.exchanges = Append(@, o),
                                     !.result = Returned(call[b], o, serves[b])] =>
                  e \in CallType /\ CallOK(e) /\ e.op = call[b].op
      BY <1>3, <1>4, ExchangeOK
    <2> HIDE DEF d
    <2>3. QED
      BY <2>1, <2>2
  <1>7. QED
    BY <1>2, <1>5, <1>6, CallStep

LEMMA ReloadStep == ASSUME IInv, NEW b \in Names, ServerReloads(b) PROVE IInv'
  <1> USE DEF ServerReloads, Reload, config, resolution, streaming
  <1>1. TypeOK'
    BY ReloadsAssumption DEF IInv, TypeOK, HttpTypeOK
  <1>2. CallsOK' /\ PhasesOK' /\ CountOK'
    BY DEF IInv, CallsOK, PhasesOK, CountOK, ChunksIn
  <1>3. ResolutionOK'
    BY DEF IInv, ResolutionOK, Candidates, First, Before, Unasked, HealthyIn
  <1>4. AutoPicksFirst' /\ GivingUpIsHonest'
    BY DEF IInv, AutoPicksFirst, GivingUpIsHonest, Candidates, Before, Passed, HealthyIn
  <1>5. FailuresAreAttributed' /\ StreamIsExact' /\ GatheredFromAll'
    BY DEF IInv, FailuresAreAttributed, StreamIsExact, GatheredFromAll
  <1>6. QED
    BY <1>1, <1>2, <1>3, <1>4, <1>5 DEF IInv

-----------------------------------------------------------------------------
(* The theorems *)

LEMMA InitOK == Init => IInv
  <1> SUFFICES ASSUME Init
               PROVE  IInv
    OBVIOUS
  <1> USE DEF Init, HttpInit
  <1>1. \A b \in Names : call[b] = NoCall /\ NoCall.op = "none"
    BY DEF NoCall
  <1>2. call \in [Names -> CallType] /\ CallsOK
    BY <1>1, StartedOK DEF CallsOK, Op
  <1>3. /\ phase = "start" /\ outcome.kind = "none"
        /\ Open \in [kind : {"none", "value", "closed", "raw"} \cup RuitongError,
                     backend : Names \cup {NoBackend}]
    BY DEF Open, Ended
  <1>4. TypeOK
    <2>1. body \in Bodies /\ position \in 0..Len(body) /\ chunks \in 0..position
      BY BodiesOK
    <2>2. HttpTypeOK
      BY <1>2, ReloadsAssumption DEF HttpTypeOK, CallType
    <2>3. QED
      BY <1>3, <2>1, <2>2 DEF TypeOK, Phase
  <1>5. PhasesOK /\ ResolutionOK /\ CountOK
    BY <1>1 DEF PhasesOK, ResolutionOK, CountOK
  <1>6. AutoPicksFirst /\ GivingUpIsHonest /\ FailuresAreAttributed /\ StreamIsExact
          /\ GatheredFromAll
    BY <1>3 DEF AutoPicksFirst, GivingUpIsHonest, FailuresAreAttributed, StreamIsExact,
                GatheredFromAll
  <1>7. QED
    BY <1>2, <1>4, <1>5, <1>6 DEF IInv

\* Every step keeps the invariant.
LEMMA NextOK == IInv /\ [Next]_vars => IInv'
  <1> SUFFICES ASSUME IInv, [Next]_vars
               PROVE  IInv'
    OBVIOUS
  <1>1. CASE Calls
    BY <1>1, ServerStep, FixtureStep DEF Calls
  <1>2. CASE Request
    BY <1>2, ResolveStep, StartGatherStep, GatherStep, ChatReturnsStep, BodyReadStep,
       ReadLineStep, HealthReadStep, ModelsReadStep DEF Request
  <1>3. CASE StreamClosed
    BY <1>3, StreamClosedStep
  <1>4. CASE \E b \in Names : ServerReloads(b)
    BY <1>4, ReloadStep
  <1>5. CASE UNCHANGED vars
    <2> USE <1>5 DEF vars, httpVars, config, resolution, streaming
    <2>1. TypeOK' /\ CallsOK' /\ PhasesOK' /\ CountOK'
      BY DEF IInv, TypeOK, HttpTypeOK, CallsOK, PhasesOK, CountOK, ChunksIn
    <2>2. ResolutionOK'
      BY DEF IInv, ResolutionOK, Candidates, First, Before, Unasked, HealthyIn
    <2>3. AutoPicksFirst' /\ GivingUpIsHonest'
      BY DEF IInv, AutoPicksFirst, GivingUpIsHonest, Candidates, Before, Passed, HealthyIn
    <2>4. FailuresAreAttributed' /\ StreamIsExact' /\ GatheredFromAll'
      BY DEF IInv, FailuresAreAttributed, StreamIsExact, GatheredFromAll
    <2>5. QED
      BY <2>1, <2>2, <2>3, <2>4 DEF IInv
  <1>6. QED
    BY <1>1, <1>2, <1>3, <1>4, <1>5 DEF Next, Done

\* IInv is inductive: it holds in every state of every execution.
THEOREM Invariance == Spec => []IInv
  BY InitOK, NextOK, PTL DEF Spec

\* Every variable keeps its type.
THEOREM TypeCorrect == Spec => []TypeOK
  <1>1. IInv => TypeOK
    BY DEF IInv
  <1>2. QED
    BY <1>1, Invariance, PTL

\* Automatic resolution returns the first candidate, by priority, that was read
\* as healthy and as serving the model, whatever the servers do meanwhile
\* (BackendRegistry.resolve).
THEOREM AutoPicksFirstHolds == Spec => []AutoPicksFirst
  <1>1. IInv => AutoPicksFirst
    BY DEF IInv
  <1>2. QED
    BY <1>1, Invariance, PTL

\* Automatic resolution gives up for one of the three reasons it states
\* (the end of BackendRegistry.resolve).
THEOREM GivingUpIsHonestHolds == Spec => []GivingUpIsHonest
  <1>1. IInv => GivingUpIsHonest
    BY DEF IInv
  <1>2. QED
    BY <1>1, Invariance, PTL

\* What goes wrong at the chosen backend reaches the caller as a RuitongError
\* naming it (Router.chat, Router.stream).
THEOREM FailuresAreAttributedHolds == Spec => []FailuresAreAttributed
  <1>1. IInv => FailuresAreAttributed
    BY DEF IInv
  <1>2. QED
    BY <1>1, Invariance, PTL

\* No server is asked again for what it answered, and none is asked more than
\* twice (VllmHttpBackend._request).
THEOREM RetriedOnlyUnansweredHolds == Spec => []RetriedOnlyUnanswered
  <1>1. IInv => RetriedOnlyUnanswered
    <2>1. SUFFICES ASSUME IInv, NEW b \in Names
                   PROVE  LET c == call[b]
                          IN  /\ Len(c.exchanges) <= 2
                              /\ \A i, j \in DOMAIN c.exchanges :
                                    i < j => c.exchanges[i] \in Retried
                              /\ c.result = "BackendUnavailable" =>
                                    \A i \in DOMAIN c.exchanges : c.exchanges[i] \in Retried
      BY DEF RetriedOnlyUnanswered
    <2>2. call[b].exchanges \in Seq(Outcome)
      BY <2>1 DEF IInv, TypeOK, HttpTypeOK
    <2>3. DOMAIN call[b].exchanges = 1..Len(call[b].exchanges)
      BY <2>2
    <2>4. QED
      BY <2>1, <2>3 DEF IInv, CallsOK, CallOK
  <1>2. QED
    BY <1>1, Invariance, PTL

\* A stream that ends well has yielded every chunk of the body up to its end,
\* and at least one (VllmHttpBackend.stream).
THEOREM StreamIsExactHolds == Spec => []StreamIsExact
  <1>1. IInv => StreamIsExact
    BY DEF IInv
  <1>2. QED
    BY <1>1, Invariance, PTL

\* A listing that is answered is that of every backend, and health is always
\* answered (BackendRegistry.list_models, BackendRegistry.health).
THEOREM GatheredFromAllHolds == Spec => []GatheredFromAll
  <1>1. IInv => GatheredFromAll
    BY DEF IInv
  <1>2. QED
    BY <1>1, Invariance, PTL
=============================================================================
