------------------------------ MODULE Routing ------------------------------
(***************************************************************************)
(* BackendRegistry (registry.py) and Router (router.py) over the backends  *)
(* of VllmHttp and the fixtures of backends/fake.py: one request, from its *)
(* arrival to what it returns or raises.                                   *)
(*                                                                         *)
(* The registry does not change while requests are served (it is filled in *)
(* lifespan), and a request keeps nothing once it has ended, so requests   *)
(* meet only at the servers, which may do anything. An action is one       *)
(* await: an exchange of the call in progress, or what the coroutine does  *)
(* with the result until its next await.                                   *)
(***************************************************************************)
EXTENDS VllmHttp

CONSTANTS
    Priority   \* config.auto_backend_priority

ASSUME NamesAssumption == {"auto", "no backend"} \cap Names = {}
ASSUME PriorityAssumption ==
    /\ Priority \in Seq(Names)
    /\ \A i, j \in DOMAIN Priority : Priority[i] = Priority[j] => i = j

VARIABLES
    registered, \* the names in the registry
    fixture,    \* those of them that are fixtures: no endpoint was configured
    request,    \* what was asked: the operation and the preferred backend
    phase,      \* the await the request is at
    health_map, \* name -> its health, as resolve() read it
    listed,     \* name -> how its list_models call ended, for this request
    backend,    \* the backend resolve() returned, or NoBackend
    body,       \* the lines of the streamed body
    position,   \* how many of them the loop of stream() has read
    chunks,     \* how many chunks it has yielded
    outcome     \* how the request ended

config == <<registered, fixture, request>>
resolution == <<health_map, listed, backend>>
streaming == <<body, position, chunks>>

vars == <<httpVars, config, phase, resolution, streaming, outcome>>

-----------------------------------------------------------------------------
NoBackend == "no backend"
Automatic == "auto"

RouterOp == {"chat", "stream", "health", "list_models"}
Phase == {"start", "health", "models", "serve", "yield", "gather", "done"}

\* An outcome: the value, or the exception and the backend it names.
Ended(kind, b) == [kind |-> kind, backend |-> b]
Open == Ended("none", NoBackend)
RuitongError == {"BackendError", "BackendUnavailable", "ModelNotFound"}

Candidates == {Priority[i] : i \in DOMAIN Priority} \cap registered

\* m has priority over n.
Before(m, n) == \E i, j \in DOMAIN Priority : i < j /\ Priority[i] = m /\ Priority[j] = n

\* Mutant: the candidates are taken in the reverse of their order.
First_Last(n, S) == n \in S /\ \A m \in S \ {n} : Before(m, n)

\* n comes first among the candidates in S.
First(n, S) == n \in S /\ \A m \in S \ {n} : Before(n, m)

HealthyIn(hm) == {n \in Candidates : hm[n] = "healthy"}

-----------------------------------------------------------------------------
\* A fixture answers at once: it is healthy, lists its models, and (accept_any)
\* serves whatever is asked.
FixtureReturns(b) ==
    /\ b \in fixture
    /\ Pending(b)
    /\ LET op == call[b].op
       IN  call' = [call EXCEPT ![b].result =
                      CASE op = "health"      -> "healthy"
                        [] op = "list_models" -> IF serves[b] THEN "lists" ELSE "lacks"
                        [] op = "chat"        -> "response"
                        [] op = "stream"      -> "body"]
    /\ UNCHANGED <<serves, reloads, config, phase, resolution, streaming, outcome>>

ServerAnswers(b) ==
    /\ b \in registered \ fixture
    /\ Exchange(b)
    /\ UNCHANGED <<config, phase, resolution, streaming, outcome>>

ServerReloads(b) ==
    /\ b \notin fixture
    /\ Reload(b)
    /\ UNCHANGED <<config, phase, resolution, streaming, outcome>>

-----------------------------------------------------------------------------
(* What the coroutine does between two awaits *)

Await(op, n, where) ==
    /\ call' = [call EXCEPT ![n] = Started(op)]
    /\ phase' = where
    /\ UNCHANGED outcome

End(kind, n) ==
    /\ phase' = "done"
    /\ outcome' = Ended(kind, n)
    /\ UNCHANGED call

\* The backend an exception of b names: a raw one names none.
NamedBy(failure, b) == IF failure \in RuitongError THEN b ELSE NoBackend

\* The second loop of resolve(), from where it stands: the first healthy
\* candidate that was not asked yet is asked for its models; when all were
\* asked the model is not found, and without a healthy one nothing is available.
AskNext(hm, answers) ==
    LET healthy == HealthyIn(hm)
        left    == {n \in healthy : answers[n] = "unasked"}
    IN  \/ \E n \in left : First(n, left) /\ Await("list_models", n, "models")
        \/ /\ left = {}
           /\ \E n \in healthy : First(n, healthy) /\ End("ModelNotFound", n)
        \/ /\ healthy = {}
           /\ \E n \in Candidates : First(n, Candidates) /\ End("BackendUnavailable", n)

\* resolve() up to its first await.
Resolve ==
    /\ phase = "start"
    /\ request.op \in {"chat", "stream"}
    /\ \/ /\ request.preferred = Automatic
          /\ \/ Candidates = {} /\ End("BackendUnavailable", NoBackend)
             \/ \E n \in Candidates :
                  First(n, Candidates) /\ Await("health", n, "health")
       \/ /\ request.preferred \in registered
          /\ Await("list_models", request.preferred, "models")
       \/ /\ request.preferred \notin registered \cup {Automatic}
          /\ End("BackendUnavailable", request.preferred)
    /\ UNCHANGED <<serves, reloads, config, resolution, streaming>>

\* The health of candidate n has come in; the next one is read, or, after the
\* last, the second loop begins.
HealthRead(n) ==
    /\ phase = "health"
    /\ n \in Candidates /\ health_map[n] = "unread"
    /\ call[n].op = "health" /\ ~Pending(n)
    /\ health_map' = [health_map EXCEPT ![n] = call[n].result]
    /\ LET unread == {m \in Candidates : health_map'[m] = "unread"}
       IN  \/ \E m \in unread : First(m, unread) /\ Await("health", m, "health")
           \/ unread = {} /\ AskNext(health_map', listed)
    /\ UNCHANGED <<serves, reloads, config, listed, backend, streaming>>

\* Mutant: a listing that fails is taken for one without the model.
ModelsRead_FailureIsLack(n) ==
    /\ phase = "models"
    /\ listed[n] = "unasked"
    /\ call[n].op = "list_models" /\ ~Pending(n)
    /\ listed' = [listed EXCEPT ![n] = call[n].result]
    /\ \/ /\ listed'[n] = "lists"
          /\ backend' = n
          /\ Await(request.op, n, "serve")
       \/ /\ listed'[n] # "lists"
          /\ IF request.preferred = Automatic
             THEN AskNext(health_map, listed')
             ELSE End("ModelNotFound", n)
          /\ UNCHANGED backend
    /\ UNCHANGED <<serves, reloads, config, health_map, streaming>>

\* The models of n have come in: n is the answer, or the next candidate is
\* asked. An exception of list_models passes through resolve().
ModelsRead(n) ==
    /\ phase = "models"
    /\ listed[n] = "unasked"
    /\ call[n].op = "list_models" /\ ~Pending(n)
    /\ listed' = [listed EXCEPT ![n] = call[n].result]
    /\ \/ /\ listed'[n] = "lists"
          /\ backend' = n
          /\ Await(request.op, n, "serve")
       \/ /\ listed'[n] = "lacks"
          /\ IF request.preferred = Automatic
             THEN AskNext(health_map, listed')
             ELSE End("ModelNotFound", n)
          /\ UNCHANGED backend
       \/ /\ listed'[n] \in Failure
          /\ End(listed'[n], NamedBy(listed'[n], n))
          /\ UNCHANGED backend
    /\ UNCHANGED <<serves, reloads, config, health_map, streaming>>

-----------------------------------------------------------------------------
(* Router.chat and Router.stream *)

\* Mutant: what the backend raises is passed on as it is.
Wrapped_NotAtAll(failure) == failure

\* A RuitongError passes, any other exception becomes a BackendError.
Wrapped(failure) == IF failure \in RuitongError THEN failure ELSE "BackendError"

\* chat() of the backend has returned or raised.
ChatReturns ==
    /\ phase = "serve"
    /\ ~Pending(backend)
    /\ \/ call[backend].result = "response" /\ End("value", backend)
       \/ /\ call[backend].result \in Failure
          /\ End(Wrapped(call[backend].result), backend)
    /\ UNCHANGED <<serves, reloads, config, resolution, streaming>>

\* The body of a stream has been read: that of a fixture is one chunk, that of a
\* server may be anything if it is an event stream and has no lines otherwise.
BodyRead ==
    /\ phase = "serve"
    /\ call[backend].result = "body"
    /\ phase' = "yield"
    /\ body' \in IF backend \in fixture THEN {<<"chunk">>}
                 ELSE IF call[backend].exchanges[Len(call[backend].exchanges)] = "ok"
                 THEN Bodies ELSE {<<>>}
    /\ UNCHANGED <<httpVars, config, resolution, position, chunks, outcome>>

\* Mutant: a body that breaks off without a chunk ends the stream quietly.
StreamEnds_Quietly ==
    /\ End("value", backend)
    /\ UNCHANGED <<position, chunks>>

\* The loop is left: a stream without a chunk is an error.
StreamEnds ==
    /\ End(IF chunks = 0 THEN "BackendError" ELSE "value", backend)
    /\ UNCHANGED <<position, chunks>>

\* The next line of the body, or its end.
ReadLine ==
    /\ phase = "yield"
    /\ \/ position = Len(body) /\ StreamEnds
       \/ /\ position < Len(body)
          /\ LET line == body[position + 1]
             IN  \/ line = "done" /\ StreamEnds
                 \/ /\ line \in {"chunk", "skip"}
                    /\ position' = position + 1
                    /\ chunks' = chunks + (IF line = "chunk" THEN 1 ELSE 0)
                    /\ UNCHANGED <<phase, outcome, call>>
                 \/ /\ line = "odd"
                    /\ End(Wrapped("raw"), backend)
                    /\ UNCHANGED <<position, chunks>>
    /\ UNCHANGED <<serves, reloads, config, resolution, body>>

\* Whoever reads the stream stops reading after a chunk.
StreamClosed ==
    /\ phase = "yield"
    /\ position > 0 /\ body[position] = "chunk"
    /\ End("closed", backend)
    /\ UNCHANGED <<serves, reloads, config, resolution, streaming>>

-----------------------------------------------------------------------------
(* registry.health and registry.list_models, for GET /v1/models and others *)

StartGather ==
    /\ phase = "start"
    /\ request.op \in {"health", "list_models"}
    /\ call' = [b \in Names |-> IF b \in registered THEN Started(request.op) ELSE NoCall]
    /\ phase' = "gather"
    /\ UNCHANGED <<serves, reloads, config, resolution, streaming, outcome>>

\* gather() raises what one of its calls raised; the others go on unheard.
GatherFails(b) ==
    /\ phase = "gather"
    /\ b \in registered
    /\ call[b].result \in Failure
    /\ End(call[b].result, NamedBy(call[b].result, b))
    /\ UNCHANGED <<serves, reloads, config, resolution, streaming>>

\* Mutant: what failed is dropped from the listing.
Gathered_DropsFailures ==
    /\ phase = "gather"
    /\ \A b \in registered : ~Pending(b)
    /\ End("value", NoBackend)
    /\ UNCHANGED <<serves, reloads, config, resolution, streaming>>

\* Every call has returned.
Gathered ==
    /\ phase = "gather"
    /\ \A b \in registered : ~Pending(b) /\ call[b].result \notin Failure
    /\ End("value", NoBackend)
    /\ UNCHANGED <<serves, reloads, config, resolution, streaming>>

-----------------------------------------------------------------------------
Init ==
    /\ HttpInit
    /\ registered \in SUBSET Names
    /\ fixture \in SUBSET registered
    /\ request \in [op : RouterOp, preferred : Names \cup {Automatic}]
    /\ phase = "start"
    /\ health_map = [n \in Names |-> "unread"]
    /\ listed = [n \in Names |-> "unasked"]
    /\ backend = NoBackend
    /\ body = <<>> /\ position = 0 /\ chunks = 0
    /\ outcome = Open

Calls == \E b \in Names : ServerAnswers(b) \/ FixtureReturns(b)

Request ==
    \/ Resolve \/ StartGather \/ Gathered
    \/ ChatReturns \/ BodyRead \/ ReadLine
    \/ \E n \in Names : HealthRead(n) \/ ModelsRead(n) \/ GatherFails(n)

Done == phase = "done" /\ UNCHANGED vars

Next == Calls \/ Request \/ StreamClosed \/ (\E b \in Names : ServerReloads(b)) \/ Done

\* The event loop runs what can run, and every exchange ends: VllmHttpBackend
\* gives its client a timeout.
Fairness == WF_vars(Calls) /\ WF_vars(Request)

Spec == Init /\ [][Next]_vars /\ Fairness

-----------------------------------------------------------------------------
TypeOK ==
    /\ HttpTypeOK
    /\ registered \in SUBSET Names /\ fixture \in SUBSET registered
    /\ request \in [op : RouterOp, preferred : Names \cup {Automatic}]
    /\ phase \in Phase
    /\ health_map \in [Names -> {"unread", "healthy", "unhealthy"}]
    /\ listed \in [Names -> {"unasked", "lists", "lacks"} \cup Failure]
    /\ backend \in Names \cup {NoBackend}
    /\ body \in Bodies /\ position \in 0..Len(body) /\ chunks \in 0..position
    /\ outcome \in [kind : {"none", "value", "closed", "raw"} \cup RuitongError,
                    backend : Names \cup {NoBackend}]

\* resolve() may pass over n: health() reported it unhealthy, which it also does
\* when the server does not answer, or its model list came and lacks the model.
Passed(n) == health_map[n] = "unhealthy" \/ (health_map[n] = "healthy" /\ listed[n] = "lacks")

\* The policy of automatic resolution, over everything it read, in whatever
\* order the servers changed meanwhile: the backend it returns was healthy and
\* listed the model, and every candidate before it was ruled out by its own health
\* check -- to which no answer counts as unhealthy -- or by its own list of models
\* if that came.  A list that did not come rules out nobody.
AutoPicksFirst ==
    request.preferred = Automatic /\ backend # NoBackend =>
        /\ backend \in Candidates
        /\ health_map[backend] = "healthy" /\ listed[backend] = "lists"
        /\ \A n \in Candidates : Before(n, backend) => Passed(n)

\* Why automatic resolution gives up: ModelNotFound means that every healthy
\* candidate sent a list of models without it, and BackendUnavailable
\* without a listing that failed means that no candidate was healthy.
GivingUpIsHonest ==
    request.preferred = Automatic /\ request.op \in {"chat", "stream"}
      /\ phase = "done" /\ backend = NoBackend =>
        \/ outcome.kind = "ModelNotFound" /\ HealthyIn(health_map) # {}
             /\ \A n \in Candidates : Passed(n)
        \/ outcome.kind = "BackendUnavailable"
             /\ \A n \in Candidates : health_map[n] = "unhealthy"
        \/ \E n \in Candidates : /\ listed[n] \in Failure
                                 /\ outcome = Ended(listed[n], NamedBy(listed[n], n))

\* Once a backend is chosen, whatever goes wrong in its chat or stream reaches
\* the caller as a RuitongError that names it.
FailuresAreAttributed ==
    phase = "done" /\ backend # NoBackend =>
        /\ outcome.backend = backend
        /\ outcome.kind \in RuitongError \cup {"value", "closed"}

\* A server is asked a second time only if it never answered the first: what a
\* backend answered is never asked again, so a POST that was answered, by an
\* error too, was not repeated; and a backend that answered is not unavailable.
RetriedOnlyUnanswered ==
    \A b \in Names :
        LET c == call[b]
        IN  /\ Len(c.exchanges) <= 2
            /\ \A i, j \in DOMAIN c.exchanges : i < j => c.exchanges[i] \in Retried
            /\ c.result = "BackendUnavailable" =>
                  \A i \in DOMAIN c.exchanges : c.exchanges[i] \in Retried

\* A stream that ends without an error has yielded at least one chunk, and all
\* the chunks the body holds before its end or [DONE], each once.
StreamIsExact ==
    request.op = "stream" /\ outcome.kind = "value" =>
        LET before == {i \in DOMAIN body : \A j \in 1..i : body[j] # "done"}
        IN  /\ chunks = Cardinality({i \in before : body[i] = "chunk"})
            /\ chunks > 0
            /\ \A i \in before : body[i] # "odd"

\* The health of the backends is always answered, whatever their servers do; a
\* listing is answered only with the models of every backend.
GatheredFromAll ==
    phase = "done" /\ request.op \in {"health", "list_models"} =>
        IF outcome.kind = "value"
        THEN \A b \in registered : call[b].result \in
                IF request.op = "health" THEN {"healthy", "unhealthy"} ELSE {"lists", "lacks"}
        ELSE request.op = "list_models"

\* Every request is answered in the end.
RequestEnds == <>(phase = "done")
=============================================================================
