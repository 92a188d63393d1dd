------------------------------ MODULE VllmHttp ------------------------------
(***************************************************************************)
(* VllmHttpBackend (backends/vllm_http.py): health, list_models, chat and  *)
(* stream against OpenAI-compatible servers, with the one retry of         *)
(* _request.                                                               *)
(*                                                                         *)
(* A call is a record of what was asked, of the exchanges it took so far   *)
(* and of what it returned or raised. The server is the environment: every *)
(* exchange may end in any Outcome, and whether a server lists the model a *)
(* request names may change at any time. Left out: URLs, headers and what  *)
(* the completions say.                                                    *)
(***************************************************************************)
EXTENDS Naturals, Sequences, FiniteSets

CONSTANTS
    Names,     \* names a backend may be registered under
    MaxLines,  \* longest event stream considered
    Reloads    \* how often servers may load or unload the model (bound)

ASSUME LinesAssumption == MaxLines \in Nat \ {0}
ASSUME ReloadsAssumption == Reloads \in Nat

VARIABLES
    serves,    \* name -> does the server list the requested model
    reloads,   \* how often that has changed
    call       \* name -> the call in progress or the last one

httpVars == <<serves, reloads, call>>

-----------------------------------------------------------------------------
\* How one HTTP exchange may end. "refused": no connection; "lost": the server
\* worked on the request but its answer never came (time-out, broken read);
\* "cut": the server closed without an answer (RemoteProtocolError, which is no
\* NetworkError); "error": a 4xx or 5xx answer; and four kinds of 200 answers:
\* not JSON, JSON of another shape, JSON whose entries cannot be read, and ok.
Outcome == {"refused", "lost", "cut", "error", "garbled", "foreign", "odd", "ok"}

\* The exceptions _request takes for a connection error.
Retried == {"refused", "lost"}

Op == {"health", "list_models", "chat", "stream"}

\* "raw" is an exception that is not a RuitongError.
Failure == {"BackendError", "BackendUnavailable", "raw"}
Result == {"healthy", "unhealthy", "lists", "lacks", "response", "body"} \cup Failure

NoCall == [op |-> "none", exchanges |-> <<>>, result |-> "none"]
Started(op) == [op |-> op, exchanges |-> <<>>, result |-> "none"]
Pending(b) == call[b].op # "none" /\ call[b].result = "none"

\* What a line of a streamed body does to the loop of stream(): it yields a
\* chunk, is skipped (no data, not JSON, without choices), raises, or ends it.
Line == {"chunk", "skip", "odd", "done"}
Bodies == UNION {[1..n -> Line] : n \in 0..MaxLines}

-----------------------------------------------------------------------------
\* health(): one exchange, every exception is an unhealthy backend.
health(outcome) == IF outcome \in {"foreign", "odd", "ok"} THEN "healthy" ELSE "unhealthy"

\* list_models(): an answer that is JSON gives the ids of its entries.
list_models(outcome, listed) ==
    CASE outcome = "ok"                    -> IF listed THEN "lists" ELSE "lacks"
      [] outcome = "foreign"               -> "lacks"
      [] outcome \in {"odd", "cut"}        -> "raw"
      [] outcome \in {"garbled", "error"}  -> "BackendError"

\* chat(): an answer without choices is an error, one that cannot be validated
\* raises the error of the validation.
chat(outcome) ==
    CASE outcome = "ok"                              -> "response"
      [] outcome \in {"odd", "cut"}                  -> "raw"
      [] outcome \in {"garbled", "foreign", "error"} -> "BackendError"

\* stream(): the whole body is read first, whatever it is.
stream(outcome) ==
    CASE outcome = "cut"   -> "raw"
      [] outcome = "error" -> "BackendError"
      [] OTHER             -> "body"

Answered(op, outcome, listed) ==
    CASE op = "health"      -> health(outcome)
      [] op = "list_models" -> list_models(outcome, listed)
      [] op = "chat"        -> chat(outcome)
      [] op = "stream"      -> stream(outcome)

\* Mutant: an HTTP error is retried like a connection error.
Returned_RetriesErrors(c, outcome, listed) ==
    IF c.op # "health" /\ outcome \in Retried \cup {"error"}
    THEN IF Len(c.exchanges) = 0 THEN "none" ELSE "BackendUnavailable"
    ELSE Answered(c.op, outcome, listed)

\* What a call returns, or "none" if _request tries again: a connection error
\* is retried once, every other outcome is final. health() does not retry.
Returned(c, outcome, listed) ==
    IF c.op # "health" /\ outcome \in Retried
    THEN IF Len(c.exchanges) = 0 THEN "none" ELSE "BackendUnavailable"
    ELSE Answered(c.op, outcome, listed)

\* Mutant: the retry is not bounded.
Exchange_RetriesForever(b) ==
    /\ Pending(b)
    /\ \E outcome \in Outcome :
         call' = [call EXCEPT ![b].exchanges = <<outcome>>,
                              ![b].result = IF outcome \in Retried THEN "none"
                                            ELSE Answered(call[b].op, outcome, serves[b])]
    /\ UNCHANGED <<serves, reloads>>

\* One exchange of the call in progress at b.
Exchange(b) ==
    /\ Pending(b)
    /\ \E outcome \in Outcome :
         call' = [call EXCEPT ![b].exchanges = Append(@, outcome),
                              ![b].result = Returned(call[b], outcome, serves[b])]
    /\ UNCHANGED <<serves, reloads>>

\* A server loads the model, or unloads it.
Reload(b) ==
    /\ reloads < Reloads
    /\ reloads' = reloads + 1
    /\ serves' = [serves EXCEPT ![b] = ~@]
    /\ UNCHANGED call

HttpInit ==
    /\ serves \in [Names -> BOOLEAN]
    /\ reloads = 0
    /\ call = [b \in Names |-> NoCall]

HttpTypeOK ==
    /\ serves \in [Names -> BOOLEAN]
    /\ reloads \in 0..Reloads
    /\ call \in [Names -> [op : Op \cup {"none"}, exchanges : Seq(Outcome),
                           result : Result \cup {"none"}]]
=============================================================================
