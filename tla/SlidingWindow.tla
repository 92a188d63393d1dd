---------------------------- MODULE SlidingWindow ----------------------------
(***************************************************************************)
(* What the limiter promises the principals, without buckets, sweeps and   *)
(* pruning: a request is served exactly if its principal was granted less  *)
(* than Limit requests in the last Window ticks; a denied request costs    *)
(* nobody anything; and a principal loses its count only to make room for  *)
(* one without recent grants, while at least MaxTracked principals, itself *)
(* counted, were granted something no earlier than it was.                 *)
(***************************************************************************)
EXTENDS Integers, Sequences, FiniteSets

CONSTANTS Principal, Request, Limit, Window, MaxTracked

VARIABLES
    now,
    granted,   \* principal -> the times of its grants that count
    requests   \* where each request is, and whose it is

vars == <<now, granted, requests>>

Outside == [at |-> "nowhere", principal |-> "none"]

Nothing == [q \in Principal |-> <<>>]

Recent(p) == {i \in DOMAIN granted[p] : granted[p][i] >= now - Window}

Latest(p) == granted[p][Len(granted[p])]

\* The principals other than p that were granted something no earlier than q.
AsFresh(p, q) == {s \in Principal \ {p} : granted[s] # <<>> /\ Latest(q) <= Latest(s)}

\* Whether q may make room for p.
MayForget(p, q) ==
    /\ Recent(p) = {}
    /\ q # p /\ granted[q] # <<>>
    /\ Cardinality(AsFresh(p, q)) >= MaxTracked

-----------------------------------------------------------------------------
Init ==
    /\ now = 0
    /\ granted = Nothing
    /\ requests = [r \in Request |-> Outside]

Arrive(r) ==
    /\ requests[r] = Outside
    /\ \E p \in Principal :
          requests' = [requests EXCEPT ![r] = [at |-> "limiter", principal |-> p]]
    /\ UNCHANGED <<now, granted>>

Grant(r) ==
    /\ requests[r].at = "limiter"
    /\ requests' = [requests EXCEPT ![r].at = "handler"]
    /\ LET p == requests[r].principal
       IN  /\ Cardinality(Recent(p)) < Limit
           /\ \E forgotten \in {{}} \cup {{q} : q \in {s \in Principal : MayForget(p, s)}} :
                 granted' = [q \in Principal |->
                                IF q = p THEN Append(granted[p], now)
                                ELSE IF q \in forgotten THEN <<>> ELSE granted[q]]
    /\ UNCHANGED now

Deny(r) ==
    /\ requests[r].at = "limiter"
    /\ Cardinality(Recent(requests[r].principal)) >= Limit
    /\ requests' = [requests EXCEPT ![r] = Outside]
    /\ UNCHANGED <<now, granted>>

Leave(r) ==
    /\ requests[r].at = "handler"
    /\ requests' = [requests EXCEPT ![r] = Outside]
    /\ UNCHANGED <<now, granted>>

Tick == now' = now + 1 /\ UNCHANGED <<granted, requests>>

Restart == granted' = Nothing /\ requests' = [r \in Request |-> Outside] /\ UNCHANGED now

Next ==
    \/ \E r \in Request : Arrive(r) \/ Grant(r) \/ Deny(r) \/ Leave(r)
    \/ Tick
    \/ Restart

Spec == Init /\ [][Next]_vars
=============================================================================
