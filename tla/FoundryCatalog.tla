---------------------------- MODULE FoundryCatalog ----------------------------
(***************************************************************************)
(* The catalog of AI deployments: foundryState.catalog (internal/web), a   *)
(* cache behind a gate, on top of foundry.Client, which discovers the      *)
(* endpoint of the configured resource and signs requests to it and to     *)
(* nothing else.                                                           *)
(*                                                                         *)
(* A catalog is known by its endpoint; which deployments it lists is left  *)
(* out.  The resource may have another endpoint at every discovery.        *)
(***************************************************************************)

EXTENDS Integers

CONSTANTS
    Pages,      \* requests that look at the catalog (settings page, AI settings form)
    Forced,     \* requests to reload it
    Asks,       \* requests that ask the model (goal chat, month planning)
    Endpoints,
    None,       \* no endpoint, no time, nobody
    GoodTTL,    \* how long a catalog is used, 5 minutes
    BadTTL,     \* how long a failure is used, 15 seconds
    MaxClock    \* bound: ticks

Requests == Pages \cup Forced \cup Asks

ASSUME CatalogAssumption ==
    /\ None \notin Endpoints \cup Requests \cup Nat
    /\ Forced \cap (Pages \cup Asks) = {} /\ Pages \cap Asks = {}
    /\ GoodTTL \in Nat /\ BadTTL \in 1 .. GoodTTL
    /\ MaxClock \in Nat

VARIABLES
    clock,
    gate,         \* foundryState.gate: who is inside
    snapshot,     \* the cached catalog
    refreshErr,   \* whether the last discovery failed
    lastAttempt,  \* when it ended
    endpoint,     \* Client.endpoint: the verified one
    generation,   \* Client.generation
    req           \* the requests: where they are and what they hold

catalogVars == <<gate, snapshot, refreshErr, lastAttempt>>
clientVars == <<endpoint, generation>>
vars == <<clock, catalogVars, clientVars, req>>

Steps == {"idle", "waiting", "discovering", "storing", "returning",
          "configured", "signing", "done"}

\* The domains of the variables.
TypeOK ==
    /\ clock \in 0 .. MaxClock
    /\ gate \in Requests \cup {None}
    /\ snapshot \in Endpoints \cup {None}
    /\ refreshErr \in BOOLEAN
    /\ lastAttempt \in 0 .. clock \/ lastAttempt = None
    /\ endpoint \in Endpoints \cup {None}
    /\ generation \in Nat
    /\ req \in [Requests -> [at : Steps, result : Endpoints \cup {None},
                             generation : 0 .. generation, signed : BOOLEAN]]

Init ==
    /\ clock = 0
    /\ gate = None
    /\ snapshot = None
    /\ refreshErr = FALSE
    /\ lastAttempt = None
    /\ endpoint = None
    /\ generation = 0
    /\ req = [r \in Requests |->
                 [at |-> "idle", result |-> None, generation |-> 0, signed |-> FALSE]]

Moves(r, step) == req' = [req EXCEPT ![r].at = step]

-----------------------------------------------------------------------------
(***************************************************************************)
(* catalog.                                                                *)
(***************************************************************************)
Arrive(r) ==
    /\ req[r].at = "idle"
    /\ Moves(r, "waiting")
    /\ UNCHANGED <<clock, catalogVars, clientVars>>

\* The caller is gone before the gate opened for it.
GiveUp(r) ==
    /\ req[r].at = "waiting"
    /\ Moves(r, "done")
    /\ UNCHANGED <<clock, catalogVars, clientVars>>

\* Bug: a failure is never used from the cache, every page load tries again.
CachedUnlessFailed(r) ==
    /\ r \notin Forced
    /\ lastAttempt # None /\ ~refreshErr
    /\ clock - lastAttempt < GoodTTL

Cached(r) ==
    /\ r \notin Forced
    /\ lastAttempt # None
    /\ clock - lastAttempt < IF refreshErr THEN BadTTL ELSE GoodTTL

UseCached(r) ==
    /\ req[r].at = "waiting"
    /\ gate = None
    /\ Cached(r)
    /\ gate' = r
    /\ Moves(r, "returning")
    /\ UNCHANGED <<clock, snapshot, refreshErr, lastAttempt, clientVars>>

\* Client.Refresh begins: earlier discovery is void from here on.
StartRefresh(r) ==
    /\ req[r].at = "waiting"
    /\ gate = None
    /\ ~Cached(r)
    /\ gate' = r
    /\ generation' = generation + 1
    /\ endpoint' = None
    /\ req' = [req EXCEPT ![r].at = "discovering", ![r].generation = generation + 1]
    /\ UNCHANGED <<clock, snapshot, refreshErr, lastAttempt>>

\* The account and every page of deployments arrived; a newer refresh would
\* win over this one.
Discovered(r, e) ==
    /\ req[r].at = "discovering"
    /\ IF generation = req[r].generation
       THEN /\ endpoint' = e
            /\ req' = [req EXCEPT ![r].at = "storing", ![r].result = e]
       ELSE /\ Moves(r, "storing")
            /\ UNCHANGED endpoint
    /\ UNCHANGED <<clock, catalogVars, generation>>

\* A refused, invalid, too long or late answer, or a caller that is gone.
DiscoveryFails(r) ==
    /\ req[r].at = "discovering"
    /\ Moves(r, "storing")
    /\ UNCHANGED <<clock, catalogVars, clientVars>>

\* Bug: after a failure the catalog of the last success is shown.
StoredOrOld(r) == IF req[r].result = None THEN snapshot ELSE req[r].result
Stored(r) == req[r].result

StoreSnapshot(r) ==
    /\ req[r].at = "storing"
    /\ snapshot' = Stored(r)
    /\ refreshErr' = (req[r].result = None)
    /\ lastAttempt' = clock
    /\ Moves(r, "returning")
    /\ UNCHANGED <<clock, gate, clientVars>>

\* Bug: the gate is left closed behind a failed discovery.
GateAfterSuccess == IF refreshErr THEN gate ELSE None
GateAfter == None

\* The answer is the cached one.  A request to the model also needs its
\* deployment to be in the catalog.
LeaveCatalog(r) ==
    /\ req[r].at = "returning"
    /\ gate' = GateAfter
    /\ \/ Moves(r, "done")
       \/ /\ r \in Asks
          /\ ~refreshErr
          /\ req' = [req EXCEPT ![r].at = "configured", ![r].result = snapshot]
    /\ UNCHANGED <<clock, snapshot, refreshErr, lastAttempt, clientVars>>

-----------------------------------------------------------------------------
(***************************************************************************)
(* Authorize, for the endpoint the request was configured with.  Fetching  *)
(* a token takes time, so the endpoint is compared before and after.       *)
(***************************************************************************)
CheckTarget(r) ==
    /\ req[r].at = "configured"
    /\ IF endpoint = req[r].result
       THEN req' = [req EXCEPT ![r].at = "signing", ![r].generation = generation]
       ELSE Moves(r, "done")
    /\ UNCHANGED <<clock, catalogVars, clientVars>>

\* Bug: the endpoint is compared before the token is fetched only.
TargetChecked(r) == TRUE
StillVerified(r) == generation = req[r].generation /\ endpoint = req[r].result

Sign(r) ==
    /\ req[r].at = "signing"
    /\ req' = [req EXCEPT ![r].at = "done", ![r].signed = StillVerified(r)]
    /\ UNCHANGED <<clock, catalogVars, clientVars>>

NoToken(r) ==
    /\ req[r].at = "signing"
    /\ Moves(r, "done")
    /\ UNCHANGED <<clock, catalogVars, clientVars>>

Tick ==
    /\ clock < MaxClock
    /\ clock' = clock + 1
    /\ UNCHANGED <<catalogVars, clientVars, req>>

Next ==
    \/ \E r \in Requests : Arrive(r)
    \/ \E r \in Requests : GiveUp(r)
    \/ \E r \in Requests : UseCached(r)
    \/ \E r \in Requests : StartRefresh(r)
    \/ \E r \in Requests, e \in Endpoints : Discovered(r, e)
    \/ \E r \in Requests : DiscoveryFails(r)
    \/ \E r \in Requests : StoreSnapshot(r)
    \/ \E r \in Requests : LeaveCatalog(r)
    \/ \E r \in Asks : CheckTarget(r)
    \/ \E r \in Asks : Sign(r)
    \/ \E r \in Asks : NoToken(r)
    \/ Tick

Spec == Init /\ [][Next]_vars

\* Discovery and signing have timeouts; a channel serves the goroutines that
\* wait for it in turn.  Nobody has to give up.
Fairness ==
    \A r \in Requests :
        /\ SF_vars(UseCached(r) \/ StartRefresh(r))
        /\ WF_vars((\E e \in Endpoints : Discovered(r, e)) \/ DiscoveryFails(r))
        /\ WF_vars(StoreSnapshot(r) \/ LeaveCatalog(r))
        /\ WF_vars(CheckTarget(r) \/ Sign(r) \/ NoToken(r))

LiveSpec == Spec /\ Fairness

-----------------------------------------------------------------------------
\* The cache in the web layer and the endpoint the client trusts agree
\* whenever nobody refreshes: what a page shows is what can be signed for,
\* and after a failure neither is left.
CacheAgreesWithClient ==
    gate = None \/ req[gate].at = "returning" =>
        /\ snapshot = endpoint
        /\ lastAttempt # None => (refreshErr <=> snapshot = None)

\* A credential goes only to the endpoint that is verified at that moment: not
\* to one that was verified when the request was configured, and not to one
\* that is being looked up again.
SignedOnlyForVerified ==
    [][\A r \in Asks : req'[r].signed /\ ~req[r].signed =>
          endpoint = req[r].result /\ endpoint # None]_vars

\* Unless a reload was asked for, a failing Azure is left alone for the whole
\* of BadTTL, however many pages are loaded.
FailureIsCached ==
    [][\A r \in Requests \ Forced :
          /\ req[r].at = "waiting" /\ req'[r].at = "discovering"
          /\ lastAttempt # None
          => clock - lastAttempt >= BadTTL]_vars

\* Every request is answered, also when discovery fails or callers leave.
EveryRequestEnds == \A r \in Requests : req[r].at = "waiting" ~> req[r].at = "done"

=============================================================================
