------------------------- MODULE FoundryCatalogProofs -------------------------
(***************************************************************************)
(* Proofs about FoundryCatalog, for any number of requests, endpoints and  *)
(* ticks and for any two times a catalog and a failure are used.           *)
(***************************************************************************)

EXTENDS FoundryCatalog, TLAPS

\* Type correctness: every variable of the catalog keeps its type.
THEOREM TypeCorrect == Spec => []TypeOK
<1> USE CatalogAssumption
<1>1. Init => TypeOK
  <2>1. ASSUME Init PROVE req \in [Requests -> [at : Steps, result : Endpoints \cup {None},
                                               generation : 0 .. generation, signed : BOOLEAN]]
    <3>1. 0 \in 0 .. generation
      BY <2>1 DEF Init
    <3>2. QED
      BY <2>1, <3>1 DEF Init, Steps
  <2>2. 0 \in 0 .. MaxClock /\ 0 \in Nat
    OBVIOUS
  <2>3. QED
    BY <2>1, <2>2, Zenon DEF Init, TypeOK
<1>2. TypeOK /\ [Next]_vars => TypeOK'
  <2> SUFFICES ASSUME TypeOK, [Next]_vars PROVE TypeOK'
    OBVIOUS
  <2> USE DEF TypeOK, Steps, Moves, catalogVars, clientVars
  <2>1. ASSUME NEW r \in Requests, Arrive(r) PROVE TypeOK'
    BY <2>1 DEF Arrive
  <2>2. ASSUME NEW r \in Requests, GiveUp(r) PROVE TypeOK'
    BY <2>2 DEF GiveUp
  <2>3. ASSUME NEW r \in Requests, UseCached(r) PROVE TypeOK'
    BY <2>3 DEF UseCached
  <2>4. ASSUME NEW r \in Requests, StartRefresh(r) PROVE TypeOK'
    BY <2>4 DEF StartRefresh
  <2>5. ASSUME NEW r \in Requests, NEW e \in Endpoints, Discovered(r, e) PROVE TypeOK'
    BY <2>5 DEF Discovered
  <2>6. ASSUME NEW r \in Requests, DiscoveryFails(r) PROVE TypeOK'
    BY <2>6 DEF DiscoveryFails
  <2>7. ASSUME NEW r \in Requests, StoreSnapshot(r) PROVE TypeOK'
    BY <2>7 DEF StoreSnapshot, Stored
  <2>8. ASSUME NEW r \in Requests, LeaveCatalog(r) PROVE TypeOK'
    BY <2>8 DEF LeaveCatalog, GateAfter
  <2>9. ASSUME NEW r \in Asks, CheckTarget(r) PROVE TypeOK'
    BY <2>9 DEF CheckTarget, Requests
  <2>10. ASSUME NEW r \in Asks, Sign(r) PROVE TypeOK'
    <3>1. StillVerified(r) \in BOOLEAN
      BY DEF StillVerified
    <3>2. QED
      BY <2>10, <3>1 DEF Sign, Requests
  <2>11. ASSUME NEW r \in Asks, NoToken(r) PROVE TypeOK'
    BY <2>11 DEF NoToken, Requests
  <2>12. CASE Tick
    BY <2>12 DEF Tick
  <2>13. CASE UNCHANGED vars
    BY <2>13 DEF vars
  <2>14. QED
    BY <2>1, <2>2, <2>3, <2>4, <2>5, <2>6, <2>7, <2>8, <2>9, <2>10, <2>11, <2>12, <2>13 DEF Next
<1>3. QED
  BY <1>1, <1>2, PTL DEF Spec

-----------------------------------------------------------------------------
(***************************************************************************)
(* The request inside the gate is the only one that discovers, stores or   *)
(* reads the cache.  What it found is what the client trusts, which is why *)
(* the comparison of generations always succeeds behind the gate.          *)
(***************************************************************************)
Inside == {"discovering", "storing", "returning"}

GateInv ==
    /\ \A r \in Requests : req[r].at \in Inside <=> gate = r
    /\ \A r \in Requests : req[r].at \in {"idle", "waiting"} => req[r].result = None

DiscoveryInv ==
    \A r \in Requests :
        /\ req[r].at = "discovering" =>
               /\ req[r].generation = generation
               /\ req[r].result = None /\ endpoint = None
        /\ req[r].at = "storing" => endpoint = req[r].result
        /\ req[r].at = "returning" => lastAttempt # None

\* A request that signs was configured with an endpoint of the cache.
SigningInv ==
    \A r \in Requests : req[r].at \in {"configured", "signing"} => req[r].result # None

CatalogInv == GateInv /\ DiscoveryInv /\ SigningInv /\ CacheAgreesWithClient

\* The inductive invariant of the catalog.
THEOREM CatalogCorrect == Spec => [](TypeOK /\ CatalogInv)
<1> USE CatalogAssumption
<1>1. Init => CatalogInv
  BY DEF Init, CatalogInv, GateInv, DiscoveryInv, SigningInv, CacheAgreesWithClient, Inside
<1>2. TypeOK /\ CatalogInv /\ [Next]_vars => CatalogInv'
  <2> SUFFICES ASSUME TypeOK, CatalogInv, [Next]_vars PROVE CatalogInv'
    OBVIOUS
  <2> USE DEF TypeOK, Steps, Moves, catalogVars, clientVars, Inside,
              CatalogInv, GateInv, DiscoveryInv, SigningInv, CacheAgreesWithClient
  <2>1. ASSUME NEW r \in Requests, Arrive(r) PROVE CatalogInv'
    BY <2>1 DEF Arrive
  <2>2. ASSUME NEW r \in Requests, GiveUp(r) PROVE CatalogInv'
    BY <2>2 DEF GiveUp
  <2>3. ASSUME NEW r \in Requests, UseCached(r) PROVE CatalogInv'
    BY <2>3 DEF UseCached, Cached
  <2>4. ASSUME NEW r \in Requests, StartRefresh(r) PROVE CatalogInv'
    BY <2>4 DEF StartRefresh
  <2>5. ASSUME NEW r \in Requests, NEW e \in Endpoints, Discovered(r, e) PROVE CatalogInv'
    BY <2>5 DEF Discovered
  <2>6. ASSUME NEW r \in Requests, DiscoveryFails(r) PROVE CatalogInv'
    BY <2>6 DEF DiscoveryFails
  <2>7. ASSUME NEW r \in Requests, StoreSnapshot(r) PROVE CatalogInv'
    <3>1. refreshErr' <=> req[r].result = None
      BY <2>7 DEF StoreSnapshot
    <3>2. gate' = r /\ snapshot' = req[r].result /\ endpoint' = req[r].result /\ lastAttempt' # None
      BY <2>7 DEF StoreSnapshot, Stored
    <3>3. CacheAgreesWithClient'
      BY <3>1, <3>2
    <3>4. GateInv' /\ DiscoveryInv' /\ SigningInv'
      BY <2>7, <3>2 DEF StoreSnapshot
    <3>5. QED
      BY <3>3, <3>4
  <2>8. ASSUME NEW r \in Requests, LeaveCatalog(r) PROVE CatalogInv'
    BY <2>8 DEF LeaveCatalog, GateAfter
  <2>9. ASSUME NEW r \in Asks, CheckTarget(r) PROVE CatalogInv'
    BY <2>9 DEF CheckTarget, Requests
  <2>10. ASSUME NEW r \in Asks, Sign(r) PROVE CatalogInv'
    BY <2>10 DEF Sign, Requests
  <2>11. ASSUME NEW r \in Asks, NoToken(r) PROVE CatalogInv'
    BY <2>11 DEF NoToken, Requests
  <2>12. CASE Tick
    BY <2>12 DEF Tick
  <2>13. CASE UNCHANGED vars
    BY <2>13 DEF vars
  <2>14. QED
    BY <2>1, <2>2, <2>3, <2>4, <2>5, <2>6, <2>7, <2>8, <2>9, <2>10, <2>11, <2>12, <2>13 DEF Next
<1>3. QED
  BY TypeCorrect, <1>1, <1>2, PTL DEF Spec

-----------------------------------------------------------------------------
\* What the pages show and what the client signs for agree whenever nobody
\* refreshes.
THEOREM CacheCorrect == Spec => []CacheAgreesWithClient
  BY CatalogCorrect, PTL DEF CatalogInv

\* Only Sign grants a signature, and it compares with the verified endpoint.
THEOREM SigningCorrect == Spec => SignedOnlyForVerified
<1>1. TypeOK /\ CatalogInv /\ [Next]_vars =>
        [\A r \in Asks : req'[r].signed /\ ~req[r].signed =>
            endpoint = req[r].result /\ endpoint # None]_vars
  <2> SUFFICES ASSUME TypeOK, CatalogInv, Next,
                      NEW a \in Asks, req'[a].signed, ~req[a].signed
               PROVE  endpoint = req[a].result /\ endpoint # None
    OBVIOUS
  <2> USE DEF TypeOK, Requests
  <2>1. ASSUME NEW r \in Requests, \/ Arrive(r) \/ GiveUp(r) \/ UseCached(r) \/ StartRefresh(r)
                                   \/ DiscoveryFails(r) \/ StoreSnapshot(r) \/ LeaveCatalog(r)
        PROVE  FALSE
    BY <2>1 DEF Arrive, GiveUp, UseCached, StartRefresh, DiscoveryFails, StoreSnapshot,
                LeaveCatalog, Moves
  <2>2. ASSUME NEW r \in Requests, NEW e \in Endpoints, Discovered(r, e) PROVE FALSE
    BY <2>2 DEF Discovered, Moves
  <2>3. ASSUME NEW r \in Asks, CheckTarget(r) \/ NoToken(r) PROVE FALSE
    BY <2>3 DEF CheckTarget, NoToken, Moves
  <2>4. ASSUME NEW r \in Asks, Sign(r) PROVE endpoint = req[a].result /\ endpoint # None
    BY <2>4 DEF Sign, StillVerified, CatalogInv, SigningInv
  <2>5. CASE Tick
    BY <2>5 DEF Tick
  <2>6. QED
    BY <2>1, <2>2, <2>3, <2>4, <2>5 DEF Next
<1>2. QED
  BY CatalogCorrect, <1>1, PTL DEF Spec, SignedOnlyForVerified

\* Only StartRefresh begins a discovery, and not while a failure is used from
\* the cache.
THEOREM FailureCorrect == Spec => FailureIsCached
<1>1. TypeOK /\ [Next]_vars =>
        [\A r \in Requests \ Forced :
            /\ req[r].at = "waiting" /\ req'[r].at = "discovering"
            /\ lastAttempt # None
            => clock - lastAttempt >= BadTTL]_vars
  <2> SUFFICES ASSUME TypeOK, Next, NEW p \in Requests \ Forced,
                      req[p].at = "waiting", req'[p].at = "discovering", lastAttempt # None
               PROVE  clock - lastAttempt >= BadTTL
    OBVIOUS
  <2> USE DEF TypeOK, Requests
  <2>1. ASSUME NEW r \in Requests, \/ Arrive(r) \/ GiveUp(r) \/ UseCached(r)
                                   \/ DiscoveryFails(r) \/ StoreSnapshot(r) \/ LeaveCatalog(r)
        PROVE  FALSE
    BY <2>1 DEF Arrive, GiveUp, UseCached, DiscoveryFails, StoreSnapshot, LeaveCatalog, Moves
  <2>2. ASSUME NEW r \in Requests, NEW e \in Endpoints, Discovered(r, e) PROVE FALSE
    BY <2>2 DEF Discovered, Moves
  <2>3. ASSUME NEW r \in Asks, CheckTarget(r) \/ Sign(r) \/ NoToken(r) PROVE FALSE
    BY <2>3 DEF CheckTarget, Sign, NoToken, Moves
  <2>4. ASSUME NEW r \in Requests, StartRefresh(r) PROVE clock - lastAttempt >= BadTTL
    <3>1. r = p
      BY <2>4 DEF StartRefresh
    <3>2. QED
      BY <2>4, <3>1, CatalogAssumption DEF StartRefresh, Cached
  <2>5. CASE Tick
    BY <2>5 DEF Tick
  <2>6. QED
    BY <2>1, <2>2, <2>3, <2>4, <2>5 DEF Next
<1>2. QED
  BY TypeCorrect, <1>1, PTL DEF Spec, FailureIsCached

===============================================================================
