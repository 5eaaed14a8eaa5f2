----------------------------- MODULE GalleryView -----------------------------
(***************************************************************************)
(* The list of the gallery for the port that is selected: Gallery.svelte asks *)
(* which vendors fit the port (/api/gallery/compatibility) and which snippets *)
(* its packets speak for (/api/gallery/discovery), 300 ms after the last      *)
(* selection.  Answers come in any order, or not at all; a request is aborted  *)
(* by the next of its kind.  Vendors and snippets are abstracted to the port   *)
(* that what is shown is about.                                            *)
(***************************************************************************)
EXTENDS Integers, Sequences, FiniteSets

CONSTANTS
    Ports, NoPort,
    MaxSelections   \* bound: selections of a port

VARIABLES
    activePortId,
    compatibilityTimeout, discoveryTimeout,    \* the port they are for, or NoPort
    compatibilityRequest, discoveryRequest,    \* in flight: port and number
    compatibilityRequestId, compatibilityCache,
    compatibilityByVendor, discoveryResults,   \* the port they are about
    discoveryPortId, discoveryRequestInFlight, discoveryLoading,
    selections,
    failed,         \* history: the last discovery of the port gave nothing
    stray           \* history: the vendors shown are an answer for a port no longer active

vars == <<activePortId, compatibilityTimeout, discoveryTimeout, compatibilityRequest,
          discoveryRequest, compatibilityRequestId, compatibilityCache, compatibilityByVendor,
          discoveryResults, discoveryPortId, discoveryRequestInFlight, discoveryLoading,
          selections, failed, stray>>

compatibilityVars == <<compatibilityTimeout, compatibilityRequest, compatibilityRequestId,
                       compatibilityCache, compatibilityByVendor>>
discoveryVars == <<discoveryTimeout, discoveryRequest, discoveryResults, discoveryPortId,
                   discoveryRequestInFlight, discoveryLoading>>

NoRequest == [port |-> NoPort, id |-> 0]

Init ==
    /\ activePortId = NoPort
    /\ compatibilityTimeout = NoPort /\ discoveryTimeout = NoPort
    /\ compatibilityRequest = NoRequest /\ discoveryRequest = NoRequest
    /\ compatibilityRequestId = 0 /\ compatibilityCache = {}
    /\ compatibilityByVendor = NoPort /\ discoveryResults = NoPort
    /\ discoveryPortId = NoPort /\ discoveryRequestInFlight = FALSE /\ discoveryLoading = FALSE
    /\ selections = 0 /\ failed = FALSE /\ stray = FALSE

\* Variant with a fault: no discovery is begun while one is in flight.
SelectWhileLoading(p) ==
    /\ p # activePortId /\ selections < MaxSelections
    /\ selections' = selections + 1
    /\ activePortId' = p
    /\ compatibilityTimeout' = p
    /\ compatibilityByVendor' = IF p = NoPort THEN NoPort ELSE compatibilityByVendor
    /\ discoveryTimeout' = IF p = discoveryPortId \/ discoveryRequestInFlight THEN NoPort ELSE p
    /\ discoveryPortId' = IF p = NoPort THEN NoPort ELSE discoveryPortId
    /\ discoveryResults' = IF p = NoPort THEN NoPort ELSE discoveryResults
    /\ discoveryRequestInFlight' = (p # NoPort /\ discoveryRequestInFlight)
    /\ UNCHANGED <<compatibilityRequest, compatibilityRequestId, compatibilityCache,
                   discoveryRequest, discoveryLoading, failed, stray>>

\* Another port, or none: the cleanups of both effects clear their timeouts, then
\* both run.
Select(p) ==
    /\ p # activePortId /\ selections < MaxSelections
    /\ selections' = selections + 1
    /\ activePortId' = p
    /\ compatibilityTimeout' = p
    /\ compatibilityByVendor' = IF p = NoPort THEN NoPort ELSE compatibilityByVendor
    /\ discoveryTimeout' = IF p = discoveryPortId THEN NoPort ELSE p
    /\ discoveryPortId' = IF p = NoPort THEN NoPort ELSE discoveryPortId
    /\ discoveryResults' = IF p = NoPort THEN NoPort ELSE discoveryResults
    /\ discoveryRequestInFlight' = (p # NoPort /\ discoveryRequestInFlight)
    /\ UNCHANGED <<compatibilityRequest, compatibilityRequestId, compatibilityCache,
                   discoveryRequest, discoveryLoading, failed, stray>>

\* loadCompatibility: from the cache, or by a request that aborts the one before.
LoadCompatibility ==
    /\ compatibilityTimeout # NoPort
    /\ compatibilityTimeout' = NoPort
    /\ IF compatibilityTimeout \in compatibilityCache
       THEN /\ compatibilityByVendor' = compatibilityTimeout
            /\ stray' = FALSE
            /\ UNCHANGED <<compatibilityRequestId, compatibilityRequest>>
       ELSE /\ compatibilityRequestId' = compatibilityRequestId + 1
            /\ compatibilityRequest' = [port |-> activePortId, id |-> compatibilityRequestId + 1]
            /\ UNCHANGED <<compatibilityByVendor, stray>>
    /\ UNCHANGED <<activePortId, compatibilityCache, discoveryVars, selections, failed>>

\* Its answer, or an error or the timeout of eight seconds.
CompatibilityAnswered(ok) ==
    LET r == compatibilityRequest IN
    /\ r # NoRequest
    /\ compatibilityRequest' = NoRequest
    /\ IF r.id # compatibilityRequestId
       THEN UNCHANGED <<compatibilityByVendor, compatibilityCache, stray>>
       ELSE /\ compatibilityByVendor' = IF ok THEN r.port ELSE NoPort
            /\ compatibilityCache' = IF ok THEN compatibilityCache \cup {r.port} ELSE compatibilityCache
            /\ stray' = (r.port # activePortId)
    /\ UNCHANGED <<activePortId, compatibilityTimeout, compatibilityRequestId, discoveryVars,
                   selections, failed>>

\* loadDiscovery: the request before is aborted, and its `finally` runs.
LoadDiscovery ==
    /\ discoveryTimeout # NoPort
    /\ discoveryTimeout' = NoPort
    /\ IF discoveryRequestInFlight /\ discoveryPortId = activePortId
       THEN UNCHANGED <<discoveryRequest, discoveryPortId, discoveryRequestInFlight, discoveryLoading,
                        failed>>
       ELSE /\ discoveryPortId' = activePortId
            /\ discoveryRequest' = [port |-> activePortId, id |-> 0]
            /\ discoveryRequestInFlight' = (discoveryRequest = NoRequest)
            /\ discoveryLoading' = (discoveryRequest = NoRequest)
            /\ failed' = FALSE
    /\ UNCHANGED <<activePortId, discoveryResults, compatibilityVars, selections, stray>>

\* Its answer: results, none because nothing is kept for the port, or an error.
DiscoveryAnswered(ok) ==
    /\ discoveryRequest # NoRequest
    /\ discoveryRequest' = NoRequest
    /\ discoveryResults' = IF ok THEN discoveryRequest.port ELSE discoveryResults
    /\ failed' = IF ok THEN failed ELSE TRUE
    /\ discoveryRequestInFlight' = FALSE /\ discoveryLoading' = FALSE
    /\ UNCHANGED <<activePortId, discoveryTimeout, discoveryPortId, compatibilityVars, selections,
                   stray>>

Next ==
    \/ \E p \in Ports \cup {NoPort} : Select(p)
    \/ LoadCompatibility \/ LoadDiscovery
    \/ \E ok \in BOOLEAN : CompatibilityAnswered(ok) \/ DiscoveryAnswered(ok)

Spec == Init /\ [][Next]_vars

-----------------------------------------------------------------------------
AtRest == /\ compatibilityTimeout = NoPort /\ discoveryTimeout = NoPort
          /\ compatibilityRequest = NoRequest /\ discoveryRequest = NoRequest

(***************************************************************************)
(* The gallery shows what it knows of the port that is selected: once every   *)
(* request has come back, the vendors that fit are those of the port unless   *)
(* an answer for a port left before overtook them, and the snippets           *)
(* discovered are those of the port unless its discovery failed              *)
(* (Gallery.svelte: one request of a kind, numbered, aborted by the next).    *)
(***************************************************************************)
GalleryFollowsThePort ==
    AtRest => /\ ~stray => compatibilityByVendor \in {activePortId, NoPort}
              /\ activePortId # NoPort /\ ~failed => discoveryResults = activePortId
              /\ ~discoveryLoading
=============================================================================
