---------------------------- MODULE RateLimiter ----------------------------
(***************************************************************************)
(* The fixed-window request limiter of the service,                         *)
(* packages/service/src/utils/rate-limiter.ts, with its bounded table of    *)
(* clients and the interval that cleans it.                                 *)
(***************************************************************************)
EXTENDS Integers, Sequences, FiniteSetsExt

CONSTANTS
    Ips,
    WindowMs,       \* windowMs, in ticks
    MaxRequests,    \* maxRequests
    MaxTracked,     \* MAX_TRACKED_IPS
    MaxTime,        \* bound on the clock
    MaxAllowed      \* bound on the requests allowed, of all clients

VARIABLES
    now,
    hits,       \* the Map: per client its [count, resetTime]
    older,      \* its order: pairs of clients, the first inserted earlier
    allowed,    \* per client, the times of its allowed requests (history)
    refused,    \* per client, the time of its last refusal, -1 at first (history)
    evicted     \* clients whose record was evicted before it expired (history)

vars == <<now, hits, older, allowed, refused, evicted>>

Init ==
    /\ now = 0
    /\ hits = <<>>
    /\ older = {}
    /\ allowed = [ip \in Ips |-> <<>>]
    /\ refused = [ip \in Ips |-> -1]
    /\ evicted = {}

Tracked == DOMAIN hits
Expired(ip) == now > hits[ip].resetTime
Live == {ip \in Tracked : ~Expired(ip)}

\* The records left when a client is new: with no free place those of the
\* cleanup, and if that does not help all but the oldest insertion.
Room(stay) ==
    LET left == IF Cardinality(Tracked) < MaxTracked THEN Tracked ELSE Live
    IN IF Cardinality(left) < MaxTracked THEN stay = left
       ELSE \E ip \in left : /\ \A c \in left \ {ip} : <<ip, c>> \in older
                             /\ stay = left \ {ip}

Fresh == [count |-> 1, resetTime |-> now + WindowMs]

Allow(ip) == /\ MapThenSumSet(LAMBDA c : Len(allowed[c]), Ips) < MaxAllowed
             /\ allowed' = [allowed EXCEPT ![ip] = Append(@, now)]
             /\ UNCHANGED <<now, refused>>

\* No record of the client.
NewClient(ip) ==
    /\ ip \notin Tracked
    /\ \E stay \in SUBSET Tracked :
         /\ Room(stay)
         /\ hits' = [c \in stay \cup {ip} |-> IF c = ip THEN Fresh ELSE hits[c]]
         /\ older' = (older \cap (stay \X stay)) \cup (stay \X {ip})
         /\ evicted' = evicted \cup (Live \ stay)
    /\ Allow(ip)

\* The window of the client is over; set keeps the place of the key.
NewWindow(ip) ==
    /\ ip \in Tracked /\ Expired(ip)
    /\ hits' = [hits EXCEPT ![ip] = Fresh]
    /\ Allow(ip)
    /\ UNCHANGED <<older, evicted>>

CountHit(ip) ==
    /\ ip \in Tracked /\ ~Expired(ip) /\ hits[ip].count < MaxRequests
    /\ hits' = [hits EXCEPT ![ip].count = @ + 1]
    /\ Allow(ip)
    /\ UNCHANGED <<older, evicted>>

Refuse(ip) ==
    /\ ip \in Tracked /\ ~Expired(ip) /\ hits[ip].count >= MaxRequests
    /\ refused' = [refused EXCEPT ![ip] = now]
    /\ UNCHANGED <<now, hits, older, allowed, evicted>>

\* The interval of one minute: cleanup.
CleanupInterval == /\ hits' = [ip \in Live |-> hits[ip]]
                   /\ older' = older \cap (Live \X Live)
                   /\ UNCHANGED <<now, allowed, refused, evicted>>

Tick == /\ now < MaxTime
        /\ now' = now + 1
        /\ UNCHANGED <<hits, older, allowed, refused, evicted>>

Next == \/ Tick
        \/ CleanupInterval
        \/ \E ip \in Ips : NewClient(ip) \/ NewWindow(ip) \/ CountHit(ip) \/ Refuse(ip)

Spec == Init /\ [][Next]_vars

-----------------------------------------------------------------------------
(* Properties *)

InSpan(ip, t) == {k \in DOMAIN allowed[ip] : allowed[ip][k] \in t .. t + WindowMs}

\* However the windows fall, a client whose record was never evicted gets
\* less than two allowances within one length of the window, and is refused
\* only when it has used one up.
AllowanceIsBounded ==
    \A ip \in Ips \ evicted :
        /\ \A t \in 0 .. MaxTime : Cardinality(InSpan(ip, t)) < 2 * MaxRequests
        /\ refused[ip] >= 0 =>
             Cardinality(InSpan(ip, refused[ip] - WindowMs)) >= MaxRequests

\* The table never outgrows its limit.
TableIsBounded == Cardinality(Tracked) <= MaxTracked

-----------------------------------------------------------------------------
(* What makes these inductive, for a client that was never evicted *)

\* Its requests lie in the order of time, and none in the future.
TimesAreOrdered(ip) ==
    \A i, j \in DOMAIN allowed[ip] :
        allowed[ip][i] <= now /\ (i <= j => allowed[ip][i] <= allowed[ip][j])

\* Its record counts its last requests, from the first of the window on, ...
RecordCounts(ip) ==
    ip \in Tracked =>
        /\ hits[ip].count \in 1 .. MaxRequests
        /\ hits[ip].count <= Len(allowed[ip])
        /\ allowed[ip][Len(allowed[ip]) + 1 - hits[ip].count] = hits[ip].resetTime - WindowMs

\* ... and the window before had an allowance at most, and was over; without
\* a record the last one is over.
WindowsApart(ip) ==
    \A i \in DOMAIN allowed[ip] :
        IF ip \in Tracked
        THEN i + MaxRequests <= Len(allowed[ip]) + 1 - hits[ip].count =>
                 allowed[ip][i] + WindowMs < hits[ip].resetTime - WindowMs
        ELSE i + MaxRequests <= Len(allowed[ip]) + 1 =>
                 allowed[ip][i] + WindowMs < now

\* So two allowances of requests are more than a window apart.
AllowancesApart(ip) ==
    \A i, j \in DOMAIN allowed[ip] :
        i + 2 * MaxRequests <= j + 1 => allowed[ip][i] + WindowMs < allowed[ip][j]

\* What a refusal saw: an allowance of requests in the window up to it.
RefusalHadCause(ip) ==
    refused[ip] >= 0 =>
        \E k \in DOMAIN allowed[ip] :
            /\ k + MaxRequests - 1 \in DOMAIN allowed[ip]
            /\ allowed[ip][k] >= refused[ip] - WindowMs
            /\ allowed[ip][k + MaxRequests - 1] <= refused[ip]

LimiterInv ==
    \A ip \in Ips \ evicted :
        /\ TimesAreOrdered(ip) /\ RecordCounts(ip) /\ WindowsApart(ip)
        /\ AllowancesApart(ip) /\ RefusalHadCause(ip)
=============================================================================
