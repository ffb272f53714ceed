----------------------------- MODULE RateLimits -----------------------------
(***************************************************************************)
(* Fixed-window rate limits in the rate_limit_buckets table                *)
(* (consumeRateLimit, packages/db/src/v2-admin.ts), which the HTTP hooks   *)
(* (apps/api/src/app.ts) and the capacity controller of the workers        *)
(* (apps/api/src/capacity.ts) share, in any number of processes.           *)
(*                                                                         *)
(* A caller reads its clock, computes the window and opens a transaction   *)
(* that counts the request and deletes some buckets that are older than    *)
(* the retention period.  It may stall between the two for up to MaxStall. *)
(***************************************************************************)
EXTENDS Integers

CONSTANTS Callers,    \* requests and worker steps that may be under way at once
          Buckets,    \* subject and bucket name, e.g. the request bucket of an IP
          Window,     \* Window[b]: length of its windows
          Limit,      \* Limit[b]: requests admitted in one window
          Retention,  \* RATE_LIMIT_RETENTION_SECONDS
          MaxStall,   \* bound on the time between clock and transaction
          MaxTime     \* bound on the clock

ASSUME LimitsAssumption ==
    /\ "none" \notin Buckets
    /\ Window \in [Buckets -> Nat \ {0}] /\ Limit \in [Buckets -> Nat \ {0}]
    /\ {Retention, MaxStall, MaxTime} \subseteq Nat
    /\ \A b \in Buckets : Window[b] + MaxStall <= Retention

VARIABLES now,       \* the clock
          rows,      \* requestCount by bucket and start of the window; NoRow: none
          readings,  \* what a caller is about to consume, and when it read the clock
          admitted   \* history: how many were allowed, by bucket and window

limiter == <<now, rows, readings, admitted>>

Times == 0..MaxTime
NoRow == -1
NoReading == [bucket |-> "none", at |-> 0]

Reading == [bucket: Buckets, at: Times] \union {NoReading}

LimiterInit ==
    /\ now = 0
    /\ rows = [b \in Buckets |-> [s \in Times |-> NoRow]]
    /\ readings = [c \in Callers |-> NoReading]
    /\ admitted = [b \in Buckets |-> [s \in Times |-> 0]]

WindowStart(b, t) == t - (t % Window[b])

\* The time is taken from the caller's clock, the transaction comes later.
ReadClock(c, b) ==
    /\ readings[c] = NoReading
    /\ readings' = [readings EXCEPT ![c] = [bucket |-> b, at |-> now]]
    /\ UNCHANGED <<now, rows, admitted>>

\* requestCount after the increment; the upsert inserts a missing row with 0.
Count(b, s) == IF rows[b][s] = NoRow THEN 1 ELSE rows[b][s] + 1

\* MUTANT: buckets are kept for one time unit after they began.
KeptBriefly(s, t) == s < t - 1

Stale(s, t) == s < t - Retention

\* MUTANT: the count before the increment is compared.
AllowedBefore(b, s) == Count(b, s) - 1 <= Limit[b]

Allowed(b, s) == Count(b, s) <= Limit[b]

\* The cleanup takes a batch of stale rows, of any bucket, that nobody has locked.
consumeRateLimit(c) ==
    LET b == readings[c].bucket
        t == readings[c].at
        s == WindowStart(b, t)
    IN /\ readings[c] # NoReading
       /\ readings' = [readings EXCEPT ![c] = NoReading]
       /\ \E gone \in SUBSET {p \in Buckets \X Times :
                                Stale(p[2], t) /\ rows[p[1]][p[2]] # NoRow} :
            rows' = [a \in Buckets |-> [u \in Times |->
                       IF <<a, u>> \in gone THEN NoRow
                       ELSE IF a = b /\ u = s THEN Count(b, s) ELSE rows[a][u]]]
       /\ admitted' = IF Allowed(b, s) THEN [admitted EXCEPT ![b][s] = @ + 1]
                      ELSE admitted
       /\ UNCHANGED now

\* Time passes, but no caller stalls longer than MaxStall.
Tick ==
    /\ now < MaxTime
    /\ \A c \in Callers : readings[c] # NoReading => now - readings[c].at < MaxStall
    /\ now' = now + 1
    /\ UNCHANGED <<rows, readings, admitted>>

LimiterNext ==
    \/ Tick
    \/ \E c \in Callers : consumeRateLimit(c) \/ \E b \in Buckets : ReadClock(c, b)

LimiterSpec == LimiterInit /\ [][LimiterNext]_limiter

----------------------------------------------------------------------------
LimiterTypeOK ==
    /\ now \in Times
    /\ rows \in [Buckets -> [Times -> Nat \union {NoRow}]]
    /\ readings \in [Callers -> Reading]
    /\ admitted \in [Buckets -> [Times -> Nat]]

\* No window admits more than its limit, whatever number of processes count in it,
\* although buckets are deleted while late callers still come for older windows
\* (consumeRateLimit: the retention of two maximal windows).
WithinLimit ==
    \A b \in Buckets, s \in Times : admitted[b][s] <= Limit[b]

\* What is inductive: a row counts at least what was admitted, and a missing row
\* of a window that admitted something is so old that no reading points to it.
LimiterInv ==
    /\ LimiterTypeOK
    /\ WithinLimit
    /\ \A c \in Callers : readings[c] # NoReading =>
         readings[c].at <= now /\ now - readings[c].at <= MaxStall
    /\ \A b \in Buckets, s \in Times :
         IF rows[b][s] = NoRow THEN admitted[b][s] = 0 \/ s < now - Retention
         ELSE admitted[b][s] <= rows[b][s]
=============================================================================
