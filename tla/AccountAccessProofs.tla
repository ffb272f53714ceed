------------------------ MODULE AccountAccessProofs ------------------------
(***************************************************************************)
(* Proofs about rate limits, about credentials, and about the composition  *)
(* of both with requests, for any number of callers, calls, keys,          *)
(* credentials and faults.                                                 *)
(*                                                                         *)
(* Limits: a limit is never exceeded as long as a caller stalls for less   *)
(* than the retention period minus a window.  Credentials: CredInv is      *)
(* inductive; it adds to the properties what a call remembers of the       *)
(* tables it has read.  Composition: the invariants of the parts carry     *)
(* over, because a step of the whole is a step of each part or leaves it   *)
(* alone; what a request knows of its credential stays true because a      *)
(* credential that is dead stays dead.                                     *)
(***************************************************************************)
EXTENDS AccountAccess, TLAPS

\* A leaf is left to Zenon, unless it names SMT: those need arithmetic, or terms of
\* records and functions that Zenon does not simplify.
USE ZenonT(60)

-----------------------------------------------------------------------------
(* Tables as sequences. *)

\* An UPDATE of one row of a table leaves the other rows alone.
LEMMA RowUpdated ==
    ASSUME NEW Row, NEW table \in Seq(Row), NEW k \in 1..Len(table), NEW row \in Row
    PROVE  /\ [table EXCEPT ![k] = row] \in Seq(Row)
           /\ Len([table EXCEPT ![k] = row]) = Len(table)
           /\ \A j \in 1..Len(table) :
                [table EXCEPT ![k] = row][j] = IF j = k THEN row ELSE table[j]
BY SMTT(30)

\* A table without rows.
LEMMA NoRows ==
    ASSUME NEW Row, NEW table \in Seq(Row), Len(table) = 0
    PROVE  table = <<>>
BY SMTT(30)

-----------------------------------------------------------------------------
(* Rate limits. *)

\* The window of a time contains it (consumeRateLimit: Math.floor).
LEMMA WindowContains ==
    ASSUME NEW b \in Buckets, NEW t \in Times
    PROVE  /\ WindowStart(b, t) \in Times
           /\ WindowStart(b, t) <= t
           /\ t < WindowStart(b, t) + Window[b]
<1>1. Window[b] \in Nat /\ Window[b] > 0
  BY SMTT(30), LimitsAssumption
<1>2. t \in Nat /\ MaxTime \in Nat /\ t <= MaxTime
  BY SMTT(30), LimitsAssumption DEF Times
<1>3. t % Window[b] \in 0..(Window[b] - 1)
  BY SMTT(30), <1>1, <1>2
<1>4. t % Window[b] <= t
  BY SMTT(30), <1>1, <1>2
<1> QED
  BY SMTT(30), <1>1, <1>2, <1>3, <1>4 DEF WindowStart, Times

LEMMA LimiterInitially == LimiterInit => LimiterInv
<1> SUFFICES ASSUME LimiterInit PROVE LimiterInv
  OBVIOUS
<1>1. LimiterTypeOK
  BY SMTT(30), LimitsAssumption DEF LimiterInit, LimiterTypeOK, Reading, Times, NoRow
<1>2. \A b \in Buckets, s \in Times : rows[b][s] = NoRow /\ admitted[b][s] = 0
  BY DEF LimiterInit
<1>3. \A b \in Buckets : Limit[b] \in Nat
  BY LimitsAssumption
<1>4. \A c \in Callers : readings[c] = NoReading
  BY DEF LimiterInit
<1> QED
  BY SMTT(30), <1>1, <1>2, <1>3, <1>4 DEF LimiterInv, WithinLimit

\* Reading the clock keeps the invariant: the reading is as old as now.
LEMMA ReadClockKeeps ==
    ASSUME LimiterInv, NEW c \in Callers, NEW b \in Buckets, ReadClock(c, b)
    PROVE  LimiterInv'
<1>1. LimiterTypeOK'
  BY DEF LimiterInv, LimiterTypeOK, ReadClock, Reading
<1>2. UNCHANGED <<now, rows, admitted>>
  BY DEF ReadClock
<1>3. ASSUME NEW d \in Callers, readings'[d] # NoReading
      PROVE  readings'[d].at <= now /\ now - readings'[d].at <= MaxStall
  <2>1. now \in Nat /\ MaxStall \in Nat
    BY SMTT(30), LimitsAssumption DEF LimiterInv, LimiterTypeOK, Times
  <2>2. CASE d = c
    <3>1. readings'[d].at = now
      BY <2>2 DEF ReadClock, LimiterInv, LimiterTypeOK
    <3> QED
      BY SMTT(30), <2>1, <3>1
  <2>3. CASE d # c
    <3>1. readings'[d] = readings[d]
      BY <2>3 DEF ReadClock, LimiterInv, LimiterTypeOK
    <3> QED
      BY <1>3, <3>1 DEF LimiterInv
  <2> QED
    BY <2>2, <2>3
<1> QED
  BY <1>1, <1>2, <1>3 DEF LimiterInv, WithinLimit

\* The passing of time keeps it: no reading becomes too old, no row too young.
LEMMA TickKeeps ==
    ASSUME LimiterInv, Tick
    PROVE  LimiterInv'
<1>1. LimiterTypeOK'
  BY SMTT(30), LimitsAssumption DEF LimiterInv, LimiterTypeOK, Tick, Times
<1>2. UNCHANGED <<rows, readings, admitted>> /\ now' = now + 1
  BY DEF Tick
<1>3. now \in Nat /\ MaxStall \in Nat /\ Retention \in Nat
  BY SMTT(30), LimitsAssumption DEF LimiterInv, LimiterTypeOK, Times
<1>4. ASSUME NEW c \in Callers, readings[c] # NoReading
      PROVE  readings[c].at <= now' /\ now' - readings[c].at <= MaxStall
  <2>1. readings[c].at \in Nat
    BY SMTT(30), <1>4 DEF LimiterInv, LimiterTypeOK, Reading, Times
  <2>2. readings[c].at <= now /\ now - readings[c].at < MaxStall
    BY <1>4 DEF LimiterInv, Tick
  <2> QED
    BY SMTT(30), <1>2, <1>3, <2>1, <2>2
<1>5. \A s \in Times : s < now - Retention => s < now' - Retention
  BY SMTT(30), <1>2, <1>3 DEF Times
<1> QED
  BY <1>1, <1>2, <1>4, <1>5 DEF LimiterInv, WithinLimit

\* Consuming keeps it.  The window of a caller that stalled for at most MaxStall
\* began less than the retention period ago, so its row has not been deleted.
LEMMA ConsumeKeeps ==
    ASSUME LimiterInv, NEW c \in Callers, consumeRateLimit(c)
    PROVE  LimiterInv'
<1> DEFINE b == readings[c].bucket
           t == readings[c].at
           s == WindowStart(b, t)
<1>1. b \in Buckets /\ t \in Times
  BY DEF consumeRateLimit, LimiterInv, LimiterTypeOK, Reading
<1>2. s \in Times /\ s <= t /\ t < s + Window[b]
  BY <1>1, WindowContains
<1>3. now \in Nat /\ t \in Nat /\ s \in Nat /\ Retention \in Nat /\ MaxStall \in Nat
      /\ Window[b] \in Nat /\ Limit[b] \in Nat
  BY SMTT(30), <1>1, <1>2, LimitsAssumption DEF LimiterInv, LimiterTypeOK, Times
<1>4. t <= now /\ now - t <= MaxStall /\ Window[b] + MaxStall <= Retention
  BY <1>1, LimitsAssumption DEF consumeRateLimit, LimiterInv
<1>5. ~(s < now - Retention)
  BY SMTT(30), <1>2, <1>3, <1>4
<1>6. PICK gone \in SUBSET {p \in Buckets \X Times :
                              Stale(p[2], t) /\ rows[p[1]][p[2]] # NoRow} :
        rows' = [a \in Buckets |-> [u \in Times |->
                   IF <<a, u>> \in gone THEN NoRow
                   ELSE IF a = b /\ u = s THEN Count(b, s) ELSE rows[a][u]]]
  BY DEF consumeRateLimit
<1>7. /\ now' = now
      /\ readings' = [readings EXCEPT ![c] = NoReading]
      /\ admitted' = IF Allowed(b, s) THEN [admitted EXCEPT ![b][s] = @ + 1]
                     ELSE admitted
  BY DEF consumeRateLimit
<1>8. rows \in [Buckets -> [Times -> Nat \union {NoRow}]]
      /\ admitted \in [Buckets -> [Times -> Nat]] /\ readings \in [Callers -> Reading]
      /\ NoRow = -1
  BY DEF LimiterInv, LimiterTypeOK, NoRow
<1>9. rows[b][s] \in Nat \union {NoRow} /\ admitted[b][s] \in Nat
  BY <1>1, <1>2, <1>8
<1>10. Count(b, s) \in Nat /\ admitted[b][s] + 1 <= Count(b, s)
  <2>1. CASE rows[b][s] = NoRow
    <3>1. admitted[b][s] = 0
      BY <1>1, <1>2, <1>5, <2>1 DEF LimiterInv
    <3> QED
      BY SMTT(30), <2>1, <3>1 DEF Count
  <2>2. CASE rows[b][s] # NoRow
    <3>1. admitted[b][s] <= rows[b][s]
      BY <1>1, <1>2, <2>2 DEF LimiterInv
    <3>2. Count(b, s) = rows[b][s] + 1
      BY <2>2 DEF Count
    <3> QED
      BY SMTT(30), <1>9, <2>2, <3>1, <3>2
  <2> QED
    BY <2>1, <2>2
<1>11. <<b, s>> \notin gone
  <2>1. ~Stale(s, t)
    BY SMTT(30), <1>3, <1>4, <1>5 DEF Stale
  <2> QED
    BY <1>6, <2>1
<1>12. ASSUME NEW a \in Buckets, NEW u \in Times
       PROVE  rows'[a][u] = IF <<a, u>> \in gone THEN NoRow
                            ELSE IF a = b /\ u = s THEN Count(b, s) ELSE rows[a][u]
  BY <1>6
<1>13. ASSUME NEW a \in Buckets, NEW u \in Times
       PROVE  admitted'[a][u] = IF Allowed(b, s) /\ a = b /\ u = s
                                THEN admitted[b][s] + 1 ELSE admitted[a][u]
  BY <1>1, <1>2, <1>7, <1>8
<1>14. LimiterTypeOK'
  <2>1. rows' \in [Buckets -> [Times -> Nat \union {NoRow}]]
    BY <1>6, <1>8, <1>10
  <2>2. admitted' \in [Buckets -> [Times -> Nat]]
    BY SMTT(30), <1>1, <1>2, <1>7, <1>8
  <2>3. readings' \in [Callers -> Reading]
    BY <1>7, <1>8 DEF Reading
  <2> QED
    BY <1>7, <2>1, <2>2, <2>3 DEF LimiterInv, LimiterTypeOK
<1>15. WithinLimit'
  <2> SUFFICES ASSUME NEW a \in Buckets, NEW u \in Times
               PROVE  admitted'[a][u] <= Limit[a]
    BY DEF WithinLimit
  <2>1. CASE Allowed(b, s) /\ a = b /\ u = s
    BY SMTT(30), <1>3, <1>9, <1>10, <1>13, <2>1 DEF Allowed
  <2>2. CASE ~(Allowed(b, s) /\ a = b /\ u = s)
    BY <1>13, <2>2 DEF LimiterInv, WithinLimit
  <2> QED
    BY <2>1, <2>2
<1>16. ASSUME NEW a \in Buckets, NEW u \in Times
       PROVE  IF rows'[a][u] = NoRow THEN admitted'[a][u] = 0 \/ u < now' - Retention
              ELSE admitted'[a][u] <= rows'[a][u]
  <2>1. CASE a = b /\ u = s
    BY SMTT(30), <1>8, <1>9, <1>10, <1>11, <1>12, <1>13, <2>1
  <2>2. CASE ~(a = b /\ u = s) /\ <<a, u>> \in gone
    <3>1. Stale(u, t)
      BY <1>6, <2>2
    <3>2. u < now - Retention
      BY SMTT(30), <1>3, <1>4, <3>1 DEF Stale, Times
    <3> QED
      BY <1>7, <1>12, <2>2, <3>2
  <2>3. CASE ~(a = b /\ u = s) /\ <<a, u>> \notin gone
    BY SMTT(30), <1>7, <1>12, <1>13, <2>3 DEF LimiterInv
  <2> QED
    BY <2>1, <2>2, <2>3
<1>17. \A d \in Callers : readings'[d] # NoReading =>
         readings'[d].at <= now' /\ now' - readings'[d].at <= MaxStall
  BY <1>7, <1>8 DEF LimiterInv
<1> QED
  BY <1>14, <1>15, <1>16, <1>17 DEF LimiterInv

LEMMA LimiterStep == LimiterInv /\ [LimiterNext]_limiter => LimiterInv'
<1> SUFFICES ASSUME LimiterInv, [LimiterNext]_limiter PROVE LimiterInv'
  OBVIOUS
<1>1. CASE Tick
  BY <1>1, TickKeeps
<1>2. CASE \E c \in Callers : consumeRateLimit(c)
  BY <1>2, ConsumeKeeps
<1>3. CASE \E c \in Callers, b \in Buckets : ReadClock(c, b)
  BY <1>3, ReadClockKeeps
<1>4. CASE UNCHANGED limiter
  BY <1>4 DEF limiter, LimiterInv, LimiterTypeOK, WithinLimit
<1> QED
  BY <1>1, <1>2, <1>3, <1>4 DEF LimiterNext

\* No window of any bucket ever admits more requests than its limit, in any number
\* of processes and whatever is cleaned up, if no caller stalls longer than the
\* retention period minus a window (consumeRateLimit).
THEOREM LimitsHold == LimiterSpec => []WithinLimit
<1>1. LimiterInv => WithinLimit
  BY DEF LimiterInv
<1> QED
  BY <1>1, LimiterInitially, LimiterStep, PTL DEF LimiterSpec

-----------------------------------------------------------------------------
(* Credentials. *)

\* The places of finishV2Provisioning, from which Finished is reached.
Finishing == {"finish", "reopen", "reread", "fund", "refetch", "activate", "caught",
              "conflict", "fail"}

Places == Finishing \union {"idle", "replay", "provision", "lookup", "create", "list",
                            "rotate", "peek", "take", "answer"}

Call == [pc: Places, op: {"none", "provision", "issue", "rotate"},
         key: Keys \union {"none"}, terms: Terms \union {"none"},
         old: Nat, at: Nat, rowVersion: Nat,
         then: {"none", "answer", "again", "recover", "late"}, cred: Nat, secret: Nat]

\* What a call may rely on: which operation it belongs to, and that the
\* credentials it points to exist.
CallOK(r) ==
    /\ r \in Call
    /\ r.pc # "idle" => r.key \in Keys
    /\ r.pc \in {"replay", "provision"} => r.op = "provision" /\ r.terms \in Terms
    /\ r.pc \in {"lookup", "create"} => r.op = "issue" /\ r.terms \in Terms
    /\ r.pc \in {"list", "rotate"} => r.op = "rotate"
    /\ r.op = "rotate" => r.old \in 1..Len(creds)
    /\ r.pc \in Finishing => r.then \in {"answer", "again", "recover"}
    /\ r.pc = "take" => /\ r.cred \in 1..Len(creds)
                        /\ creds[r.cred].op = r.op /\ creds[r.cred].key = r.key
    /\ r.pc = "answer" \/ (r.pc \in Finishing /\ r.then = "answer")
         => r.secret \in 1..Len(creds)

CredType ==
    /\ account \in [status: Statuses, rowVersion: Nat]
    /\ creds \in Seq(Credential)
    /\ envelopes \subseteq Envelope
    /\ recovered \in Seq(Nat) /\ Len(recovered) = Len(creds)
    /\ calls \in [Calls -> Call]
    /\ delivered \subseteq 1..Len(creds)

\* An envelope is the only one of its key and belongs to a credential made with it.
EnvelopesMatch ==
    /\ \A e \in envelopes : /\ e.cred \in 1..Len(creds)
                            /\ creds[e.cred].op = e.op /\ creds[e.cred].key = e.key
    /\ \A e, f \in envelopes : e.op = f.op /\ e.key = f.key => e = f

\* A credential whose key is its own has its envelope until that is used up.
Kept ==
    \A i \in 1..Len(creds) : creds[i].op # "v1" /\ OwnKey(i) =>
        i \in spent \/ \E e \in envelopes : e.cred = i

\* After the recovery no envelope of the key is left to open.
Opened ==
    \A i \in 1..Len(creds) : OwnKey(i) =>
        \/ recovered[i] = 0
        \/ recovered[i] = 1 /\ \A e \in envelopes : ~(e.op = creds[i].op /\ e.key = creds[i].key)

FromEarlier == \A i \in 1..Len(creds) : creds[i].from \in 0..Len(creds)

CredInv ==
    /\ CredType
    /\ \A c \in Calls : CallOK(calls[c])
    /\ EnvelopesMatch
    /\ Kept
    /\ Opened
    /\ FromEarlier
    /\ OneSuccessor

-----------------------------------------------------------------------------
LEMMA NeverOK == Never \in Nat
BY SMT DEF Never

LEMMA PlaceNames ==
    /\ {"idle", "replay", "provision", "lookup", "create", "list", "rotate", "peek",
        "take", "answer"} \subseteq Places
    /\ {"finish", "reopen", "reread", "fund", "refetch", "activate", "caught",
        "conflict", "fail"} \subseteq Places
    /\ Finishing \subseteq Places
BY DEF Places, Finishing

LEMMA IdleOK == CallOK(Idle)
<1>1. Idle \in Call
  BY DEF Call, Idle, Places, Finishing
<1>2. Idle.pc = "idle" /\ Idle.op = "none"
  BY DEF Idle
<1> QED
  BY <1>1, <1>2 DEF CallOK, Finishing

LEMMA CredInitially == CredentialsInit => CredInv
<1> SUFFICES ASSUME CredentialsInit PROVE CredInv
  OBVIOUS
<1>1. creds = <<>> /\ envelopes = {} /\ recovered = <<>> /\ delivered = {}
  BY DEF CredentialsInit
<1>2. Len(creds) = 0 /\ 1..Len(creds) = {} /\ DOMAIN creds = {}
  BY SMTT(30), <1>1
<1>3. CredType
  BY SMTT(30), <1>1, <1>2, IdleOK DEF CredentialsInit, CredType, Statuses, CallOK
<1>4. \A c \in Calls : CallOK(calls[c])
  BY IdleOK DEF CredentialsInit
<1> QED
  BY <1>1, <1>2, <1>3, <1>4 DEF CredInv, EnvelopesMatch, Kept, Opened, FromEarlier, OneSuccessor

\* A step that changes one call, the status of the account or what is delivered.
LEMMA QuietStep ==
    ASSUME CredInv, NEW c \in Calls, NEW r, CallOK(r),
           calls' = [calls EXCEPT ![c] = r],
           UNCHANGED <<creds, envelopes, spent, recovered>>,
           account' \in [status: Statuses, rowVersion: Nat],
           delivered' \subseteq 1..Len(creds)
    PROVE  CredInv'
<1>1. r \in Call
  BY DEF CallOK
<1>2. CredType'
  BY <1>1 DEF CredInv, CredType
<1>3. ASSUME NEW d \in Calls PROVE CallOK(calls[d])'
  <2>1. calls'[d] = IF d = c THEN r ELSE calls[d]
    BY DEF CredInv, CredType
  <2>2. CallOK(calls'[d])
    BY <2>1 DEF CredInv
  <2> QED
    BY <2>2 DEF CallOK
<1>4. (EnvelopesMatch /\ Kept /\ Opened /\ FromEarlier /\ OneSuccessor)'
  BY SMTT(30) DEF CredInv, EnvelopesMatch, Kept, Opened, FromEarlier, OneSuccessor, OwnKey
<1> QED
  BY <1>2, <1>3, <1>4 DEF CredInv

\* What every call and the tables are known to satisfy before a step.
LEMMA Before ==
    ASSUME CredInv, NEW c \in Calls
    PROVE  /\ CallOK(calls[c]) /\ calls[c] \in Call
           /\ account \in [status: Statuses, rowVersion: Nat]
           /\ creds \in Seq(Credential) /\ Len(creds) \in Nat /\ DOMAIN creds = 1..Len(creds)
           /\ envelopes \subseteq Envelope
           /\ delivered \subseteq 1..Len(creds)
BY SMTT(30) DEF CredInv, CredType, CallOK

\* A credential or an envelope to add: its place, its row, and the time it keeps.
LEMMA NextPlace ==
    ASSUME CredInv
    PROVE  Len(creds) \in Nat /\ Len(creds) + 1 \in Nat /\ DOMAIN creds = 1..Len(creds)
BY SMTT(30) DEF CredInv, CredType

LEMMA Deadline ==
    ASSUME NEW t \in Nat
    PROVE  t + RecoveryTtl \in Nat
BY SMTT(30), CredentialsAssumption

LEMMA EnvelopeOK ==
    ASSUME NEW op \in {"provision", "issue", "rotate"}, NEW key \in Keys,
           NEW i \in Nat, NEW x \in Nat
    PROVE  [op |-> op, key |-> key, cred |-> i, expires |-> x] \in Envelope
BY DEF Envelope

LEMMA BoundPlaces ==
    ASSUME CredInv, NEW op, NEW key, NEW i \in Bound(op, key)
    PROVE  i \in Nat
BY SMTT(30) DEF Bound, CredInv, CredType

LEMMA DeliveredEarlier ==
    ASSUME CredInv, delivered' = delivered
    PROVE  delivered' \subseteq 1..(Len(creds) + 1)
<1>1. delivered' \subseteq 1..Len(creds) /\ Len(creds) \in Nat
  BY SMTT(30) DEF CredInv, CredType
<1> QED
  BY SMTT(30), <1>1

\* A key no credential has has no envelope, and an active credential no successor.
LEMMA UnusedKey ==
    ASSUME CredInv, NEW op, NEW key,
           \A i \in 1..Len(creds) : ~(creds[i].op = op /\ creds[i].key = key)
    PROVE  EnvelopesOf(op, key) = {}
<1>1. \A e \in envelopes : /\ e.cred \in 1..Len(creds)
                           /\ creds[e.cred].op = e.op /\ creds[e.cred].key = e.key
  BY DEF CredInv, CredType, EnvelopesMatch
<1> QED
  BY <1>1 DEF EnvelopesOf

LEMMA ActiveHasNoSuccessor ==
    ASSUME CredInv, NEW k \in 1..Len(creds), creds[k].status = "ACTIVE",
           NEW i \in 1..Len(creds)
    PROVE  creds[i].from # k
<1>1. creds[i].from # 0 => creds[creds[i].from].status = "REVOKED"
  BY NextPlace DEF CredInv, OneSuccessor
<1>2. k # 0
  BY SMTT(30), NextPlace
<1> QED
  BY <1>1, <1>2

\* A call that moves on inside its operation.
LEMMA MovedOK ==
    ASSUME NEW s, CallOK(s), s.pc # "idle", NEW r \in Call,
           r.op = s.op, r.key = s.key, r.terms = s.terms, r.old = s.old,
           r.pc \in {"replay", "provision"} => s.pc = "replay",
           r.pc \in {"lookup", "create"} => s.pc = "lookup",
           r.pc \in {"list", "rotate"} => s.op = "rotate",
           r.pc # "take",
           r.pc \in Finishing => r.then \in {"answer", "again", "recover"},
           r.pc = "answer" \/ (r.pc \in Finishing /\ r.then = "answer")
             => r.secret \in 1..Len(creds)
    PROVE  CallOK(r)
BY DEF CallOK

\* Fields that are set keep a call a call.
LEMMA FieldsOK ==
    ASSUME NEW s \in Call, NEW p \in Places, NEW i \in Nat,
           NEW t \in {"none", "answer", "again", "recover", "late"}
    PROVE  /\ [s EXCEPT !.pc = p, !.cred = i] \in Call
           /\ [s EXCEPT !.pc = p, !.secret = i] \in Call
           /\ [s EXCEPT !.pc = p, !.then = t] \in Call
           /\ [s EXCEPT !.pc = p, !.cred = i, !.secret = i] \in Call
           /\ [s EXCEPT !.pc = p, !.then = t, !.cred = i] \in Call
           /\ [s EXCEPT !.pc = p, !.then = t, !.cred = i, !.secret = i] \in Call
BY DEF Call

-----------------------------------------------------------------------------
\* Calls begin.
LEMMA BeginKeeps ==
    ASSUME CredInv, now \in Nat, NEW c \in Calls, NEW key \in Keys,
           \/ \E t \in Terms : BeginProvision(c, key, t) \/ BeginIssue(c, key, t)
           \/ \E i \in DOMAIN creds : BeginRotate(c, key, i)
    PROVE  CredInv'
<1> USE Before
<1>1. ASSUME NEW t \in Terms, BeginProvision(c, key, t) PROVE CredInv'
  <2> DEFINE r == [Idle EXCEPT !.pc = "replay", !.op = "provision", !.key = key,
                               !.terms = t, !.at = now]
  <2>1. CallOK(r)
    BY DEF CallOK, Call, Idle, Places, Finishing
  <2> HIDE DEF r
  <2>2. calls' = [calls EXCEPT ![c] = r]
    BY <1>1 DEF BeginProvision, Step, r
  <2> QED
    BY <1>1, <2>1, <2>2, QuietStep DEF BeginProvision
<1>2. ASSUME NEW t \in Terms, BeginIssue(c, key, t) PROVE CredInv'
  <2> DEFINE r == [Idle EXCEPT !.pc = "lookup", !.op = "issue", !.key = key, !.terms = t]
  <2>1. CallOK(r)
    BY DEF CallOK, Call, Idle, Places, Finishing
  <2> HIDE DEF r
  <2>2. calls' = [calls EXCEPT ![c] = r]
    BY <1>2 DEF BeginIssue, Step, r
  <2> QED
    BY <1>2, <2>1, <2>2, QuietStep DEF BeginIssue
<1>3. ASSUME NEW i \in DOMAIN creds, BeginRotate(c, key, i) PROVE CredInv'
  <2> DEFINE r == [Idle EXCEPT !.pc = "peek", !.op = "rotate", !.key = key, !.old = i]
  <2>3. i \in 1..Len(creds) /\ i \in Nat
    BY SMTT(30)
  <2>4. r \in Call
    BY <2>3, PlaceNames DEF Call, Idle
  <2>5. r.pc = "peek" /\ r.key \in Keys /\ r.old = i
    BY DEF Idle
  <2>1. CallOK(r)
    BY <2>3, <2>4, <2>5 DEF CallOK, Finishing
  <2> HIDE DEF r
  <2>2. calls' = [calls EXCEPT ![c] = r]
    BY <1>3 DEF BeginRotate, Step, r
  <2> QED
    BY <1>3, <2>1, <2>2, QuietStep DEF BeginRotate
<1> QED
  BY <1>1, <1>2, <1>3

\* Calls end, or move to a place about which nothing is to be known.
LEMMA EndKeeps ==
    ASSUME CredInv, NEW c \in Calls, End(c),
           UNCHANGED <<creds, envelopes, spent, recovered>>,
           account' \in [status: Statuses, rowVersion: Nat],
           delivered' \subseteq 1..Len(creds)
    PROVE  CredInv'
BY IdleOK, QuietStep DEF End, Step

LEMMA GotoKeeps ==
    ASSUME CredInv, NEW c \in Calls, NEW pc \in Places, Goto(c, pc),
           pc \in {"replay", "provision"} => calls[c].pc = "replay",
           pc \in {"lookup", "create"} => calls[c].pc = "lookup",
           pc \in {"list", "rotate"} => calls[c].op = "rotate",
           pc \in Finishing => calls[c].pc \in Finishing,
           pc \notin {"take", "answer"}, calls[c].pc # "idle",
           UNCHANGED <<creds, envelopes, spent, recovered>>,
           account' \in [status: Statuses, rowVersion: Nat],
           delivered' \subseteq 1..Len(creds)
    PROVE  CredInv'
<1> DEFINE r == [calls[c] EXCEPT !.pc = pc]
<1>3. r \in Call
  BY SMTT(30), Before DEF Call
<1>4. /\ r.op = calls[c].op /\ r.key = calls[c].key /\ r.terms = calls[c].terms
      /\ r.old = calls[c].old /\ r.pc = pc /\ r.then = calls[c].then
      /\ r.secret = calls[c].secret
  BY Before DEF Call
<1>5. pc \in Finishing => /\ r.then \in {"answer", "again", "recover"}
                          /\ r.then = "answer" => r.secret \in 1..Len(creds)
  BY <1>4, Before DEF CallOK
<1>1. CallOK(r)
  BY <1>3, <1>4, <1>5, Before, MovedOK
<1> HIDE DEF r
<1>2. calls' = [calls EXCEPT ![c] = r]
  BY DEF Goto, Step, r
<1> QED
  BY <1>1, <1>2, QuietStep

LEMMA SeeKeeps ==
    ASSUME CredInv, NEW c \in Calls, NEW pc \in Finishing, calls[c].pc \in Finishing,
           Step(c, [calls[c] EXCEPT !.pc = pc, !.rowVersion = account.rowVersion]),
           UNCHANGED <<account, creds, envelopes, delivered, spent, recovered>>
    PROVE  CredInv'
<1> DEFINE r == [calls[c] EXCEPT !.pc = pc, !.rowVersion = account.rowVersion]
<1>3. r \in Call
  BY Before DEF Call, Places
<1>4. /\ r.op = calls[c].op /\ r.key = calls[c].key /\ r.terms = calls[c].terms
      /\ r.old = calls[c].old /\ r.pc = pc /\ r.then = calls[c].then
      /\ r.secret = calls[c].secret
  BY Before DEF Call
<1>5. /\ r.then \in {"answer", "again", "recover"}
      /\ r.then = "answer" => r.secret \in 1..Len(creds)
  BY <1>4, Before DEF CallOK
<1>6. calls[c].pc # "idle" /\ pc \notin {"replay", "provision", "lookup", "create",
                                         "list", "rotate", "take", "answer"}
  BY DEF Finishing
<1>1. CallOK(r)
  BY <1>3, <1>4, <1>5, <1>6, Before, MovedOK
<1> HIDE DEF r
<1>2. calls' = [calls EXCEPT ![c] = r]
  BY DEF Step, r
<1> QED
  BY <1>1, <1>2, QuietStep, Before

\* createAccountV2 goes on after finishV2Provisioning.
LEMMA FinishedKeeps ==
    ASSUME CredInv, NEW c \in Calls, calls[c].pc \in Finishing, Finished(c),
           UNCHANGED <<creds, envelopes, delivered, spent, recovered>>,
           account' \in [status: Statuses, rowVersion: Nat]
    PROVE  CredInv'
<1> USE Before
<1>1. calls[c].then \in {"answer", "again", "recover"}
  BY DEF CallOK
<1>5. calls[c].pc # "idle"
  BY DEF Finishing
<1>2. CASE calls[c].then = "answer"
  <2> DEFINE r == [calls[c] EXCEPT !.pc = "answer"]
  <2>3. r \in Call
    BY PlaceNames DEF Call
  <2>4. /\ r.op = calls[c].op /\ r.key = calls[c].key /\ r.terms = calls[c].terms
        /\ r.old = calls[c].old /\ r.pc = "answer" /\ r.then = calls[c].then
        /\ r.secret = calls[c].secret
    BY DEF Call
  <2>5. r.secret \in 1..Len(creds)
    BY <2>4, <1>2, Before DEF CallOK, Finishing
  <2>1. CallOK(r)
    BY <1>5, <2>3, <2>4, <2>5, MovedOK DEF Finishing
  <2> HIDE DEF r
  <2>2. calls' = [calls EXCEPT ![c] = r]
    BY <1>2 DEF Finished, Step, r
  <2> QED
    BY <2>1, <2>2, QuietStep
<1>3. CASE calls[c].then = "again"
  <2> DEFINE r == [calls[c] EXCEPT !.pc = "finish", !.then = "recover"]
  <2>3. r \in Call
    BY PlaceNames DEF Call
  <2>4. /\ r.op = calls[c].op /\ r.key = calls[c].key /\ r.terms = calls[c].terms
        /\ r.old = calls[c].old /\ r.pc = "finish" /\ r.then = "recover"
        /\ r.secret = calls[c].secret
    BY DEF Call
  <2>1. CallOK(r)
    BY <1>5, <2>3, <2>4, MovedOK DEF Finishing
  <2> HIDE DEF r
  <2>2. calls' = [calls EXCEPT ![c] = r]
    BY <1>3 DEF Finished, Step, r
  <2> QED
    BY <2>1, <2>2, QuietStep
<1>4. CASE calls[c].then = "recover"
  <2> DEFINE r == [calls[c] EXCEPT !.pc = "peek"]
  <2>3. r \in Call
    BY PlaceNames DEF Call
  <2>4. /\ r.op = calls[c].op /\ r.key = calls[c].key /\ r.terms = calls[c].terms
        /\ r.old = calls[c].old /\ r.pc = "peek" /\ r.then = calls[c].then
        /\ r.secret = calls[c].secret
    BY DEF Call
  <2>1. CallOK(r)
    BY <1>5, <2>3, <2>4, MovedOK DEF Finishing
  <2> HIDE DEF r
  <2>2. calls' = [calls EXCEPT ![c] = r]
    BY <1>4 DEF Finished, Step, r
  <2> QED
    BY <2>1, <2>2, QuietStep
<1> QED
  BY <1>1, <1>2, <1>3, <1>4

-----------------------------------------------------------------------------
\* Provisioning, but for the transaction that inserts the credential.
LEMMA findProvisioningReplayKeeps ==
    ASSUME CredInv, NEW c \in Calls, findProvisioningReplay(c)
    PROVE  CredInv'
<1> USE Before
<1>1. /\ UNCHANGED <<account, creds, envelopes, delivered, spent, recovered>>
      /\ calls[c].pc = "replay"
  BY DEF findProvisioningReplay, At
<1>2. CASE Goto(c, "provision")
  BY <1>1, <1>2, GotoKeeps, PlaceNames DEF Finishing
<1>3. CASE End(c)
  BY <1>1, <1>3, EndKeeps
<1>4. ASSUME NEW i \in DOMAIN creds,
             Step(c, [calls[c] EXCEPT !.pc = "finish", !.then = "recover", !.cred = i])
      PROVE  CredInv'
  <2> DEFINE r == [calls[c] EXCEPT !.pc = "finish", !.then = "recover", !.cred = i]
  <2>6. i \in Nat
    BY SMTT(30)
  <2>1. r \in Call
    BY <2>6, PlaceNames DEF Call
  <2>2. /\ r.op = calls[c].op /\ r.key = calls[c].key /\ r.terms = calls[c].terms
        /\ r.old = calls[c].old /\ r.pc = "finish" /\ r.then = "recover"
    BY DEF Call
  <2>5. CallOK(calls[c]) /\ calls[c].pc # "idle"
    BY <1>1
  <2>3. CallOK(r)
    BY <2>1, <2>2, <2>5, MovedOK DEF Finishing
  <2> HIDE DEF r
  <2>4. calls' = [calls EXCEPT ![c] = r]
    BY <1>4 DEF Step, r
  <2> QED
    BY <1>1, <2>3, <2>4, QuietStep
<1> QED
  BY <1>2, <1>3, <1>4 DEF findProvisioningReplay, Bound

LEMMA StartFinishingKeeps ==
    ASSUME CredInv, NEW c \in Calls, StartFinishing(c)
    PROVE  CredInv'
<1> DEFINE see(pc) ==
             Step(c, [calls[c] EXCEPT !.pc = pc, !.rowVersion = account.rowVersion])
<1>1. /\ UNCHANGED <<account, creds, envelopes, delivered, spent, recovered>>
      /\ calls[c].pc \in Finishing
  BY DEF StartFinishing, At, Finishing
<1>2. CASE Finished(c)
  BY <1>1, <1>2, FinishedKeeps, Before
<1>3. CASE End(c)
  BY <1>1, <1>3, EndKeeps, Before
<1>4. CASE see("reopen") \/ see("fund")
  <2>1. "reopen" \in Finishing /\ "fund" \in Finishing
    BY DEF Finishing
  <2> QED
    BY <1>1, <1>4, <2>1, SeeKeeps
<1>5. Finished(c) \/ End(c) \/ see("reopen") \/ see("fund")
  BY DEF StartFinishing
<1> QED
  BY <1>2, <1>3, <1>4, <1>5

\* The new status is a status, whatever the old one was.
LEMMA SetStatusOK ==
    ASSUME CredType, NEW to \in Statuses, SetStatus(to)
    PROVE  account' \in [status: Statuses, rowVersion: Nat]
BY SMTT(30) DEF CredType, SetStatus

LEMMA StatusStepsKeep ==
    ASSUME CredInv, NEW c \in Calls, Reopen(c) \/ Activate(c) \/ MarkFailed(c)
    PROVE  CredInv'
<1> USE Before
<1>1. /\ UNCHANGED <<creds, envelopes, delivered, spent, recovered>>
      /\ calls[c].pc \in Finishing /\ calls[c].pc # "idle"
  BY DEF Reopen, Activate, MarkFailed, At, Finishing
<1>2. account' \in [status: Statuses, rowVersion: Nat]
  <2>1. CredType /\ {"PROVISIONING", "ACTIVE", "PROVISIONING_FAILED"} \subseteq Statuses
    BY DEF CredInv, Statuses
  <2> QED
    BY <2>1, SetStatusOK DEF Reopen, Activate, MarkFailed
<1>3. CASE Finished(c)
  BY <1>1, <1>2, <1>3, FinishedKeeps
<1>4. CASE End(c)
  BY <1>1, <1>2, <1>4, EndKeeps
<1>5. CASE Goto(c, "reread") \/ Goto(c, "conflict")
  <2>1. {"reread", "conflict"} \subseteq Places
    BY PlaceNames
  <2> QED
    BY <1>1, <1>2, <1>5, <2>1, GotoKeeps
<1> QED
  BY <1>3, <1>4, <1>5 DEF Reopen, Activate, MarkFailed

LEMMA FundingKeeps ==
    ASSUME CredInv, NEW c \in Calls, Provision(c) \/ Refetch(c) \/ HandleFailure(c)
    PROVE  CredInv'
<1> DEFINE see(pc) ==
             Step(c, [calls[c] EXCEPT !.pc = pc, !.rowVersion = account.rowVersion])
<1>1. /\ UNCHANGED <<account, creds, envelopes, delivered, spent, recovered>>
      /\ calls[c].pc \in Finishing /\ calls[c].pc # "idle"
  BY DEF Provision, Refetch, HandleFailure, At, Finishing
<1>2. CASE Finished(c)
  BY <1>1, <1>2, FinishedKeeps, Before
<1>3. CASE End(c)
  BY <1>1, <1>3, EndKeeps, Before
<1>4. CASE Goto(c, "refetch") \/ Goto(c, "caught")
  <2>1. {"refetch", "caught"} \subseteq Places
    BY PlaceNames
  <2> QED
    BY <1>1, <1>4, <2>1, GotoKeeps, Before
<1>5. CASE see("activate") \/ see("fail")
  <2>1. "activate" \in Finishing /\ "fail" \in Finishing
    BY DEF Finishing
  <2> QED
    BY <1>1, <1>5, <2>1, SeeKeeps
<1>6. \/ Finished(c) \/ End(c) \/ Goto(c, "refetch") \/ Goto(c, "caught")
      \/ see("activate") \/ see("fail")
  BY DEF Provision, Refetch, HandleFailure
<1> QED
  BY <1>2, <1>3, <1>4, <1>5, <1>6

-----------------------------------------------------------------------------
\* Issuance and rotation, but for their transactions.

\* A replay goes on to the envelope of the credential it found.
LEMMA ReplayIssuedKeeps ==
    ASSUME CredInv, NEW c \in Calls, NEW i \in DOMAIN creds, ReplayIssued(c, i),
           calls[c].pc # "idle",
           UNCHANGED <<account, creds, envelopes, delivered, spent, recovered>>
    PROVE  CredInv'
<1> USE Before
<1>1. CASE End(c)
  BY <1>1, EndKeeps
<1>2. CASE Step(c, [calls[c] EXCEPT !.pc = "peek", !.cred = i])
  <2> DEFINE r == [calls[c] EXCEPT !.pc = "peek", !.cred = i]
  <2>1. i \in Nat
    BY SMTT(30)
  <2>2. r \in Call
    BY <2>1, PlaceNames DEF Call
  <2>3. /\ r.op = calls[c].op /\ r.key = calls[c].key /\ r.terms = calls[c].terms
        /\ r.old = calls[c].old /\ r.pc = "peek"
    BY DEF Call
  <2>4. CallOK(r)
    BY <2>2, <2>3, MovedOK DEF Finishing
  <2> HIDE DEF r
  <2>5. calls' = [calls EXCEPT ![c] = r]
    BY <1>2 DEF Step, r
  <2> QED
    BY <2>4, <2>5, QuietStep
<1> QED
  BY <1>1, <1>2 DEF ReplayIssued

LEMMA LookupsKeep ==
    ASSUME CredInv, NEW c \in Calls, findCredentialIdempotency(c) \/ listCredentials(c)
    PROVE  CredInv'
<1> USE Before
<1>1. /\ UNCHANGED <<account, creds, envelopes, delivered, spent, recovered>>
      /\ calls[c].pc \in {"lookup", "list"}
  BY DEF findCredentialIdempotency, listCredentials, At
<1>2. CASE End(c)
  BY <1>1, <1>2, EndKeeps
<1>3. CASE calls[c].pc = "lookup" /\ Goto(c, "create")
  BY <1>1, <1>3, GotoKeeps, PlaceNames DEF Finishing
<1>4. CASE calls[c].pc = "list" /\ Goto(c, "rotate")
  <2>1. calls[c].op = "rotate"
    BY <1>4 DEF CallOK
  <2> QED
    BY <1>1, <1>4, <2>1, GotoKeeps, PlaceNames DEF Finishing
<1>5. ASSUME NEW i \in DOMAIN creds, ReplayIssued(c, i) PROVE CredInv'
  BY <1>1, <1>5, ReplayIssuedKeeps
<1>6. CASE findCredentialIdempotency(c)
  BY <1>2, <1>3, <1>5, <1>6 DEF findCredentialIdempotency, Bound, At
<1>7. CASE listCredentials(c)
  BY <1>2, <1>4, <1>7 DEF listCredentials, At
<1> QED
  BY <1>6, <1>7

LEMMA AnswersKeep ==
    ASSUME CredInv, NEW c \in Calls, Answer(c) \/ Lose(c)
    PROVE  CredInv'
<1> USE Before
<1>1. UNCHANGED <<account, creds, envelopes, spent, recovered>> /\ End(c)
  BY DEF Answer, Lose
<1>2. delivered' \subseteq 1..Len(creds)
  <2>1. CASE Answer(c)
    <3>1. calls[c].secret \in 1..Len(creds)
      BY <2>1 DEF Answer, At, CallOK
    <3> QED
      BY <2>1, <3>1 DEF Answer
  <2>2. CASE Lose(c)
    BY <2>2 DEF Lose
  <2> QED
    BY <2>1, <2>2
<1> QED
  BY <1>1, <1>2, EndKeeps

-----------------------------------------------------------------------------
\* Envelopes go, and whoever they belonged to is entered in spent.
LEMMA EnvelopesGo ==
    ASSUME CredInv, UNCHANGED <<account, creds, delivered, recovered>>,
           envelopes' \subseteq envelopes, spent \subseteq spent',
           \A e \in envelopes \ envelopes' : e.cred \in spent',
           calls' \in [Calls -> Call], \A c \in Calls : CallOK(calls'[c])
    PROVE  CredInv'
<1>1. CredType'
  BY DEF CredInv, CredType
<1>2. \A c \in Calls : CallOK(calls[c])'
  BY DEF CallOK
<1>3. EnvelopesMatch'
  BY DEF CredInv, EnvelopesMatch
<1>4. Kept'
  BY DEF CredInv, Kept, OwnKey
<1>5. (Opened /\ FromEarlier /\ OneSuccessor)'
  BY DEF CredInv, Opened, FromEarlier, OneSuccessor, OwnKey
<1> QED
  BY <1>1, <1>2, <1>3, <1>4, <1>5 DEF CredInv

LEMMA AcknowledgeKeeps ==
    ASSUME CredInv, NEW key \in Keys, acknowledgeRecoveryEnvelope(key)
    PROVE  CredInv'
<1>1. calls' \in [Calls -> Call] /\ \A c \in Calls : CallOK(calls'[c])
  BY DEF CredInv, CredType, acknowledgeRecoveryEnvelope
<1>2. /\ envelopes' \subseteq envelopes /\ spent \subseteq spent'
      /\ \A e \in envelopes \ envelopes' : e.cred \in spent'
  BY DEF acknowledgeRecoveryEnvelope
<1> QED
  BY <1>1, <1>2, EnvelopesGo DEF acknowledgeRecoveryEnvelope

\* The new call of whoever finds nothing to recover.
LEMMA NothingToRecoverOK ==
    ASSUME CredInv, NEW c \in Calls, calls[c].pc # "idle", NothingToRecover(c)
    PROVE  calls' \in [Calls -> Call] /\ \A d \in Calls : CallOK(calls'[d])
<1> USE Before
<1>1. PICK r : CallOK(r) /\ calls' = [calls EXCEPT ![c] = r]
  <2>1. CASE End(c)
    BY <2>1, IdleOK DEF End, Step
  <2>2. CASE Goto(c, "list") /\ calls[c].op = "rotate"
    <3> DEFINE r == [calls[c] EXCEPT !.pc = "list"]
    <3>1. r \in Call
      BY PlaceNames DEF Call
    <3>2. /\ r.op = calls[c].op /\ r.key = calls[c].key /\ r.terms = calls[c].terms
          /\ r.old = calls[c].old /\ r.pc = "list"
      BY DEF Call
    <3>3. CallOK(r)
      BY <2>2, <3>1, <3>2, MovedOK DEF Finishing
    <3> QED
      BY <2>2, <3>3 DEF Goto, Step
  <2> QED
    BY <2>1, <2>2 DEF NothingToRecover
<1>2. r \in Call
  BY <1>1 DEF CallOK
<1> QED
  BY <1>1, <1>2 DEF CredInv, CredType

LEMMA PeekKeeps ==
    ASSUME CredInv, NEW c \in Calls, PeekEnvelope(c)
    PROVE  CredInv'
<1> USE Before
<1> DEFINE found == EnvelopesOf(calls[c].op, calls[c].key)
<1>1. /\ UNCHANGED <<account, creds, delivered, recovered>>
      /\ calls[c].pc = "peek"
  BY DEF PeekEnvelope, At
<1>2. CASE NothingToRecover(c) /\ UNCHANGED <<envelopes, spent>>
  <2>1. calls' \in [Calls -> Call] /\ \A d \in Calls : CallOK(calls'[d])
    BY <1>1, <1>2, NothingToRecoverOK
  <2> QED
    BY <1>1, <1>2, <2>1, EnvelopesGo
<1>3. ASSUME NEW e \in found, envelopes' = envelopes \ found,
             spent' = spent \union {e.cred}, NothingToRecover(c)
      PROVE  CredInv'
  <2>1. calls' \in [Calls -> Call] /\ \A d \in Calls : CallOK(calls'[d])
    BY <1>1, <1>3, NothingToRecoverOK
  <2>2. \A f \in found : f = e
    BY SMTT(30) DEF CredInv, EnvelopesMatch, EnvelopesOf
  <2> HIDE DEF found
  <2>3. \A f \in envelopes \ envelopes' : f.cred \in spent'
    BY <1>3, <2>2
  <2> QED
    BY <1>1, <1>3, <2>1, <2>3, EnvelopesGo
<1>4. ASSUME NEW e \in found,
             Step(c, [calls[c] EXCEPT !.pc = "take", !.cred = e.cred]),
             UNCHANGED <<envelopes, spent>>
      PROVE  CredInv'
  <2> DEFINE r == [calls[c] EXCEPT !.pc = "take", !.cred = e.cred]
  <2>1. /\ e.cred \in 1..Len(creds) /\ e.cred \in Nat
        /\ creds[e.cred].op = calls[c].op /\ creds[e.cred].key = calls[c].key
    BY SMTT(30) DEF CredInv, EnvelopesMatch, EnvelopesOf
  <2>2. r \in Call
    BY <2>1, PlaceNames, FieldsOK
  <2>3. /\ r.op = calls[c].op /\ r.key = calls[c].key /\ r.terms = calls[c].terms
        /\ r.old = calls[c].old /\ r.pc = "take" /\ r.cred = e.cred
    BY DEF Call
  <2> HIDE DEF r
  <2>4. CallOK(r)
    BY <1>1, <2>1, <2>2, <2>3 DEF CallOK, Finishing
  <2>5. calls' = [calls EXCEPT ![c] = r]
    BY <1>4 DEF Step, r
  <2> QED
    BY <1>1, <1>4, <2>4, <2>5, QuietStep
<1> QED
  BY <1>2, <1>3, <1>4 DEF PeekEnvelope

LEMMA TakeKeeps ==
    ASSUME CredInv, NEW c \in Calls, TakeEnvelope(c)
    PROVE  CredInv'
<1> USE Before
<1> DEFINE found == EnvelopesOf(calls[c].op, calls[c].key)
<1> DEFINE k == calls[c].cred
<1>1. /\ UNCHANGED <<account, creds, delivered>> /\ calls[c].pc = "take"
      /\ envelopes' = envelopes \ found /\ spent' = spent \union {e.cred : e \in found}
  BY DEF TakeEnvelope, At
<1>2. /\ envelopes' \subseteq envelopes /\ spent \subseteq spent'
      /\ \A e \in envelopes \ envelopes' : e.cred \in spent'
  <2> HIDE DEF found
  <2> QED
    BY <1>1
<1>3. CASE found = {}
  <2>1. NothingToRecover(c) /\ UNCHANGED recovered
    BY <1>3 DEF TakeEnvelope
  <2>2. calls' \in [Calls -> Call] /\ \A d \in Calls : CallOK(calls'[d])
    BY <1>1, <2>1, NothingToRecoverOK
  <2> QED
    BY <1>1, <1>2, <2>1, <2>2, EnvelopesGo
<1>4. CASE found # {}
  <2>1. Open(c)
    BY <1>4 DEF TakeEnvelope
  <2>2. PICK e \in envelopes : e.op = calls[c].op /\ e.key = calls[c].key
    BY <1>4 DEF EnvelopesOf
  <2>3. /\ k \in 1..Len(creds) /\ k \in Nat
        /\ creds[k].op = calls[c].op /\ creds[k].key = calls[c].key
    BY SMTT(30), <1>1 DEF CallOK
  <2>4. /\ recovered \in Seq(Nat) /\ Len(recovered) = Len(creds)
        /\ DOMAIN recovered = 1..Len(creds)
    BY SMTT(30) DEF CredInv, CredType
  <2>5. recovered[k] \in Nat
    BY SMTT(30), <2>3, <2>4
  <2>6. /\ recovered' \in Seq(Nat) /\ Len(recovered') = Len(creds)
        /\ \A i \in 1..Len(creds) :
             recovered'[i] = IF i = k THEN recovered[k] + 1 ELSE recovered[i]
    <3>1. recovered' = [recovered EXCEPT ![k] = recovered[k] + 1]
      BY <2>1 DEF Open
    <3>2. recovered[k] + 1 \in Nat
      BY SMTT(30), <2>5
    <3> HIDE DEF k
    <3> QED
      BY SMTT(30), <2>3, <2>4, <3>1, <3>2, RowUpdated
  <2>7. OwnKey(k) => recovered[k] = 0
    BY <2>2, <2>3 DEF CredInv, Opened
  <2>8. calls' \in [Calls -> Call] /\ \A d \in Calls : CallOK(calls'[d])
    <3>1. PICK r : CallOK(r) /\ calls' = [calls EXCEPT ![c] = r]
      <4>1. CASE End(c)
        BY <4>1, IdleOK DEF End, Step
      <4>2. CASE Step(c, [calls[c] EXCEPT !.pc = "answer", !.secret = k])
        <5> DEFINE r == [calls[c] EXCEPT !.pc = "answer", !.secret = k]
        <5>1. r \in Call
          BY <2>3, PlaceNames, FieldsOK
        <5>2. /\ r.op = calls[c].op /\ r.key = calls[c].key /\ r.terms = calls[c].terms
              /\ r.old = calls[c].old /\ r.pc = "answer" /\ r.secret = k
          BY DEF Call
        <5>3. CallOK(r)
          BY <1>1, <2>3, <5>1, <5>2, MovedOK DEF Finishing
        <5> QED
          BY <4>2, <5>3 DEF Step
      <4> QED
        BY <2>1, <4>1, <4>2 DEF Open
    <3>2. r \in Call
      BY <3>1 DEF CallOK
    <3> QED
      BY <3>1, <3>2 DEF CredInv, CredType
  <2>9. CredType'
    BY <1>1, <2>6, <2>8 DEF CredInv, CredType
  <2>10. \A d \in Calls : CallOK(calls[d])'
    BY <1>1, <2>8 DEF CallOK
  <2>11. EnvelopesMatch' /\ Kept' /\ FromEarlier' /\ OneSuccessor'
    <3>1. creds' = creds
      BY <1>1
    <3> HIDE DEF found, k
    <3>2. EnvelopesMatch'
      BY <1>2, <3>1 DEF CredInv, EnvelopesMatch
    <3>3. Kept'
      BY <1>2, <3>1 DEF CredInv, Kept, OwnKey
    <3>4. FromEarlier' /\ OneSuccessor'
      BY <3>1 DEF CredInv, FromEarlier, OneSuccessor
    <3> QED
      BY <3>2, <3>3, <3>4
  <2>12. Opened'
    <3>1. \A f \in envelopes' : ~(f.op = creds[k].op /\ f.key = creds[k].key)
      BY <1>1, <2>3 DEF EnvelopesOf
    <3>2. creds' = creds
      BY <1>1
    <3>3. \A i \in 1..Len(creds) : OwnKey(i) =>
            \/ recovered[i] = 0
            \/ /\ recovered[i] = 1
               /\ \A f \in envelopes : ~(f.op = creds[i].op /\ f.key = creds[i].key)
      BY DEF CredInv, Opened
    <3> HIDE DEF found, k
    <3>4. ASSUME NEW i \in 1..Len(creds), OwnKey(i)
          PROVE  \/ recovered'[i] = 0
                 \/ /\ recovered'[i] = 1
                    /\ \A f \in envelopes' : ~(f.op = creds[i].op /\ f.key = creds[i].key)
      <4>1. CASE i = k
        <5>1. recovered'[i] = 0 + 1
          BY <2>3, <2>6, <2>7, <3>4, <4>1
        <5>2. 0 + 1 = 1
          BY SMT
        <5> QED
          BY <3>1, <4>1, <5>1, <5>2
      <4>2. CASE i # k
        BY <1>2, <2>6, <3>3, <3>4, <4>2
      <4> QED
        BY <4>1, <4>2
    <3>5. \A i \in 1..Len(creds) : OwnKey(i)' => OwnKey(i)
      BY <3>2 DEF OwnKey
    <3> QED
      BY <3>2, <3>4, <3>5 DEF Opened
  <2> QED
    BY <2>9, <2>10, <2>11, <2>12 DEF CredInv
<1> QED
  BY <1>3, <1>4

-----------------------------------------------------------------------------
\* Credentials change: nobody's operation, key or predecessor does, and a revoked
\* one stays revoked.
Stays(n) ==
    \A i \in 1..n : /\ creds'[i].op = creds[i].op /\ creds'[i].key = creds[i].key
                    /\ creds'[i].from = creds[i].from
                    /\ creds[i].status = "REVOKED" => creds'[i].status = "REVOKED"

\* OwnKey, of any list of credentials.
Alone(s, i) ==
    s[i].op = "rotate" =>
        \A j \in DOMAIN s : s[j].op = "rotate" /\ s[j].key = s[i].key => j = i

\* Kept and Opened before and after a step, with the list as a parameter.
LEMMA ByKeys ==
    ASSUME creds \in Seq(Credential), creds' \in Seq(Credential)
    PROVE  /\ Kept <=> \A i \in 1..Len(creds) : creds[i].op # "v1" /\ Alone(creds, i) =>
                         i \in spent \/ \E e \in envelopes : e.cred = i
           /\ Kept' <=> \A i \in 1..Len(creds') : creds'[i].op # "v1" /\ Alone(creds', i) =>
                          i \in spent' \/ \E e \in envelopes' : e.cred = i
           /\ Opened <=> \A i \in 1..Len(creds) : Alone(creds, i) =>
                \/ recovered[i] = 0
                \/ /\ recovered[i] = 1
                   /\ \A e \in envelopes : ~(e.op = creds[i].op /\ e.key = creds[i].key)
           /\ Opened' <=> \A i \in 1..Len(creds') : Alone(creds', i) =>
                \/ recovered'[i] = 0
                \/ /\ recovered'[i] = 1
                   /\ \A e \in envelopes' : ~(e.op = creds'[i].op /\ e.key = creds'[i].key)
BY DEF Kept, Opened, OwnKey, Alone

LEMMA CallStaysOK ==
    ASSUME CredInv, creds' \in Seq(Credential), Len(creds') >= Len(creds),
           Stays(Len(creds)), NEW r, CallOK(r)
    PROVE  CallOK(r)'
<1>1. Len(creds) \in Nat /\ Len(creds') \in Nat
  BY SMTT(30) DEF CredInv, CredType
<1>2. \A i \in 1..Len(creds) : i \in 1..Len(creds')
  BY SMTT(30), <1>1
<1> QED
  BY <1>2 DEF CallOK, Stays

LEMMA RevokeKeeps ==
    ASSUME CredInv, NEW i \in DOMAIN creds, revokeCredential(i)
    PROVE  CredInv'
<1>1. /\ creds \in Seq(Credential) /\ Len(creds) \in Nat /\ DOMAIN creds = 1..Len(creds)
  BY SMTT(30) DEF CredInv, CredType
<1> DEFINE d == [creds[i] EXCEPT !.status = "REVOKED"]
<1>2. creds[i] \in Credential
  BY SMTT(30), <1>1
<1>3. d \in Credential /\ d.op = creds[i].op /\ d.key = creds[i].key
      /\ d.from = creds[i].from /\ d.status = "REVOKED"
  BY <1>2 DEF Credential
<1>4. creds' = [creds EXCEPT ![i] = d]
  BY DEF revokeCredential
<1> HIDE DEF d
<1>5. /\ creds' \in Seq(Credential) /\ Len(creds') = Len(creds)
      /\ \A j \in 1..Len(creds) : creds'[j] = IF j = i THEN d ELSE creds[j]
  BY <1>1, <1>3, <1>4, RowUpdated
<1>6. Stays(Len(creds)) /\ DOMAIN creds' = 1..Len(creds)
  BY SMTT(30), <1>3, <1>5 DEF Stays
<1>7. UNCHANGED <<account, envelopes, calls, delivered, spent, recovered>>
  BY DEF revokeCredential
<1>8. CredType'
  BY <1>5, <1>7 DEF CredInv, CredType
<1>a. creds' \in Seq(Credential) /\ Len(creds') >= Len(creds)
  BY SMTT(30), <1>1, <1>5
<1>9. \A c \in Calls : CallOK(calls[c])'
  <2> SUFFICES ASSUME NEW c \in Calls PROVE CallOK(calls[c])'
    OBVIOUS
  <2>1. CallOK(calls[c])
    BY DEF CredInv
  <2>2. \A r : CallOK(r) => CallOK(r)'
    BY <1>1, <1>a, <1>6, CallStaysOK
  <2> QED
    BY <1>7, <2>1, <2>2 DEF CallOK
<1>10. \A j \in 1..Len(creds) : Alone(creds', j) <=> Alone(creds, j)
  BY <1>1, <1>6 DEF Alone, Stays
<1>13. EnvelopesMatch' /\ FromEarlier'
  BY <1>5, <1>6, <1>7 DEF CredInv, EnvelopesMatch, FromEarlier, Stays
<1>14. Kept'
  BY <1>1, <1>5, <1>6, <1>7, <1>10, ByKeys DEF CredInv, Stays
<1>15. Opened'
  BY <1>1, <1>5, <1>6, <1>7, <1>10, ByKeys DEF CredInv, Stays
<1>12. OneSuccessor'
  <2>1. \A j \in 1..Len(creds) : creds[j].from # 0 => creds[j].from \in 1..Len(creds)
    BY SMTT(30), <1>1 DEF CredInv, FromEarlier
  <2> QED
    BY SMTT(30), <1>1, <1>6, <2>1 DEF CredInv, OneSuccessor, Stays
<1> QED
  BY <1>8, <1>9, <1>12, <1>13, <1>14, <1>15 DEF CredInv

\* A credential is added, with an envelope unless it is a V1 credential or the key
\* of a rotation has one already.
Grows(d) ==
    LET n == Len(creds)
    IN /\ d \in Credential /\ creds' \in Seq(Credential)
       /\ Len(creds') = n + 1 /\ creds'[n + 1] = d
       /\ Stays(n)
       /\ d.from # 0 => /\ d.from \in 1..n /\ creds'[d.from].status = "REVOKED"
                        /\ \A i \in 1..n : creds[i].from # d.from
       /\ \/ envelopes' = envelopes /\ d.op = "v1"
          \/ envelopes' = envelopes /\ d.op = "rotate" /\ EnvelopesOf(d.op, d.key) # {}
          \/ /\ EnvelopesOf(d.op, d.key) = {}
             /\ d.op = "rotate" \/ \A i \in 1..n : ~(creds[i].op = d.op /\ creds[i].key = d.key)
             /\ \E e \in Envelope : /\ e.op = d.op /\ e.key = d.key /\ e.cred = n + 1
                                    /\ envelopes' = envelopes \union {e}

\* The envelope that comes with it is its own.
LEMMA GrowingEnvelope ==
    ASSUME NEW d, Grows(d), NEW e \in envelopes', e \notin envelopes
    PROVE  /\ e.op = d.op /\ e.key = d.key /\ e.cred = Len(creds) + 1
           /\ d.op = "rotate" \/ \A i \in 1..Len(creds) :
                                    ~(creds[i].op = d.op /\ creds[i].key = d.key)
BY DEF Grows

LEMMA GrowingKeepsKeys ==
    ASSUME CredInv, NEW d, Grows(d)
    PROVE  /\ \A i \in 1..Len(creds) : Alone(creds', i) => Alone(creds, i)
           /\ \A i \in 1..Len(creds) : Alone(creds', i) =>
                ~(creds[i].op = "rotate" /\ d.op = "rotate" /\ creds[i].key = d.key)
           /\ d.op = "rotate" /\ Alone(creds', Len(creds) + 1) =>
                \A i \in 1..Len(creds) : ~(creds[i].op = "rotate" /\ creds[i].key = d.key)
<1>1. /\ Len(creds) \in Nat /\ DOMAIN creds = 1..Len(creds)
      /\ DOMAIN creds' = 1..(Len(creds) + 1)
  BY SMTT(30) DEF CredInv, CredType, Grows
<1>2. /\ \A i \in 1..Len(creds) : /\ i \in 1..(Len(creds) + 1) /\ i # Len(creds) + 1
                                  /\ creds'[i].op = creds[i].op
                                  /\ creds'[i].key = creds[i].key
      /\ Len(creds) + 1 \in 1..(Len(creds) + 1) /\ creds'[Len(creds) + 1] = d
  BY SMTT(30), <1>1 DEF Grows, Stays
<1>3. ASSUME NEW i \in 1..Len(creds), Alone(creds', i) PROVE Alone(creds, i)
  BY <1>1, <1>2, <1>3 DEF Alone
<1>4. ASSUME NEW i \in 1..Len(creds), Alone(creds', i)
      PROVE  ~(creds[i].op = "rotate" /\ d.op = "rotate" /\ creds[i].key = d.key)
  BY <1>1, <1>2, <1>4 DEF Alone
<1>5. ASSUME d.op = "rotate", Alone(creds', Len(creds) + 1), NEW i \in 1..Len(creds)
      PROVE  ~(creds[i].op = "rotate" /\ creds[i].key = d.key)
  BY <1>1, <1>2, <1>5 DEF Alone
<1> QED
  BY <1>3, <1>4, <1>5

LEMMA GrowingKeeps ==
    ASSUME CredInv, NEW d, Grows(d), recovered' = Append(recovered, 0),
           UNCHANGED spent, delivered' \subseteq 1..(Len(creds) + 1),
           account' \in [status: Statuses, rowVersion: Nat],
           calls' \in [Calls -> Call], \A c \in Calls : CallOK(calls[c])'
    PROVE  CredInv'
<1> DEFINE n == Len(creds)
<1>1. /\ creds \in Seq(Credential) /\ n \in Nat /\ DOMAIN creds = 1..n
      /\ Len(creds') = n + 1 /\ DOMAIN creds' = 1..(n + 1) /\ Stays(n)
      /\ creds'[n + 1] = d /\ d \in Credential /\ creds' \in Seq(Credential)
  BY SMTT(30) DEF CredInv, CredType, Grows
<1>2. /\ recovered' \in Seq(Nat) /\ Len(recovered') = n + 1 /\ recovered'[n + 1] = 0
      /\ \A i \in 1..n : recovered'[i] = recovered[i]
  BY SMTT(30) DEF CredInv, CredType
<1>3. envelopes \subseteq envelopes' /\ envelopes' \subseteq Envelope
  BY DEF CredInv, CredType, Grows
<1>4. CredType'
  BY <1>1, <1>2, <1>3 DEF CredType
<1>5. \A i \in 1..n : i \in 1..(n + 1) /\ i # n + 1
  BY SMTT(30), <1>1
<1>6. \A i \in 1..(n + 1) : i \in 1..n \/ i = n + 1
  BY SMTT(30), <1>1
<1>7. EnvelopesMatch'
  <2>1. ASSUME NEW e \in envelopes'
        PROVE  /\ e.cred \in 1..(n + 1)
               /\ creds'[e.cred].op = e.op /\ creds'[e.cred].key = e.key
    <3>1. CASE e \in envelopes
      BY <1>5, <1>1, <3>1 DEF CredInv, EnvelopesMatch, Stays
    <3>2. CASE e \notin envelopes
      <4>1. e.op = d.op /\ e.key = d.key /\ e.cred = n + 1
        BY <3>2, GrowingEnvelope
      <4>2. n + 1 \in 1..(n + 1)
        BY SMTT(30), <1>1
      <4> QED
        BY <1>1, <4>1, <4>2
    <3> QED
      BY <3>1, <3>2
  <2>2. ASSUME NEW e \in envelopes', NEW f \in envelopes', e.op = f.op, e.key = f.key
        PROVE  e = f
    BY SMTT(30), <2>2 DEF CredInv, EnvelopesMatch, Grows, EnvelopesOf
  <2> QED
    BY <1>1, <2>1, <2>2 DEF EnvelopesMatch
<1>8. Kept'
  <2>1. ASSUME NEW i \in 1..n, creds'[i].op # "v1", Alone(creds', i)
        PROVE  i \in spent' \/ \E e \in envelopes' : e.cred = i
    BY <1>1, <1>3, <2>1, GrowingKeepsKeys, ByKeys DEF CredInv, Stays
  <2>2. ASSUME d.op # "v1", Alone(creds', n + 1)
        PROVE  \E e \in envelopes' : e.cred = n + 1
    <3>1. CASE d.op = "rotate" /\ EnvelopesOf(d.op, d.key) # {}
      <4>1. PICK e \in envelopes : e.op = d.op /\ e.key = d.key
        BY <3>1 DEF EnvelopesOf
      <4>2. e.cred \in 1..n /\ creds[e.cred].op = d.op /\ creds[e.cred].key = d.key
        BY <4>1 DEF CredInv, EnvelopesMatch
      <4> QED
        BY <2>2, <3>1, <4>2, GrowingKeepsKeys
    <3> QED
      BY <2>2, <3>1 DEF Grows
  <2> QED
    BY <1>1, <1>6, <2>1, <2>2, ByKeys
<1>9. Opened'
  <2>1. ASSUME NEW i \in 1..n, Alone(creds', i)
        PROVE  \/ recovered'[i] = 0
               \/ /\ recovered'[i] = 1
                  /\ \A e \in envelopes' : ~(e.op = creds'[i].op /\ e.key = creds'[i].key)
    <3>1. \/ recovered[i] = 0
          \/ /\ recovered[i] = 1
             /\ \A e \in envelopes : ~(e.op = creds[i].op /\ e.key = creds[i].key)
      BY <2>1, GrowingKeepsKeys, ByKeys, <1>1 DEF CredInv
    <3>2. \A e \in envelopes' \ envelopes : ~(e.op = creds[i].op /\ e.key = creds[i].key)
      <4>1. ~(creds[i].op = "rotate" /\ d.op = "rotate" /\ creds[i].key = d.key)
        BY <2>1, GrowingKeepsKeys
      <4> QED
        BY <4>1, GrowingEnvelope
    <3> QED
      BY <1>1, <1>2, <3>1, <3>2 DEF Stays
  <2> QED
    BY <1>1, <1>2, <1>6, <2>1, ByKeys
<1>10. FromEarlier'
  <2>1. \A i \in 1..n : creds'[i].from \in 0..(n + 1)
    BY SMTT(30), <1>1 DEF CredInv, FromEarlier, Stays
  <2>2. d.from \in 0..(n + 1)
    BY SMTT(30), <1>1 DEF Grows, Credential
  <2> QED
    BY <1>1, <1>6, <2>1, <2>2 DEF FromEarlier
<1>11. OneSuccessor'
  <2>1. \A i \in 1..n : creds[i].from # 0 => creds[i].from \in 1..n
    BY SMTT(30), <1>1 DEF CredInv, FromEarlier
  <2>4. \A i \in 1..n : creds'[i].from = creds[i].from
    BY <1>1 DEF Stays
  <2>5. \A i \in 1..n : creds[i].status = "REVOKED" => creds'[i].status = "REVOKED"
    BY <1>1 DEF Stays
  <2>6. \A i \in 1..n : creds[i].from # 0 =>
          /\ creds[creds[i].from].status = "REVOKED"
          /\ \A j \in 1..n : creds[j].from = creds[i].from => j = i
    BY <1>1 DEF CredInv, OneSuccessor
  <2>7. d.from # 0 => \A i \in 1..n : creds[i].from # d.from
    BY DEF Grows
  <2>2. \A i \in 1..n : creds'[i].from # 0 =>
          /\ creds'[creds'[i].from].status = "REVOKED"
          /\ \A j \in 1..n : creds'[j].from = creds'[i].from => j = i
          /\ d.from # creds'[i].from
    BY <2>1, <2>4, <2>5, <2>6, <2>7
  <2>3. d.from # 0 => /\ creds'[d.from].status = "REVOKED"
                      /\ \A j \in 1..n : creds'[j].from # d.from
    BY <1>1 DEF Grows, Stays
  <2> QED
    BY <1>1, <1>6, <2>2, <2>3 DEF OneSuccessor
<1> QED
  BY <1>4, <1>7, <1>8, <1>9, <1>10, <1>11 DEF CredInv

\* The calls beside a transaction that appends a credential: c moves on to r.
LEMMA GrowingCallsOK ==
    ASSUME CredInv, NEW d, Grows(d), NEW c \in Calls, NEW r, CallOK(r)',
           calls' = [calls EXCEPT ![c] = r]
    PROVE  calls' \in [Calls -> Call] /\ \A b \in Calls : CallOK(calls[b])'
<1>1. r \in Call /\ calls \in [Calls -> Call]
  BY DEF CallOK, CredInv, CredType
<1>2. Len(creds) \in Nat /\ creds' \in Seq(Credential) /\ Len(creds') = Len(creds) + 1
      /\ Stays(Len(creds))
  BY NextPlace DEF Grows
<1>3. \A s : CallOK(s) => CallOK(s)'
  BY SMTT(30), <1>2, CallStaysOK
<1>4. \A b \in Calls : CallOK(calls[b])
  BY DEF CredInv
<1>5. \A b \in Calls : calls'[b] = IF b = c THEN r ELSE calls[b]
  BY <1>1
<1>6. ASSUME NEW b \in Calls PROVE CallOK(calls[b])'
  <2>1. CASE b = c
    BY <1>5, <2>1 DEF CallOK
  <2>2. CASE b # c
    <3>1. PICK s : s = calls[b]
      OBVIOUS
    <3>2. CallOK(s)' /\ calls'[b] = s
      BY <1>3, <1>4, <1>5, <2>2, <3>1
    <3> QED
      BY <3>2 DEF CallOK
  <2> QED
    BY <2>1, <2>2
<1> QED
  BY <1>1, <1>6

LEMMA InsertKeeps ==
    ASSUME CredInv, NEW c \in Calls, NEW d \in Credential, NEW expires \in Nat,
           NEW next \in {"finish", "answer"}, Insert(c, d, expires, next),
           calls[c].op \in {"provision", "issue"}, calls[c].pc # "idle",
           d.op = calls[c].op, d.key = calls[c].key, d.from = 0,
           Bound(calls[c].op, calls[c].key) = {},
           UNCHANGED <<delivered, spent>>,
           account' \in [status: Statuses, rowVersion: Nat]
    PROVE  CredInv'
<1> USE Before
<1> DEFINE n == Len(creds)
<1>1. /\ creds' \in Seq(Credential) /\ Len(creds') = n + 1 /\ creds'[n + 1] = d
      /\ \A i \in 1..n : creds'[i] = creds[i]
  BY SMTT(30) DEF Insert
<1>2. Stays(n)
  BY <1>1 DEF Stays
<1>3. \A i \in 1..n : ~(creds[i].op = d.op /\ creds[i].key = d.key)
  BY DEF Bound
<1>4. EnvelopesOf(d.op, d.key) = {}
  BY <1>3, UnusedKey
<1> DEFINE e == [op |-> calls[c].op, key |-> calls[c].key, cred |-> n + 1,
                 expires |-> expires]
<1>5. calls[c].key \in Keys /\ n + 1 \in Nat
  BY NextPlace DEF CallOK
<1>6. e \in Envelope /\ e.op = d.op /\ e.key = d.key /\ e.cred = n + 1
  <2>1. e \in Envelope
    BY <1>5, EnvelopeOK
  <2>2. e.op = calls[c].op /\ e.key = calls[c].key /\ e.cred = n + 1
    OBVIOUS
  <2> QED
    BY <2>1, <2>2
<1>7. envelopes' = envelopes \union {e}
  BY DEF Insert
<1> HIDE DEF e
<1>8. Grows(d)
  BY <1>1, <1>2, <1>3, <1>4, <1>6, <1>7 DEF Grows
<1> DEFINE r == [calls[c] EXCEPT !.pc = next, !.then = "answer", !.cred = n + 1,
                                 !.secret = n + 1]
<1>9. next \in Places
  BY PlaceNames
<1>10. r \in Call
  BY <1>5, <1>9, FieldsOK
<1>11. /\ r.op = calls[c].op /\ r.key = calls[c].key /\ r.terms = calls[c].terms
       /\ r.pc = next /\ r.then = "answer" /\ r.secret = n + 1
  BY SMTT(30) DEF Call
<1>12. calls' = [calls EXCEPT ![c] = r]
  BY DEF Insert, Step
<1>13. n + 1 \in 1..Len(creds')
  BY SMTT(30), <1>1, <1>5
<1> HIDE DEF r
<1>14. PICK s : s = r
  OBVIOUS
<1>15. CallOK(s)'
  BY <1>5, <1>10, <1>11, <1>13, <1>14 DEF CallOK, Finishing
<1>16. calls' \in [Calls -> Call] /\ \A b \in Calls : CallOK(calls[b])'
  BY <1>8, <1>12, <1>14, <1>15, GrowingCallsOK
<1>17. delivered' \subseteq 1..(n + 1)
  BY DeliveredEarlier
<1>18. recovered' = Append(recovered, 0)
  BY DEF Insert
<1> QED
  BY <1>8, <1>16, <1>17, <1>18, GrowingKeeps

LEMMA ProvisionAccountKeeps ==
    ASSUME CredInv, NEW c \in Calls, provisionAccount(c)
    PROVE  CredInv'
<1> USE Before
<1> DEFINE bound == Bound("provision", calls[c].key)
<1>1. /\ UNCHANGED <<delivered, spent>> /\ calls[c].pc = "provision"
      /\ calls[c].op = "provision" /\ calls[c].terms \in Terms /\ calls[c].key \in Keys
      /\ calls[c].at \in Nat
  BY DEF provisionAccount, At, CallOK, Call
<1>2. CASE /\ bound = {} /\ account' = [status |-> "PROVISIONING", rowVersion |-> 1]
           /\ Insert(c, NewCredential("provision", calls[c].key, calls[c].terms,
                                      AllScopes, Never, 0),
                     calls[c].at + RecoveryTtl, "finish")
  <2> DEFINE d == NewCredential("provision", calls[c].key, calls[c].terms, AllScopes,
                                Never, 0)
  <2>1. d \in Credential /\ d.op = "provision" /\ d.key = calls[c].key /\ d.from = 0
    BY <1>1, NeverOK DEF NewCredential, Credential
  <2>2. calls[c].at + RecoveryTtl \in Nat
    BY <1>1, Deadline
  <2>3. account' \in [status: Statuses, rowVersion: Nat]
    BY <1>2 DEF Statuses
  <2> HIDE DEF d
  <2>4. Insert(c, d, calls[c].at + RecoveryTtl, "finish")
    BY <1>2 DEF d
  <2> QED
    BY <1>1, <1>2, <2>1, <2>2, <2>3, <2>4, InsertKeeps
<1>3. CASE UNCHANGED <<account, creds, envelopes, recovered>> /\ End(c)
  BY <1>1, <1>3, EndKeeps
<1>4. ASSUME NEW i \in bound, UNCHANGED <<account, creds, envelopes, recovered>>,
             Step(c, [calls[c] EXCEPT !.pc = "finish", !.then = "again", !.cred = i])
      PROVE  CredInv'
  <2> DEFINE r == [calls[c] EXCEPT !.pc = "finish", !.then = "again", !.cred = i]
  <2>1. i \in Nat
    BY BoundPlaces
  <2>2. r \in Call
    BY <2>1, PlaceNames, FieldsOK
  <2>3. /\ r.op = calls[c].op /\ r.key = calls[c].key /\ r.terms = calls[c].terms
        /\ r.old = calls[c].old /\ r.pc = "finish" /\ r.then = "again"
    BY DEF Call
  <2>4. CallOK(r)
    BY <1>1, <2>2, <2>3, MovedOK DEF Finishing
  <2> HIDE DEF r
  <2>5. calls' = [calls EXCEPT ![c] = r]
    BY <1>4 DEF Step, r
  <2> QED
    BY <1>1, <1>4, <2>4, <2>5, QuietStep
<1> QED
  BY <1>2, <1>3, <1>4 DEF provisionAccount

LEMMA CreateCredentialKeeps ==
    ASSUME CredInv, now \in Nat, NEW c \in Calls, createCredential(c)
    PROVE  CredInv'
<1> USE Before
<1> DEFINE bound == Bound("issue", calls[c].key)
<1>1. /\ UNCHANGED <<account, delivered, spent>> /\ calls[c].pc = "create"
      /\ calls[c].op = "issue" /\ calls[c].terms \in Terms /\ calls[c].key \in Keys
  BY DEF createCredential, At, CallOK
<1>2. CASE /\ bound = {}
           /\ Insert(c, NewCredential("issue", calls[c].key, calls[c].terms,
                                      Scopes[calls[c].terms], Expiry[calls[c].terms], 0),
                     now + RecoveryTtl, "answer")
  <2> DEFINE d == NewCredential("issue", calls[c].key, calls[c].terms,
                                Scopes[calls[c].terms], Expiry[calls[c].terms], 0)
  <2>1. d \in Credential /\ d.op = "issue" /\ d.key = calls[c].key /\ d.from = 0
    BY <1>1, CredentialsAssumption DEF NewCredential, Credential
  <2>2. now + RecoveryTtl \in Nat
    BY Deadline
  <2> HIDE DEF d
  <2>4. Insert(c, d, now + RecoveryTtl, "answer")
    BY <1>2 DEF d
  <2> QED
    BY <1>1, <1>2, <2>1, <2>2, <2>4, InsertKeeps
<1>3. CASE UNCHANGED <<creds, envelopes, recovered>> /\ End(c)
  BY <1>1, <1>3, EndKeeps
<1>4. ASSUME NEW i \in bound, UNCHANGED <<creds, envelopes, recovered>>, ReplayIssued(c, i)
      PROVE  CredInv'
  BY <1>1, <1>4, ReplayIssuedKeeps DEF Bound
<1> QED
  BY <1>2, <1>3, <1>4 DEF createCredential

LEMMA RotateKeeps ==
    ASSUME CredInv, now \in Nat, NEW c \in Calls, rotateCredential(c)
    PROVE  CredInv'
<1> USE Before
<1> DEFINE n == Len(creds)
<1> DEFINE old == calls[c].old
<1>1. /\ UNCHANGED <<account, delivered, spent>> /\ calls[c].pc = "rotate"
      /\ calls[c].op = "rotate" /\ calls[c].key \in Keys /\ old \in 1..n
      /\ n + 1 \in Nat
  BY SMTT(30) DEF rotateCredential, At, CallOK
<1>2. CASE /\ creds[old].status # "ACTIVE"
           /\ Step(c, [calls[c] EXCEPT !.pc = "peek", !.then = "late"])
           /\ UNCHANGED <<creds, envelopes, recovered>>
  <2> DEFINE r == [calls[c] EXCEPT !.pc = "peek", !.then = "late"]
  <2>1. r \in Call
    BY PlaceNames, FieldsOK
  <2>2. /\ r.op = calls[c].op /\ r.key = calls[c].key /\ r.terms = calls[c].terms
        /\ r.old = calls[c].old /\ r.pc = "peek"
    BY DEF Call
  <2>3. CallOK(r)
    BY <1>1, <2>1, <2>2, MovedOK DEF Finishing
  <2> HIDE DEF r
  <2>4. calls' = [calls EXCEPT ![c] = r]
    BY <1>2 DEF Step, r
  <2> QED
    BY <1>1, <1>2, <2>3, <2>4, QuietStep
<1>3. CASE creds[old].status = "ACTIVE" /\ Replace(c) /\ KeepEnvelope(c)
  <2> DEFINE d == Successor(c)
  <2> DEFINE b == [creds[old] EXCEPT !.status = "REVOKED"]
  <2> DEFINE revoked == [creds EXCEPT ![old] = b]
  <2>1. creds[old] \in Credential
    BY SMTT(30), <1>1
  <2>2. /\ b \in Credential /\ b.op = creds[old].op /\ b.key = creds[old].key
        /\ b.from = creds[old].from /\ b.status = "REVOKED"
    BY <2>1 DEF Credential
  <2>3. /\ d \in Credential /\ d.op = "rotate" /\ d.key = calls[c].key /\ d.from = old
    <3>1. creds[old].scopes \in SUBSET AllScopes
      BY <2>1 DEF Credential
    <3>2. old \in Nat
      BY SMTT(30), <1>1
    <3> QED
      BY <1>1, <3>1, <3>2, NeverOK DEF Successor, NewCredential, Credential
  <2>4. creds' = Append(revoked, d) /\ recovered' = Append(recovered, 0)
    BY <1>3 DEF Replace
  <2> HIDE DEF b, d, old
  <2>5. /\ revoked \in Seq(Credential) /\ Len(revoked) = n
        /\ \A i \in 1..n : revoked[i] = IF i = old THEN b ELSE creds[i]
    BY SMTT(30), <1>1, <2>2, RowUpdated
  <2> HIDE DEF revoked
  <2>6. /\ creds' \in Seq(Credential) /\ Len(creds') = n + 1 /\ creds'[n + 1] = d
        /\ \A i \in 1..n : creds'[i] = IF i = old THEN b ELSE creds[i]
    BY SMTT(30), <2>3, <2>4, <2>5
  <2>7. Stays(n)
    BY <2>2, <2>6 DEF Stays
  <2>8. /\ d.from \in 1..n /\ creds'[d.from].status = "REVOKED"
        /\ \A i \in 1..n : creds[i].from # d.from
    <3>1. d.from \in 1..n /\ creds'[d.from].status = "REVOKED"
      BY <1>1, <2>2, <2>3, <2>6
    <3>2. ASSUME NEW i \in 1..n, creds[i].from = old PROVE FALSE
      BY <1>1, <1>3, <3>2, ActiveHasNoSuccessor DEF old
    <3> QED
      BY <2>3, <3>1, <3>2
  <2>9. \/ envelopes' = envelopes /\ EnvelopesOf(d.op, d.key) # {}
        \/ /\ EnvelopesOf(d.op, d.key) = {}
           /\ \E e \in Envelope : /\ e.op = d.op /\ e.key = d.key /\ e.cred = n + 1
                                  /\ envelopes' = envelopes \union {e}
    <3> DEFINE e == [op |-> "rotate", key |-> calls[c].key, cred |-> n + 1,
                     expires |-> now + RecoveryTtl]
    <3>1. e \in Envelope /\ e.op = d.op /\ e.key = d.key /\ e.cred = n + 1
      <4>1. now + RecoveryTtl \in Nat
        BY Deadline
      <4>2. e \in Envelope
        BY <1>1, <4>1, EnvelopeOK
      <4>3. e.op = "rotate" /\ e.key = calls[c].key /\ e.cred = n + 1
        OBVIOUS
      <4> QED
        BY <2>3, <4>2, <4>3
    <3> QED
      BY <1>3, <2>3, <3>1 DEF KeepEnvelope
  <2>10. Grows(d)
    BY <2>3, <2>6, <2>7, <2>8, <2>9 DEF Grows
  <2> DEFINE r == [calls[c] EXCEPT !.pc = "answer", !.cred = n + 1, !.secret = n + 1]
  <2>11. r \in Call
    BY <1>1, PlaceNames, FieldsOK
  <2>12. /\ r.op = calls[c].op /\ r.key = calls[c].key /\ r.old = old
         /\ r.pc = "answer" /\ r.secret = n + 1
    BY DEF Call, old
  <2>13. calls' = [calls EXCEPT ![c] = r]
    BY <1>3 DEF Replace, Step
  <2>14. n + 1 \in 1..Len(creds') /\ old \in 1..Len(creds')
    BY SMTT(30), <1>1, <2>6
  <2> HIDE DEF r
  <2>15. PICK s : s = r
    OBVIOUS
  <2>16. CallOK(s)'
    BY <1>1, <2>11, <2>12, <2>14, <2>15 DEF CallOK, Finishing
  <2>17. calls' \in [Calls -> Call] /\ \A a \in Calls : CallOK(calls[a])'
    BY <2>10, <2>13, <2>15, <2>16, GrowingCallsOK
  <2>18. delivered' \subseteq 1..(n + 1)
    BY <1>1, DeliveredEarlier
  <2> QED
    BY <1>1, <2>4, <2>10, <2>17, <2>18, GrowingKeeps
<1> QED
  BY <1>1, <1>2, <1>3 DEF rotateCredential

\* The administrator's own transactions.
LEMMA CreateV1Keeps ==
    ASSUME CredInv, createAgentAccount \/ createApiCredential,
           account.status = "NONE" => creds = <<>>
    PROVE  CredInv'
<1> DEFINE n == Len(creds)
<1> DEFINE d == NewCredential("v1", "none", "none", AllScopes, Never, 0)
<1>1. d \in Credential /\ d.op = "v1" /\ d.from = 0
  BY NeverOK DEF NewCredential, Credential
<1>2. /\ creds \in Seq(Credential) /\ n \in Nat /\ delivered \subseteq 1..n
      /\ recovered \in Seq(Nat) /\ Len(recovered) = n
      /\ account \in [status: Statuses, rowVersion: Nat] /\ calls \in [Calls -> Call]
      /\ \A c \in Calls : CallOK(calls[c])
  BY SMTT(30) DEF CredInv, CredType
<1>3. UNCHANGED <<envelopes, calls, spent>>
  BY DEF createAgentAccount, createApiCredential
<1>4. /\ creds' = Append(creds, d) /\ recovered' = Append(recovered, 0)
      /\ delivered' \subseteq delivered \union {n + 1}
      /\ account' \in [status: Statuses, rowVersion: Nat]
  <2>1. CASE createAgentAccount
    <3>5. creds = <<>>
      BY <2>1 DEF createAgentAccount
    <3>2. n = 0
      BY <3>5
    <3>6. recovered = <<>>
      BY <1>2, <3>2, NoRows
    <3>1. creds = <<>> /\ recovered = <<>>
      BY <3>5, <3>6
    <3>3. account' \in [status: Statuses, rowVersion: Nat]
      BY <2>1 DEF createAgentAccount, Statuses
    <3> HIDE DEF d
    <3>4. creds' = <<d>> /\ recovered' = <<0>> /\ delivered' \subseteq delivered \union {1}
      BY <2>1 DEF createAgentAccount, d
    <3> QED
      BY SMTT(30), <3>1, <3>2, <3>3, <3>4
  <2>2. CASE createApiCredential
    BY <1>2, <2>2 DEF createApiCredential
  <2> QED
    BY <2>1, <2>2
<1> HIDE DEF d
<1>5. /\ creds' \in Seq(Credential) /\ Len(creds') = n + 1 /\ creds'[n + 1] = d
      /\ \A i \in 1..n : creds'[i] = creds[i]
  BY SMTT(30), <1>1, <1>2, <1>4
<1>6. Stays(n)
  BY <1>5 DEF Stays
<1>7. Grows(d)
  BY <1>1, <1>3, <1>5, <1>6 DEF Grows
<1>8. \A c \in Calls : CallOK(calls[c])'
  <2> SUFFICES ASSUME NEW c \in Calls PROVE CallOK(calls[c])'
    OBVIOUS
  <2>1. \A r : CallOK(r) => CallOK(r)'
    BY SMTT(30), <1>2, <1>5, <1>6, CallStaysOK
  <2> QED
    BY <1>2, <1>3, <2>1 DEF CallOK
<1>9. delivered' \subseteq 1..(n + 1)
  BY SMTT(30), <1>2, <1>4
<1> QED
  BY <1>2, <1>3, <1>4, <1>7, <1>8, <1>9, GrowingKeeps

LEMMA TransitionKeeps ==
    ASSUME CredInv, NEW to \in Statuses, transitionAccount(to)
    PROVE  CredInv'
<1>1. account' \in [status: Statuses, rowVersion: Nat]
  BY SMTT(30) DEF transitionAccount, SetStatus, CredInv, CredType
<1>2. CredType'
  BY <1>1 DEF transitionAccount, CredInv, CredType
<1>3. \A c \in Calls : CallOK(calls[c])'
  BY DEF transitionAccount, CredInv, CallOK
<1>4. (EnvelopesMatch /\ Kept /\ Opened /\ FromEarlier /\ OneSuccessor)'
  BY DEF transitionAccount, CredInv, EnvelopesMatch, Kept, Opened, FromEarlier,
         OneSuccessor, OwnKey
<1> QED
  BY <1>2, <1>3, <1>4 DEF CredInv

-----------------------------------------------------------------------------
\* There are no credentials before there is an account.
AccountFirst == account.status = "NONE" => creds = <<>>

LEMMA AccountFirstKeeps ==
    ASSUME CredInv, AccountFirst, CredentialsNext
    PROVE  AccountFirst'
<1>1. CASE createAgentAccount \/ createApiCredential
  BY SMTT(30), <1>1 DEF AccountFirst, createAgentAccount, createApiCredential
<1>2. ASSUME NEW i \in DOMAIN creds, revokeCredential(i) PROVE AccountFirst'
  <2>1. creds # <<>>
    BY SMTT(30)
  <2> QED
    BY <1>2, <2>1 DEF AccountFirst, revokeCredential
<1>3. ASSUME NEW to \in Statuses, transitionAccount(to) PROVE AccountFirst'
  <2>1. to # "NONE" /\ account'.status = to
    BY <1>3 DEF transitionAccount, CanTransition, SetStatus
  <2> QED
    BY <2>1 DEF AccountFirst
<1>4. ASSUME NEW key \in Keys, acknowledgeRecoveryEnvelope(key) PROVE AccountFirst'
  BY <1>4 DEF AccountFirst, acknowledgeRecoveryEnvelope
<1>5. ASSUME NEW c \in Calls, CallStep(c) PROVE AccountFirst'
  <2>1. CASE UNCHANGED <<account, creds>>
    BY <2>1 DEF AccountFirst
  <2>2. CASE Reopen(c) \/ Activate(c) \/ MarkFailed(c)
    <3>1. /\ UNCHANGED creds
          /\ UNCHANGED account \/ \E to \in Statuses \ {"NONE"} : SetStatus(to)
      BY <2>2 DEF Reopen, Activate, MarkFailed, Statuses
    <3>2. UNCHANGED account \/ account'.status # "NONE"
      BY SMTT(30), <3>1 DEF SetStatus
    <3> QED
      BY <3>1, <3>2 DEF AccountFirst
  <2>3. CASE provisionAccount(c)
    <3>1. \/ account' = [status |-> "PROVISIONING", rowVersion |-> 1]
          \/ UNCHANGED <<account, creds>>
      BY <2>3 DEF provisionAccount
    <3>2. account'.status # "NONE" \/ UNCHANGED <<account, creds>>
      BY SMTT(30), <3>1
    <3> QED
      BY <3>2 DEF AccountFirst
  <2>4. CASE createCredential(c)
    BY <2>4 DEF AccountFirst, createCredential
  <2>5. CASE rotateCredential(c)
    <3>1. creds # <<>>
      <4>1. calls[c].old \in 1..Len(creds)
        BY <2>5 DEF CredInv, CallOK, rotateCredential, At
      <4> QED
        BY SMTT(30), <4>1
    <3> QED
      BY <2>5, <3>1 DEF AccountFirst, rotateCredential
  <2>6. CASE \/ \E key \in Keys, t \in Terms : BeginProvision(c, key, t) \/ BeginIssue(c, key, t)
             \/ \E key \in Keys, i \in DOMAIN creds : BeginRotate(c, key, i)
    BY <2>1, <2>6 DEF BeginProvision, BeginIssue, BeginRotate
  <2>7. CASE \/ findProvisioningReplay(c) \/ StartFinishing(c) \/ Provision(c)
             \/ Refetch(c) \/ HandleFailure(c)
    BY <2>1, <2>7
       DEF findProvisioningReplay, StartFinishing, Provision, Refetch, HandleFailure
  <2>8. CASE \/ findCredentialIdempotency(c) \/ listCredentials(c)
             \/ PeekEnvelope(c) \/ TakeEnvelope(c) \/ Answer(c) \/ Lose(c)
    BY <2>1, <2>8 DEF findCredentialIdempotency, listCredentials, PeekEnvelope,
                      TakeEnvelope, Answer, Lose
  <2> QED
    BY <1>5, <2>2, <2>3, <2>4, <2>5, <2>6, <2>7, <2>8 DEF CallStep
<1> QED
  BY <1>1, <1>2, <1>3, <1>4, <1>5 DEF CredentialsNext

\* Every administrative step keeps the invariant.
LEMMA CredInvKeeps ==
    ASSUME CredInv, AccountFirst, now \in Nat, CredentialsNext
    PROVE  CredInv' /\ AccountFirst'
<1>1. AccountFirst'
  BY AccountFirstKeeps
<1>2. CASE createAgentAccount \/ createApiCredential
  <2>1. account.status = "NONE" => creds = <<>>
    BY DEF AccountFirst
  <2> QED
    BY <1>1, <1>2, <2>1, CreateV1Keeps
<1>3. ASSUME NEW i \in DOMAIN creds, revokeCredential(i) PROVE CredInv'
  BY <1>3, RevokeKeeps
<1>4. ASSUME NEW to \in Statuses, transitionAccount(to) PROVE CredInv'
  BY <1>4, TransitionKeeps
<1>5. ASSUME NEW key \in Keys, acknowledgeRecoveryEnvelope(key) PROVE CredInv'
  BY <1>5, AcknowledgeKeeps
<1>6. ASSUME NEW c \in Calls, CallStep(c) PROVE CredInv'
  <2>1. CASE \/ \E key \in Keys, t \in Terms : BeginProvision(c, key, t) \/ BeginIssue(c, key, t)
             \/ \E key \in Keys, i \in DOMAIN creds : BeginRotate(c, key, i)
    BY <2>1, BeginKeeps
  <2>2. CASE findProvisioningReplay(c)
    BY <2>2, findProvisioningReplayKeeps
  <2>3. CASE provisionAccount(c)
    BY <2>3, ProvisionAccountKeeps
  <2>4. CASE StartFinishing(c)
    BY <2>4, StartFinishingKeeps
  <2>5. CASE createCredential(c)
    BY <2>5, CreateCredentialKeeps
  <2>6. CASE rotateCredential(c)
    BY <2>6, RotateKeeps
  <2>7. CASE PeekEnvelope(c)
    BY <2>7, PeekKeeps
  <2>8. CASE TakeEnvelope(c)
    BY <2>8, TakeKeeps
  <2>9. CASE findCredentialIdempotency(c) \/ listCredentials(c)
    BY <2>9, LookupsKeep
  <2>10. CASE Answer(c) \/ Lose(c)
    BY <2>10, AnswersKeep
  <2>11. CASE Reopen(c) \/ Provision(c) \/ Refetch(c) \/ Activate(c)
              \/ HandleFailure(c) \/ MarkFailed(c)
    BY <2>11, StatusStepsKeep, FundingKeeps
  <2> QED
    BY <1>6, <2>1, <2>2, <2>3, <2>4, <2>5, <2>6, <2>7, <2>8, <2>9, <2>10, <2>11
       DEF CallStep
<1> QED
  BY <1>1, <1>2, <1>3, <1>4, <1>5, <1>6 DEF CredentialsNext

\* What the invariant says of the properties.
LEMMA CredInvImplies ==
    ASSUME CredInv
    PROVE  OneSuccessor /\ SecretsAccountedFor /\ RecoveredOnce
<1>1. DOMAIN creds = 1..Len(creds)
  BY SMTT(30) DEF CredInv, CredType
<1>2. SecretsAccountedFor
  BY <1>1 DEF CredInv, Kept, SecretsAccountedFor
<1>3. RecoveredOnce
  BY SMTT(30), <1>1 DEF CredInv, Opened, RecoveredOnce
<1> QED
  BY <1>2, <1>3 DEF CredInv

-----------------------------------------------------------------------------
(* Requests, limits and credentials together. *)

\* The places of a request, after it was sent.
Sent == {"request", "request-burst", "auth", "account", "handler", "served"}

Request == [pc: Sent \union {"free", "capacity", "acquired"},
            route: Exercised \union {"none"}, cred: Nat, own: BOOLEAN, barred: BOOLEAN]

\* What holds of a request r and the clock reading g it has taken, if any.
RequestOK(r, g) ==
    /\ g # NoReading => r.pc \in {"request", "request-burst", "account", "capacity"}
    /\ r.pc \in Sent =>
         /\ r.route \in Exercised /\ r.cred \in 0..Len(creds)
         /\ r.barred /\ r.own => /\ r.cred # 0
                                 /\ \/ Dead(r.cred)
                                    \/ r.route.scope \notin creds[r.cred].scopes
    /\ r.pc = "account" => r.route.bucket # "none"
    /\ r.pc \in {"account", "handler", "served"} => ~(r.barred /\ r.own)
    /\ r.pc = "served" => r.own

RequestInv ==
    /\ requests \in [Callers -> Request]
    /\ \A q \in Callers : RequestOK(requests[q], readings[q])

AccessInv ==
    /\ LimiterInv
    /\ CredInv
    /\ AccountFirst
    /\ RequestInv

-----------------------------------------------------------------------------
LEMMA FreeOK == Free \in Request /\ \A g : g = NoReading => RequestOK(Free, g)
<1>1. Free \in Request /\ Free.pc = "free"
  BY DEF Free, Request
<1> QED
  BY <1>1 DEF RequestOK, Sent

LEMMA AccessInitially == Init => AccessInv
<1> SUFFICES ASSUME Init PROVE AccessInv
  OBVIOUS
<1>1. LimiterInv /\ CredInv
  BY LimiterInitially, CredInitially DEF Init
<1>2. AccountFirst
  BY DEF Init, CredentialsInit, AccountFirst
<1>3. RequestInv
  BY FreeOK DEF Init, LimiterInit, RequestInv
<1> QED
  BY <1>1, <1>2, <1>3 DEF AccessInv

-----------------------------------------------------------------------------
\* One request changes, the tables do not.
LEMMA OneRequest ==
    ASSUME AccessInv, NEW q \in Callers, NEW r \in Request, NEW g,
           requests' = [requests EXCEPT ![q] = r],
           readings' = [readings EXCEPT ![q] = g],
           RequestOK(r, g), UNCHANGED <<creds, now>>
    PROVE  RequestInv'
<1>1. requests \in [Callers -> Request] /\ readings \in [Callers -> Reading]
  BY DEF AccessInv, RequestInv, LimiterInv, LimiterTypeOK
<1>2. requests' \in [Callers -> Request]
  BY <1>1
<1>3. ASSUME NEW p \in Callers PROVE RequestOK(requests[p], readings[p])'
  <2>1. /\ requests'[p] = IF p = q THEN r ELSE requests[p]
        /\ readings'[p] = IF p = q THEN g ELSE readings[p]
    BY <1>1
  <2>2. RequestOK(requests'[p], readings'[p])
    BY <2>1 DEF AccessInv, RequestInv
  <2> QED
    BY <2>2 DEF RequestOK, Dead
<1> QED
  BY <1>2, <1>3 DEF RequestInv

\* The same, when no clock reading is taken or used.
LEMMA OneRequestOnly ==
    ASSUME AccessInv, NEW q \in Callers, NEW r \in Request,
           requests' = [requests EXCEPT ![q] = r],
           RequestOK(r, readings[q]), UNCHANGED <<creds, now, readings>>
    PROVE  RequestInv'
<1>1. readings' = [readings EXCEPT ![q] = readings[q]]
  BY DEF AccessInv, LimiterInv, LimiterTypeOK
<1> QED
  BY <1>1, OneRequest

LEMMA Known ==
    ASSUME AccessInv, NEW q \in Callers
    PROVE  /\ requests \in [Callers -> Request] /\ requests[q] \in Request
           /\ readings \in [Callers -> Reading]
           /\ RequestOK(requests[q], readings[q])
           /\ now \in Nat /\ Len(creds) \in Nat /\ creds \in Seq(Credential)
           /\ delivered \subseteq 1..Len(creds)
BY SMTT(30), LimitsAssumption
   DEF AccessInv, RequestInv, LimiterInv, LimiterTypeOK, Times, CredInv, CredType

LEMMA MovedRequest ==
    ASSUME NEW r \in Request, NEW pc \in Sent \union {"capacity", "acquired"}
    PROVE  LET s == [r EXCEPT !.pc = pc]
           IN /\ s \in Request /\ s.pc = pc /\ s.route = r.route /\ s.cred = r.cred
              /\ s.own = r.own /\ s.barred = r.barred
BY DEF Request

LEMMA LeaveKeeps ==
    ASSUME AccessInv, NEW q \in Callers, Leave(q), UNCHANGED <<creds, now>>,
           \/ UNCHANGED readings /\ readings[q] = NoReading
           \/ readings' = [readings EXCEPT ![q] = NoReading]
    PROVE  RequestInv'
<1>1. readings' = [readings EXCEPT ![q] = NoReading]
  BY Known
<1> QED
  BY <1>1, FreeOK, OneRequest DEF Leave

LEMMA MoveKeeps ==
    ASSUME AccessInv, NEW q \in Callers, NEW pc \in Sent \union {"capacity", "acquired"},
           NEW g, Move(q, pc), UNCHANGED <<creds, now>>,
           readings' = [readings EXCEPT ![q] = g],
           RequestOK([requests[q] EXCEPT !.pc = pc], g)
    PROVE  RequestInv'
<1>1. requests' = [requests EXCEPT ![q] = [requests[q] EXCEPT !.pc = pc]]
  BY DEF Move
<1>2. [requests[q] EXCEPT !.pc = pc] \in Request
  BY Known, MovedRequest
<1> QED
  BY <1>1, <1>2, OneRequest

-----------------------------------------------------------------------------
\* The steps of a request.
LEMMA SendKeeps ==
    ASSUME AccessInv, NEW q \in Callers, NEW t \in Exercised,
           NEW i \in delivered \union {0}, NEW own \in BOOLEAN, SendRequest(q, t, i, own)
    PROVE  RequestInv'
<1> USE Known
<1> DEFINE barred == own => i # 0 /\ (Dead(i) \/ t.scope \notin creds[i].scopes)
<1> DEFINE pc == IF t.version = "v2" THEN "request" ELSE "auth"
<1> DEFINE r == [pc |-> pc, route |-> t, cred |-> i, own |-> own, barred |-> barred]
<1>1. i \in 0..Len(creds) /\ i \in Nat
  BY SMTT(30)
<1>2. pc \in {"request", "auth"} /\ barred \in BOOLEAN
  OBVIOUS
<1>3. barred /\ own => i # 0 /\ (Dead(i) \/ t.scope \notin creds[i].scopes)
  OBVIOUS
<1>4. requests' = [requests EXCEPT ![q] = r] /\ UNCHANGED <<creds, now, readings>>
      /\ readings[q] = NoReading
  BY DEF SendRequest, limiter, Is
<1> HIDE DEF pc, barred
<1>5. r \in Request
  BY <1>1, <1>2 DEF Request, Sent
<1>6. /\ r.pc = pc /\ r.route = t /\ r.cred = i /\ r.own = own /\ r.barred = barred
  OBVIOUS
<1> HIDE DEF r
<1>7. RequestOK(r, readings[q])
  BY <1>1, <1>2, <1>3, <1>4, <1>6 DEF RequestOK, Sent
<1> QED
  BY <1>4, <1>5, <1>7, OneRequestOnly

LEMMA AcquireKeeps ==
    ASSUME AccessInv, NEW q \in Callers, NEW d \in Dependencies, Acquire(q, d)
    PROVE  RequestInv'
<1> USE Known
<1> DEFINE r == [requests[q] EXCEPT !.pc = "capacity"]
<1>1. r.pc = "capacity"
  BY SMTT(30), MovedRequest
<1>2. RequestOK(r, [bucket |-> d, at |-> now])
  BY <1>1 DEF RequestOK, Sent
<1>3. /\ Move(q, "capacity") /\ UNCHANGED <<creds, now>>
      /\ readings' = [readings EXCEPT ![q] = [bucket |-> d, at |-> now]]
  BY DEF Acquire, Move, ReadClock
<1> QED
  BY <1>2, <1>3, MoveKeeps

LEMMA EnterKeeps ==
    ASSUME AccessInv, NEW q \in Callers, EnterBucket(q)
    PROVE  RequestInv' /\ BucketAt(q) \in Buckets
<1> USE Known
<1>1. /\ readings' = [readings EXCEPT ![q] = [bucket |-> BucketAt(q), at |-> now]]
      /\ UNCHANGED <<creds, now, requests>> /\ BucketAt(q) # "none"
  BY DEF EnterBucket, ReadClock, credentialVars
<1>2. requests[q].pc \in {"request", "request-burst", "account"}
  BY <1>1 DEF BucketAt
<1>3. RequestOK(requests[q], [bucket |-> BucketAt(q), at |-> now])
  BY <1>2 DEF RequestOK
<1>4. requests' = [requests EXCEPT ![q] = requests[q]]
  BY <1>1
<1>5. RequestInv'
  BY <1>1, <1>3, <1>4, OneRequest
<1>6. BucketAt(q) \in Buckets
  <2>1. CASE requests[q].pc = "account"
    <3>1. requests[q].route \in Exercised
      BY <2>1 DEF RequestOK, Sent
    <3>2. BucketAt(q) = requests[q].route.bucket
      BY <2>1 DEF BucketAt
    <3> QED
      BY <1>1, <3>1, <3>2, AccessAssumption
  <2>2. CASE requests[q].pc \in {"request", "request-burst"}
    BY <2>2, AccessAssumption DEF BucketAt
  <2> QED
    BY <1>2, <2>1, <2>2
<1> QED
  BY <1>5, <1>6

LEMMA PassKeeps ==
    ASSUME AccessInv, NEW q \in Callers, PassBucket(q)
    PROVE  RequestInv'
<1> USE Known
<1>1. /\ readings' = [readings EXCEPT ![q] = NoReading] /\ UNCHANGED <<creds, now>>
      /\ readings[q] # NoReading
  BY DEF PassBucket, consumeRateLimit, credentialVars
<1>2. requests[q].pc \in {"request", "request-burst", "account", "capacity"}
  BY <1>1 DEF RequestOK
<1>3. CASE Leave(q)
  BY <1>1, <1>3, LeaveKeeps
<1>4. CASE Move(q, NextAfter(requests[q].pc))
  <2> DEFINE pc == NextAfter(requests[q].pc)
  <2>1. /\ pc \in {"request-burst", "auth", "handler", "acquired"}
        /\ pc \in Sent => requests[q].pc \in Sent
        /\ pc = "handler" => requests[q].pc = "account"
    BY <1>2 DEF NextAfter, Sent
  <2> DEFINE r == [requests[q] EXCEPT !.pc = pc]
  <2>5. pc \in Sent \union {"capacity", "acquired"}
    BY <2>1 DEF Sent
  <2> HIDE DEF pc
  <2>2. /\ r.pc = pc /\ r.route = requests[q].route /\ r.cred = requests[q].cred
        /\ r.own = requests[q].own /\ r.barred = requests[q].barred
    BY <2>5, MovedRequest
  <2> HIDE DEF r
  <2>3. RequestOK(r, NoReading)
    BY <2>1, <2>2 DEF RequestOK
  <2> QED
    BY <1>1, <1>4, <2>3, <2>5, MoveKeeps DEF pc, r
<1> QED
  BY <1>3, <1>4 DEF PassBucket

\* A request that authentication lets through is not barred from its own account.
LEMMA NotBarred ==
    ASSUME NEW r, NEW g, RequestOK(r, g), r.pc = "auth", creds \in Seq(Credential), now \in Nat,
           r.cred # 0 => Authentic(r.cred) /\ r.route.scope \in creds[r.cred].scopes
    PROVE  ~(r.barred /\ r.own)
<1> SUFFICES ASSUME r.barred, r.own PROVE FALSE
  OBVIOUS
<1>1. /\ r.cred # 0 /\ r.cred \in 0..Len(creds)
      /\ Dead(r.cred) \/ r.route.scope \notin creds[r.cred].scopes
  BY DEF RequestOK, Sent
<1>2. PICK x : x = r.cred
  OBVIOUS
<1>3. x \in 1..Len(creds) /\ Dead(x) /\ Authentic(x)
  <2>1. x # 0 /\ x \in 0..Len(creds) /\ Dead(x) /\ Authentic(x)
    BY ONLY <1>1, <1>2, r.cred # 0 => Authentic(r.cred) /\ r.route.scope \in creds[r.cred].scopes
  <2> QED
    BY SMTT(30), <2>1
<1>4. creds[x] \in Credential
  BY SMTT(30), <1>3
<1>5. creds[x].expires \in Nat
  BY ONLY SMTT(30), <1>4 DEF Credential
<1> QED
  BY ONLY SMTT(30), now \in Nat, <1>3, <1>5 DEF Dead, Authentic

LEMMA AuthenticateKeeps ==
    ASSUME AccessInv, NEW q \in Callers, Authenticate(q)
    PROVE  RequestInv'
<1> USE Known
<1>1. /\ UNCHANGED <<creds, now, readings>> /\ readings[q] = NoReading
      /\ requests[q].pc = "auth"
  BY DEF Authenticate, limiter, credentialVars, Is
<1>2. CASE Leave(q)
  BY <1>1, <1>2, LeaveKeeps
<1>3. ASSUME Authorised(q), NEW pc \in {"account", "handler"}, Move(q, pc),
             pc = "account" => requests[q].route.bucket # "none"
      PROVE  RequestInv'
  <2> DEFINE r == [requests[q] EXCEPT !.pc = pc]
  <2>1. pc \in Sent
    BY DEF Sent
  <2>2. /\ r.pc = pc /\ r.route = requests[q].route /\ r.cred = requests[q].cred
        /\ r.own = requests[q].own /\ r.barred = requests[q].barred
    BY SMTT(30), <2>1, MovedRequest
  <2> HIDE DEF r
  <2>3. ~(requests[q].barred /\ requests[q].own)
    <3>1. requests[q].cred # 0 =>
            /\ Authentic(requests[q].cred)
            /\ requests[q].route.scope \in creds[requests[q].cred].scopes
      BY <1>3 DEF Authorised
    <3> QED
      BY <1>1, <3>1, NotBarred
  <2>4. RequestOK(r, NoReading)
    BY <1>1, <1>3, <2>1, <2>2, <2>3 DEF RequestOK, Sent
  <2>5. readings' = [readings EXCEPT ![q] = NoReading]
    BY <1>1
  <2> QED
    BY <1>1, <1>3, <2>1, <2>4, <2>5, MoveKeeps DEF r
<1> QED
  BY <1>2, <1>3 DEF Authenticate

LEMMA HandleKeeps ==
    ASSUME AccessInv, NEW q \in Callers, Handle(q) \/ Done(q)
    PROVE  RequestInv'
<1> USE Known
<1>1. /\ UNCHANGED <<creds, now, readings>>
      /\ requests[q].pc \in {"handler", "served", "acquired"}
  BY DEF Handle, Done, limiter, credentialVars, Is
<1>2. readings[q] = NoReading
  BY <1>1 DEF RequestOK
<1>3. CASE Leave(q)
  BY <1>1, <1>2, <1>3, LeaveKeeps
<1>4. CASE requests[q].pc = "handler" /\ requests[q].own /\ Move(q, "served")
  <2> DEFINE r == [requests[q] EXCEPT !.pc = "served"]
  <2>1. "served" \in Sent
    BY DEF Sent
  <2>2. /\ r.pc = "served" /\ r.route = requests[q].route /\ r.cred = requests[q].cred
        /\ r.own = requests[q].own /\ r.barred = requests[q].barred
    BY SMTT(30), <2>1, MovedRequest
  <2> HIDE DEF r
  <2>3. RequestOK(r, NoReading)
    BY <1>4, <2>1, <2>2 DEF RequestOK, Sent
  <2>4. readings' = [readings EXCEPT ![q] = NoReading]
    BY <1>1, <1>2
  <2> QED
    BY <1>1, <1>4, <2>1, <2>3, <2>4, MoveKeeps DEF r
<1> QED
  BY <1>3, <1>4 DEF Handle, Done, Is

-----------------------------------------------------------------------------
\* What a request knows of a credential lasts: credentials are never deleted, keep
\* scopes and expiry, and stay revoked.
Lasting ==
    /\ Len(creds') >= Len(creds)
    /\ \A i \in 1..Len(creds) :
         /\ creds'[i].scopes = creds[i].scopes /\ creds'[i].expires = creds[i].expires
         /\ creds[i].status = "REVOKED" => creds'[i].status = "REVOKED"

LEMMA AppendLasts ==
    ASSUME CredInv, NEW s \in Seq(Credential), NEW d \in Credential, Len(s) = Len(creds),
           creds' = Append(s, d),
           \A i \in 1..Len(creds) :
             /\ s[i].scopes = creds[i].scopes /\ s[i].expires = creds[i].expires
             /\ creds[i].status = "REVOKED" => s[i].status = "REVOKED"
    PROVE  Lasting
<1>1. /\ Len(creds) \in Nat /\ Len(creds') = Len(creds) + 1
      /\ \A i \in 1..Len(creds) : creds'[i] = s[i]
  BY SMTT(30) DEF CredInv, CredType
<1> QED
  BY SMTT(30), <1>1 DEF Lasting

LEMMA RevokedLasts ==
    ASSUME CredInv, NEW i \in 1..Len(creds),
           NEW s, s = [creds EXCEPT ![i].status = "REVOKED"]
    PROVE  /\ s \in Seq(Credential) /\ Len(s) = Len(creds)
           /\ \A j \in 1..Len(creds) :
                /\ s[j].scopes = creds[j].scopes /\ s[j].expires = creds[j].expires
                /\ creds[j].status = "REVOKED" => s[j].status = "REVOKED"
<1>1. creds \in Seq(Credential) /\ Len(creds) \in Nat
  BY SMTT(30) DEF CredInv, CredType
<1> DEFINE d == [creds[i] EXCEPT !.status = "REVOKED"]
<1>2. creds[i] \in Credential
  BY SMTT(30), <1>1
<1>3. /\ d \in Credential /\ d.scopes = creds[i].scopes /\ d.expires = creds[i].expires
      /\ d.status = "REVOKED"
  BY <1>2 DEF Credential
<1>4. s = [creds EXCEPT ![i] = d]
  OBVIOUS
<1> HIDE DEF d
<1>5. /\ s \in Seq(Credential) /\ Len(s) = Len(creds)
      /\ \A j \in 1..Len(creds) : s[j] = IF j = i THEN d ELSE creds[j]
  BY SMTT(30), <1>1, <1>3, <1>4, RowUpdated
<1> QED
  BY <1>3, <1>5

LEMMA CredentialsLast ==
    ASSUME CredInv, AccountFirst, CredentialsNext
    PROVE  Lasting
<1>1. creds \in Seq(Credential) /\ Len(creds) \in Nat /\ DOMAIN creds = 1..Len(creds)
  BY SMTT(30) DEF CredInv, CredType
<1>2. CASE UNCHANGED creds
  BY SMTT(30), <1>1, <1>2 DEF Lasting
<1>3. ASSUME NEW d \in Credential, creds' = Append(creds, d) PROVE Lasting
  BY <1>1, <1>3, AppendLasts
<1> DEFINE v1 == NewCredential("v1", "none", "none", AllScopes, Never, 0)
<1>4. v1 \in Credential
  BY NeverOK DEF NewCredential, Credential
<1>5. CASE createAgentAccount
  <2>1. creds = <<>>
    BY <1>5 DEF createAgentAccount, AccountFirst
  <2>2. creds' = <<v1>>
    BY <1>5 DEF createAgentAccount
  <2> HIDE DEF v1
  <2>3. creds' = Append(creds, v1)
    BY SMTT(30), <2>1, <2>2
  <2> QED
    BY <1>3, <1>4, <2>3
<1>6. CASE createApiCredential
  BY <1>3, <1>4, <1>6 DEF createApiCredential
<1>7. ASSUME NEW i \in DOMAIN creds, revokeCredential(i) PROVE Lasting
  <2>1. creds' = [creds EXCEPT ![i].status = "REVOKED"]
    BY <1>7 DEF revokeCredential
  <2>2. PICK s : s = [creds EXCEPT ![i].status = "REVOKED"]
    OBVIOUS
  <2>3. /\ Len(s) = Len(creds)
        /\ \A j \in 1..Len(creds) :
             /\ s[j].scopes = creds[j].scopes /\ s[j].expires = creds[j].expires
             /\ creds[j].status = "REVOKED" => s[j].status = "REVOKED"
    BY SMTT(30), <1>1, <2>2, RevokedLasts
  <2>4. creds' = s
    BY <2>1, <2>2
  <2> QED
    BY SMTT(30), <1>1, <2>3, <2>4 DEF Lasting
<1>8. CASE \/ \E to \in Statuses : transitionAccount(to)
           \/ \E key \in Keys : acknowledgeRecoveryEnvelope(key)
  BY <1>2, <1>8 DEF transitionAccount, acknowledgeRecoveryEnvelope
<1>9. ASSUME NEW c \in Calls, CallStep(c) PROVE Lasting
  <2>0. CallOK(calls[c]) /\ calls[c] \in Call
    BY DEF CredInv, CallOK
  <2>1. CASE provisionAccount(c)
    <3> DEFINE d == NewCredential("provision", calls[c].key, calls[c].terms, AllScopes,
                                  Never, 0)
    <3>1. calls[c].key \in Keys /\ calls[c].terms \in Terms
      BY <2>0, <2>1 DEF provisionAccount, At, CallOK
    <3>2. d \in Credential
      BY <3>1, NeverOK DEF NewCredential, Credential
    <3>3. UNCHANGED creds \/ creds' = Append(creds, d)
      BY <2>1 DEF provisionAccount, Insert
    <3> QED
      BY <1>2, <1>3, <3>2, <3>3
  <2>2. CASE createCredential(c)
    <3> DEFINE d == NewCredential("issue", calls[c].key, calls[c].terms,
                                  Scopes[calls[c].terms], Expiry[calls[c].terms], 0)
    <3>1. calls[c].key \in Keys /\ calls[c].terms \in Terms
      BY <2>0, <2>2 DEF createCredential, At, CallOK
    <3>2. d \in Credential
      BY <3>1, CredentialsAssumption DEF NewCredential, Credential
    <3>3. UNCHANGED creds \/ creds' = Append(creds, d)
      BY <2>2 DEF createCredential, Insert
    <3> QED
      BY <1>2, <1>3, <3>2, <3>3
  <2>3. CASE rotateCredential(c)
    <3>1. calls[c].key \in Keys /\ calls[c].old \in 1..Len(creds) /\ calls[c].old \in Nat
      BY SMTT(30), <1>1, <2>0, <2>3 DEF rotateCredential, At, CallOK
    <3>2. creds[calls[c].old] \in Credential
      BY SMTT(30), <1>1, <3>1
    <3>3. creds[calls[c].old].scopes \in SUBSET AllScopes
      BY <3>2 DEF Credential
    <3>4. Successor(c) \in Credential
      BY <3>1, <3>3, NeverOK DEF Successor, NewCredential, Credential
    <3>8. PICK k \in 1..Len(creds) : k = calls[c].old
      BY <3>1
    <3>5. PICK s : s = [creds EXCEPT ![k].status = "REVOKED"]
      OBVIOUS
    <3>6. UNCHANGED creds \/ creds' = Append(s, Successor(c))
      BY <2>3, <3>5, <3>8 DEF rotateCredential, Replace
    <3>7. /\ s \in Seq(Credential) /\ Len(s) = Len(creds)
          /\ \A j \in 1..Len(creds) :
               /\ s[j].scopes = creds[j].scopes /\ s[j].expires = creds[j].expires
               /\ creds[j].status = "REVOKED" => s[j].status = "REVOKED"
      BY <3>5, RevokedLasts
    <3> QED
      BY <1>2, <3>4, <3>6, <3>7, AppendLasts
  <2>4. CASE \/ \E key \in Keys, t \in Terms : BeginProvision(c, key, t) \/ BeginIssue(c, key, t)
             \/ \E key \in Keys, i \in DOMAIN creds : BeginRotate(c, key, i)
    BY <1>2, <2>4 DEF BeginProvision, BeginIssue, BeginRotate
  <2>5. CASE \/ findProvisioningReplay(c) \/ StartFinishing(c) \/ Reopen(c) \/ Provision(c)
             \/ Refetch(c) \/ Activate(c) \/ HandleFailure(c) \/ MarkFailed(c)
    BY <1>2, <2>5 DEF findProvisioningReplay, StartFinishing, Reopen, Provision, Refetch,
                      Activate, HandleFailure, MarkFailed
  <2>6. CASE \/ findCredentialIdempotency(c) \/ listCredentials(c)
             \/ PeekEnvelope(c) \/ TakeEnvelope(c) \/ Answer(c) \/ Lose(c)
    BY <1>2, <2>6 DEF findCredentialIdempotency, listCredentials, PeekEnvelope,
                      TakeEnvelope, Answer, Lose
  <2> QED
    BY <1>9, <2>1, <2>2, <2>3, <2>4, <2>5, <2>6 DEF CallStep
<1> QED
  BY <1>5, <1>6, <1>7, <1>8, <1>9 DEF CredentialsNext

\* Requests rest while the administrator works or time passes.
LEMMA RequestsRest ==
    ASSUME AccessInv, creds' \in Seq(Credential), Lasting,
           now' \in Nat, now' >= now, UNCHANGED <<requests, readings>>
    PROVE  RequestInv'
<1>1. ASSUME NEW q \in Callers PROVE RequestOK(requests[q], readings[q])'
  <2>a. /\ RequestOK(requests[q], readings[q])
        /\ now \in Nat /\ Len(creds) \in Nat /\ creds \in Seq(Credential)
    BY Known
  <2>b. Len(creds') \in Nat /\ Len(creds') >= Len(creds)
    BY ONLY SMTT(30), creds' \in Seq(Credential), Lasting DEF Lasting
  <2>1. ASSUME NEW i \in 1..Len(creds), Dead(i) PROVE Dead(i)'
    <3>1. creds[i] \in Credential
      BY SMTT(30), <2>a
    <3>2. creds[i].expires \in Nat
      BY <3>1 DEF Credential
    <3>3. /\ creds'[i].expires = creds[i].expires
          /\ creds[i].status = "REVOKED" => creds'[i].status = "REVOKED"
      BY DEF Lasting
    <3> QED
      BY SMTT(30), <2>1, <2>a, <3>2, <3>3 DEF Dead
  <2>2. ASSUME requests[q].pc \in Sent
        PROVE  /\ requests[q].cred \in 0..Len(creds')
               /\ requests[q].barred /\ requests[q].own =>
                    /\ requests[q].cred # 0
                    /\ \/ Dead(requests[q].cred)'
                       \/ requests[q].route.scope \notin creds'[requests[q].cred].scopes
    <3>1. PICK i : i = requests[q].cred
      OBVIOUS
    <3>2. /\ i \in 0..Len(creds)
          /\ requests[q].barred /\ requests[q].own =>
               i # 0 /\ (Dead(i) \/ requests[q].route.scope \notin creds[i].scopes)
      BY <2>2, <2>a, <3>1 DEF RequestOK
    <3>3. i \in 0..Len(creds')
      BY SMTT(30), <2>a, <2>b, <3>2
    <3>4. requests[q].barred /\ requests[q].own =>
            i # 0 /\ (Dead(i)' \/ requests[q].route.scope \notin creds'[i].scopes)
      <4> SUFFICES ASSUME requests[q].barred, requests[q].own
                   PROVE  i # 0 /\ (Dead(i)' \/ requests[q].route.scope \notin creds'[i].scopes)
        OBVIOUS
      <4>1. i \in 1..Len(creds) /\ (Dead(i) \/ requests[q].route.scope \notin creds[i].scopes)
        BY SMTT(30), <2>a, <3>2
      <4>2. creds'[i].scopes = creds[i].scopes
        BY <4>1 DEF Lasting
      <4> QED
        BY <2>1, <3>2, <4>1, <4>2
    <3>5. Dead(i)' <=> Dead(requests[q].cred)'
      BY <3>1 DEF Dead
    <3> QED
      BY <3>1, <3>3, <3>4, <3>5
  <2> QED
    BY <2>2, <2>a DEF RequestOK
<1> QED
  BY <1>1 DEF AccessInv, RequestInv

\* A step of the whole is a step of the limiter, or leaves it alone.
LEMMA LimiterPart ==
    ASSUME AccessInv, [Next]_vars
    PROVE  [LimiterNext]_limiter
<1>1. ASSUME NEW q \in Callers, RequestStep(q) PROVE [LimiterNext]_limiter
  <2>1. CASE EnterBucket(q)
    BY <2>1, EnterKeeps DEF EnterBucket, LimiterNext
  <2>2. CASE PassBucket(q)
    BY <2>2 DEF PassBucket, LimiterNext
  <2>3. CASE \E d \in Dependencies : Acquire(q, d)
    BY <2>3, AccessAssumption DEF Acquire, LimiterNext
  <2>4. CASE \/ \E r \in Exercised, i \in delivered \union {0}, own \in BOOLEAN :
                  SendRequest(q, r, i, own)
             \/ Authenticate(q) \/ Handle(q) \/ Done(q)
    BY <2>4 DEF SendRequest, Authenticate, Handle, Done
  <2> QED
    BY <1>1, <2>1, <2>2, <2>3, <2>4 DEF RequestStep
<1> QED
  BY <1>1 DEF Next, vars, LimiterNext

\* Requests leave the credentials alone.
LEMMA CredentialsRest ==
    ASSUME CredInv, AccountFirst,
           UNCHANGED <<account, creds, envelopes, calls, delivered, spent, recovered>>
    PROVE  CredInv' /\ AccountFirst'
<1>1. CredType'
  BY DEF CredInv, CredType
<1>2. \A c \in Calls : CallOK(calls[c])'
  BY DEF CredInv, CallOK
<1>3. (EnvelopesMatch /\ Kept /\ Opened /\ FromEarlier /\ OneSuccessor)'
  BY DEF CredInv, EnvelopesMatch, Kept, Opened, FromEarlier, OneSuccessor, OwnKey
<1>4. CredInv'
  BY <1>1, <1>2, <1>3 DEF CredInv
<1>5. AccountFirst'
  BY DEF AccountFirst
<1> QED
  BY <1>4, <1>5

LEMMA AccessStep == AccessInv /\ [Next]_vars => AccessInv'
<1> SUFFICES ASSUME AccessInv, [Next]_vars PROVE AccessInv'
  OBVIOUS
<1>1. LimiterInv'
  BY LimiterPart, LimiterStep DEF AccessInv
<1>2. now \in Nat /\ now' \in Nat
  BY SMTT(30), <1>1, LimitsAssumption DEF AccessInv, LimiterInv, LimiterTypeOK, Times
<1>3. /\ CredInv /\ AccountFirst /\ RequestInv
      /\ creds \in Seq(Credential) /\ Len(creds) \in Nat
  BY SMTT(30) DEF AccessInv, CredInv, CredType
<1>4. ASSUME UNCHANGED creds PROVE Lasting
  BY SMTT(30), <1>3, <1>4 DEF Lasting
<1>5. CASE CredentialsNext /\ UNCHANGED <<limiter, requests>>
  <2>1. CredInv' /\ AccountFirst'
    BY <1>2, <1>3, <1>5, CredInvKeeps
  <2>2. creds' \in Seq(Credential)
    BY <2>1 DEF CredInv, CredType
  <2>3. Lasting
    BY <1>3, <1>5, CredentialsLast
  <2>4. now' >= now /\ UNCHANGED <<requests, readings>>
    BY SMTT(30), <1>2, <1>5 DEF limiter
  <2>5. RequestInv'
    BY <1>2, <2>2, <2>3, <2>4, RequestsRest
  <2> QED
    BY <1>1, <2>1, <2>5 DEF AccessInv
<1>6. CASE \/ Tick /\ UNCHANGED <<credentialVars, requests>>
           \/ UNCHANGED vars
  <2>1. UNCHANGED <<account, creds, envelopes, calls, delivered, spent, recovered>>
    BY <1>6 DEF vars, credentialVars
  <2>2. now' >= now /\ UNCHANGED <<requests, readings>>
    BY SMTT(30), <1>2, <1>6 DEF Tick, vars, limiter
  <2>3. CredInv' /\ AccountFirst'
    BY <1>3, <2>1, CredentialsRest
  <2>4. RequestInv'
    BY <1>2, <1>3, <1>4, <2>1, <2>2, RequestsRest
  <2> QED
    BY <1>1, <2>3, <2>4 DEF AccessInv
<1>7. ASSUME NEW q \in Callers, RequestStep(q) PROVE AccessInv'
  <2>1. UNCHANGED <<account, creds, envelopes, calls, delivered, spent, recovered>>
    BY <1>7 DEF RequestStep, SendRequest, Acquire, EnterBucket, PassBucket,
                Authenticate, Handle, Done, credentialVars
  <2>2. CredInv' /\ AccountFirst'
    BY <1>3, <2>1, CredentialsRest
  <2>3. RequestInv'
    BY <1>7, SendKeeps, AcquireKeeps, EnterKeeps, PassKeeps, AuthenticateKeeps,
       HandleKeeps DEF RequestStep
  <2> QED
    BY <1>1, <2>2, <2>3 DEF AccessInv
<1> QED
  BY <1>5, <1>6, <1>7 DEF Next

-----------------------------------------------------------------------------
\* The composition keeps to the limiter: whatever route, dependency or credential a
\* request comes with, it counts itself the way consumeRateLimit is specified.
THEOREM AccessImplementsLimiter == Spec => LimiterSpec
<1>1. Init => LimiterInit
  BY DEF Init
<1>2. AccessInv /\ [Next]_vars => [LimiterNext]_limiter
  BY LimiterPart
<1> QED
  BY <1>1, <1>2, AccessInitially, AccessStep, PTL DEF Spec, LimiterSpec

\* Hence no window of any bucket admits more than its limit, for any number of
\* callers, buckets, windows and limits (consumeRateLimit and its cleanup).
THEOREM AccessWithinLimit == Spec => []WithinLimit
BY AccessImplementsLimiter, LimitsHold, PTL

\* A rotation replaces a credential once and for all, for any number of concurrent
\* calls, retries and faults (rotateCredential).
THEOREM RotationIsUnique == Spec => []OneSuccessor
<1>1. AccessInv => OneSuccessor
  BY CredInvImplies DEF AccessInv
<1> QED
  BY <1>1, AccessInitially, AccessStep, PTL DEF Spec

\* No key is lost before its envelope is used up (provisionAccount,
\* createCredential, rotateCredential).
THEOREM SecretsAreKept == Spec => []SecretsAccountedFor
<1>1. AccessInv => SecretsAccountedFor
  BY CredInvImplies DEF AccessInv
<1> QED
  BY <1>1, AccessInitially, AccessStep, PTL DEF Spec

\* No envelope is opened twice (consumeRecoveryEnvelope).
THEOREM RecoveryIsOnce == Spec => []RecoveredOnce
<1>1. AccessInv => RecoveredOnce
  BY CredInvImplies DEF AccessInv
<1> QED
  BY <1>1, AccessInitially, AccessStep, PTL DEF Spec

\* No barred request is served (authenticateAgent and the handlers), however long
\* it waits and whatever the administrator does meanwhile.
THEOREM BarredStaysOut == Spec => []BarredIsNotServed
<1>1. AccessInv => BarredIsNotServed
  BY DEF AccessInv, RequestInv, RequestOK, BarredIsNotServed
<1> QED
  BY <1>1, AccessInitially, AccessStep, PTL DEF Spec
=============================================================================
