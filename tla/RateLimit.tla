----------------------------- MODULE RateLimit -----------------------------
(* One bucket of the rate limiter, src/app/ratelimit.py, as its callers use  *)
(* it: enforce(consume=True) for writes, exports and logins, the last with a *)
(* clear on success; enforce, then register_failure, clear or neither, around*)
(* a code or token check; and the hourly cleanup_expired of src/app/db.py.   *)
(* The two uses have buckets of their own.  Every hit is stamped before its  *)
(* transaction begins, so any time may pass between the two.  On SQLite      *)
(* (serial) the recording transactions exclude one another; on PostgreSQL a  *)
(* transaction counts and prunes what is committed.  The clocks of the       *)
(* processes that serve requests are taken to agree.                         *)
EXTENDS Naturals, FiniteSets

CONSTANTS
    Clients,      \* concurrent requests
    MaxHits,      \* Limit.max_hits
    Window,       \* Limit.window_seconds
    CleanupAge,   \* cleanup_expired's hour
    MaxTime,      \* bound of the clock
    MaxTurns      \* bound of the requests each client makes

VARIABLES
    serial,       \* the database is SQLite
    now,
    use,          \* "consume" or "guess": which of the two uses the behaviour shows
    hits,         \* committed rows: [by, n, at], and on: history, when the row was counted
    pc, own,      \* each client's step, and the row it has stamped or inserted
    cut,          \* the rows its open transaction deleted
    count,        \* the count its transaction returned
    served,       \* history: the requests let through since the last clear
    turn          \* requests made by each client

vars == <<serial, now, use, hits, pc, own, cut, count, served, turn>>

Cutoff(t) == IF t > Window THEN t - Window ELSE 0
Inside(rows, t) == {h \in rows : h.at > Cutoff(t)}

\* Timestamps start after Window, so that a cutoff never falls below the first one.
Init ==
    /\ serial \in BOOLEAN
    /\ now = Window + 1
    /\ use \in {"consume", "guess"}
    /\ hits = {}
    /\ pc = [c \in Clients |-> "idle"]
    /\ own = [c \in Clients |-> {}]
    /\ cut = [c \in Clients |-> {}]
    /\ count = [c \in Clients |-> 0]
    /\ served = {}
    /\ turn = [c \in Clients |-> 0]

Tick ==
    /\ now < MaxTime
    /\ now' = now + 1
    /\ UNCHANGED <<serial, use, hits, pc, own, cut, count, served, turn>>

Hit(c) == [by |-> c, n |-> turn[c], at |-> now, on |-> now]

\* SQLite runs one writing transaction at a time.
Free == serial => \A d \in Clients : pc[d] # "recorded"

\* at = moment or _now(), before any transaction; step says what the stamp is for.
Stamp(c, step) ==
    /\ own' = [own EXCEPT ![c] = {Hit(c)}]
    /\ pc' = [pc EXCEPT ![c] = step]
    /\ UNCHANGED <<serial, now, use, hits, cut, count, served, turn>>

\* A write, an export or a login: the hit is recorded before the answer is known.
Consume(c) ==
    /\ use = "consume"
    /\ pc[c] \in {"idle", "let"} /\ turn[c] < MaxTurns
    /\ Stamp(c, "stamped")

\* The transaction of record: insert, prune, count.
Record(c) ==
    /\ pc[c] = "stamped" /\ Free
    /\ \E h \in own[c] :
          /\ own' = [own EXCEPT ![c] = {[h EXCEPT !.on = now]}]
          /\ cut' = [cut EXCEPT ![c] = hits \ Inside(hits, h.at)]
          /\ count' = [count EXCEPT ![c] = Cardinality(Inside(hits \cup {h}, h.at))]
    /\ pc' = [pc EXCEPT ![c] = "recorded"]
    /\ UNCHANGED <<serial, now, use, hits, served, turn>>

\* COMMIT, then hits >= max_hits is refused with 429. The refused hit stays recorded.
Commit(c) ==
    /\ pc[c] = "recorded"
    /\ hits' = (hits \ cut[c]) \cup own[c]
    /\ LET passes == use = "consume" /\ count[c] < MaxHits IN
          /\ served' = IF passes THEN served \cup own[c] ELSE served
          /\ pc' = [pc EXCEPT ![c] = IF passes THEN "let" ELSE "idle"]
    /\ own' = [own EXCEPT ![c] = {}]
    /\ cut' = [cut EXCEPT ![c] = {}]
    /\ turn' = [turn EXCEPT ![c] = @ + 1]
    /\ UNCHANGED <<serial, now, use, count>>

\* enforce without consume: the moment is taken, then the rows are counted; nothing is
\* recorded yet.
Look(c) ==
    /\ use = "guess"
    /\ pc[c] = "idle" /\ turn[c] < MaxTurns
    /\ Stamp(c, "looking")

Check(c) ==
    /\ pc[c] = "looking"
    /\ \E h \in own[c] :
          /\ Cardinality(Inside(hits, h.at)) < MaxHits
          /\ served' = served \cup {[h EXCEPT !.on = now]}
    /\ pc' = [pc EXCEPT ![c] = "trying"]
    /\ own' = [own EXCEPT ![c] = {}]
    /\ UNCHANGED <<serial, now, use, hits, cut, count, turn>>

\* The request ends without recording anything.
Refuse(c) ==
    /\ pc[c] = "looking"
    /\ \E h \in own[c] : Cardinality(Inside(hits, h.at)) >= MaxHits
    /\ pc' = [pc EXCEPT ![c] = "idle"]
    /\ own' = [own EXCEPT ![c] = {}]
    /\ turn' = [turn EXCEPT ![c] = @ + 1]
    /\ UNCHANGED <<serial, now, use, hits, cut, count, served>>

\* The code was wrong: register_failure stamps and records.
WrongCode(c) ==
    /\ pc[c] = "trying"
    /\ Stamp(c, "stamped")

\* An expired sign-in flow: verify_mfa_login calls register_failure without enforce.
UncheckedFailure(c) ==
    /\ use = "guess"
    /\ pc[c] = "idle" /\ turn[c] < MaxTurns
    /\ Stamp(c, "stamped")

\* A valid API token, or a code another request has used: neither recorded nor cleared.
Unrecorded(c) ==
    /\ pc[c] = "trying"
    /\ served' = {s \in served : ~(s.by = c /\ s.n = turn[c])}
    /\ pc' = [pc EXCEPT ![c] = "idle"]
    /\ turn' = [turn EXCEPT ![c] = @ + 1]
    /\ UNCHANGED <<serial, now, use, hits, own, cut, count>>

\* clear: a successful login or code empties the bucket.
Clear(c) ==
    /\ pc[c] \in {"let", "trying"} /\ Free
    /\ hits' = {}
    /\ served' = {}
    /\ pc' = [pc EXCEPT ![c] = "idle"]
    /\ turn' = IF pc[c] = "trying" THEN [turn EXCEPT ![c] = @ + 1] ELSE turn
    /\ UNCHANGED <<serial, now, use, own, cut, count>>

CleanupMutant ==
    /\ Free
    /\ hits' = {}
    /\ UNCHANGED <<serial, now, use, pc, own, cut, count, served, turn>>
CleanupExpired ==
    /\ Free
    /\ hits' = {h \in hits : h.at + CleanupAge >= now}
    /\ UNCHANGED <<serial, now, use, pc, own, cut, count, served, turn>>

Next ==
    \/ Tick \/ CleanupExpired
    \/ \E c \in Clients :
          \/ Consume(c) \/ Record(c) \/ Commit(c) \/ Clear(c)
          \/ Look(c) \/ Check(c) \/ Refuse(c)
          \/ WrongCode(c) \/ UncheckedFailure(c) \/ Unrecorded(c)

Spec == Init /\ [][Next]_vars

-----------------------------------------------------------------------------

Row == [by : Clients, n : Nat, at : Nat, on : Nat]

TypeOK ==
    /\ serial \in BOOLEAN /\ use \in {"consume", "guess"}
    /\ now \in Nat /\ now > Window
    /\ pc \in [Clients -> {"idle", "stamped", "recorded", "let", "looking", "trying"}]
    /\ count \in [Clients -> Nat] /\ turn \in [Clients -> Nat]
    /\ hits \subseteq Row /\ IsFiniteSet(hits)
    /\ served \subseteq Row /\ IsFiniteSet(served)
    /\ own \in [Clients -> SUBSET Row]
    /\ cut \in [Clients -> SUBSET Row]

\* Stamped in the window that begins after t, and counted in it; or stamped in it, and
\* counted only when it was over.
Prompt(rows, t) == {s \in rows : s.at > t /\ s.on <= t + Window}
Late(rows, t)   == {s \in rows : s.at > t /\ s.at <= t + Window /\ s.on > t + Window}

Allowance ==
    IF use = "guess" THEN MaxHits + Cardinality(Clients) - 1
    ELSE (MaxHits - 1) + (IF serial THEN 0 ELSE Cardinality(Clients) - 1)

\* Of the requests stamped and counted within one window no more pass than the limit less one
\* (the hit that reaches it is refused) plus, where transactions may overlap, one for each other
\* request in flight. Of codes, no more are checked in vain than the limit, plus one for each
\* other request that was counted before any of them was recorded.
WindowHeld == \A t \in 1..now : Cardinality(Prompt(served, t)) <= Allowance

\* A request that waits between its stamp and its transaction may be counted after a later one
\* has pruned what it should have counted, and then passes beyond the limit: on either database,
\* but never twice for one client in one window.
LateOnce ==
    \A t \in 1..now : \A r, s \in Late(served, t) : r.by = s.by => r = s

\* Both uses of the limiter stay within the limit and the overshoot their steps allow.
LimitHeld == WindowHeld /\ LateOnce

-----------------------------------------------------------------------------
(* What makes it inductive.                                                 *)

\* The requests let through, and the ones whose count, still uncommitted, will let them.
Passing == {c \in Clients : use = "consume" /\ pc[c] = "recorded" /\ count[c] < MaxHits}

Admitted == served \cup UNION {own[c] : c \in Passing}

\* What a client has stamped or inserted is the row of its present request, and an open
\* transaction deletes only rows its own stamp has put out of the window.
TransactionsFit == \A c \in Clients :
    /\ IF pc[c] \in {"stamped", "recorded", "looking"}
       THEN \E h \in own[c] : /\ own[c] = {h} /\ h.by = c /\ h.n = turn[c]
                           /\ Window < h.at /\ h.at <= h.on /\ h.on <= now
                           /\ \A g \in cut[c] : g.at <= Cutoff(h.at)
       ELSE own[c] = {}
    /\ pc[c] # "recorded" => cut[c] = {}
    /\ use = "consume" => pc[c] \notin {"looking", "trying"}

\* Committed rows are of earlier requests.
RowsFit == \A h \in hits : h.n < turn[h.by] /\ h.at <= now

\* Admitted, and its own row not committed yet.
Waiting(c) == pc[c] \in IF use = "consume" THEN {"recorded"} ELSE {"trying", "stamped", "recorded"}
Pending(s) == s.n = turn[s.by] /\ Waiting(s.by)

Covers(h, s) == h.by = s.by /\ h.n = s.n /\ h.at >= s.at

\* What was admitted in the last window is pending or has its row, however the others pruned.
AdmittedFit == \A s \in Admitted :
    /\ s.at <= s.on /\ s.on <= now
    /\ Pending(s) \/ s.n < turn[s.by]
    /\ \A h \in own[s.by] : IF s.n < turn[s.by] THEN s.on <= h.at ELSE s.at <= h.at
    /\ s.at > Cutoff(now) => Pending(s) \/ \E h \in hits : Covers(h, s)

\* A client has one admitted request at a time, and stamps the next after the last was counted.
OneByOne == \A r, s \in Admitted :
    /\ r.by = s.by /\ r.n = s.n => r = s
    /\ r.by = s.by /\ r.n < s.n => r.on <= s.at

RoomHeld == \A t \in 1..now : Cardinality(Prompt(Admitted, t)) <= Allowance

LimitInv == TypeOK /\ TransactionsFit /\ RowsFit /\ AdmittedFit /\ OneByOne /\ RoomHeld

=============================================================================
