----------------------------- MODULE AuditChain -----------------------------
(* The hash chain over the audit events of a workspace: src/app/db.py        *)
(* record_audit_event and verify_audit_chain.  SHA-256 is injective: a hash  *)
(* is the tuple it was computed from.  An append takes its id and its        *)
(* timestamp, then, in one transaction, reads the last event and inserts its *)
(* own; two such transactions may overlap on either database (on SQLite the  *)
(* transaction begins with the insert).  The timestamp is the wall clock of  *)
(* the process that appends: it may be set back, and the web process and the *)
(* worker have one each, so an event may bear any time.                      *)
EXTENDS Naturals, FiniteSets

CONSTANTS
    Writers,    \* requests that append; the identity doubles as event_id
    Types,      \* values of event_type
    MaxTime,    \* bound of the times the clocks show
    None

Outcomes == {"SUCCESS", "DENIED"}

VARIABLES
    events,     \* rows of audit_events
    pc,         \* "idle", "stamped", "read", "done"
    draft,      \* the row a writer is about to insert
    mixed,      \* history: an append has begun before another one ended
    behind      \* history: an event was inserted that does not sort after the ones there were

vars == <<events, pc, draft, mixed, behind>>

\* event_ids are random: their order has nothing to do with time.
Before(a, b) == a.at < b.at \/ (a.at = b.at /\ a.id < b.id)

LastOf(rows) == CHOOSE e \in rows : \A f \in rows \ {e} : Before(f, e)

\* NULL and the empty string alike are no hash.
NoHash == << >>

\* ORDER BY created_at DESC, event_id DESC LIMIT 1
Previous(rows) == IF rows = {} THEN NoHash ELSE LastOf(rows).hash

\* The payload, the user and the run are not part of the material.
MaterialMutant(prev, e) == <<prev, e.id, e.type, e.at>>
Material(prev, e) == <<prev, e.id, e.type, e.at, e.outcome>>

Init ==
    /\ events = {}
    /\ pc = [w \in Writers |-> "idle"]
    /\ draft = [w \in Writers |-> None]
    /\ mixed = FALSE
    /\ behind = FALSE

\* event_id = _new_id(), created_at = _now()
Stamp(w) ==
    /\ pc[w] = "idle"
    /\ pc' = [pc EXCEPT ![w] = "stamped"]
    /\ \E type \in Types, outcome \in Outcomes, at \in 1..MaxTime :
          draft' = [draft EXCEPT ![w] = [id |-> w, type |-> type, at |-> at,
                                         outcome |-> outcome, prev |-> NoHash, hash |-> NoHash]]
    /\ mixed' = (mixed \/ \E v \in Writers : pc[v] \in {"stamped", "read"})
    /\ UNCHANGED <<events, behind>>

ReadLast(w) ==
    /\ pc[w] = "stamped"
    /\ pc' = [pc EXCEPT ![w] = "read"]
    /\ draft' = [draft EXCEPT ![w].prev = Previous(events),
                              ![w].hash = Material(Previous(events), draft[w])]
    /\ UNCHANGED <<events, mixed, behind>>

Insert(w) ==
    /\ pc[w] = "read"
    /\ pc' = [pc EXCEPT ![w] = "done"]
    /\ events' = events \cup {draft[w]}
    /\ behind' = (behind \/ \E e \in events : ~Before(e, draft[w]))
    /\ UNCHANGED <<draft, mixed>>

\* The walk of verify_audit_chain in the same order, where a row follows the hash of the
\* one before it.
Verify(rows) ==
    \A e \in rows :
        LET previous == Previous({f \in rows : Before(f, e)})
        IN  e.hash = Material(previous, e) /\ e.prev = previous

Next == \E w \in Writers : Stamp(w) \/ ReadLast(w) \/ Insert(w)

Spec == Init /\ [][Next]_vars

-----------------------------------------------------------------------------

IsEvent(e) ==
    /\ e = [id |-> e.id, type |-> e.type, at |-> e.at, outcome |-> e.outcome,
            prev |-> e.prev, hash |-> e.hash]
    /\ e.id \in Writers /\ e.at \in Nat

TypeOK ==
    /\ mixed \in BOOLEAN /\ behind \in BOOLEAN
    /\ pc \in [Writers -> {"idle", "stamped", "read", "done"}]
    /\ DOMAIN draft = Writers
    /\ \A w \in Writers : pc[w] # "idle" => IsEvent(draft[w]) /\ draft[w].id = w

\* While no append begins before the previous one has ended, the chain verifies exactly as long
\* as every event sorts after the ones before it. One event that does not, because a clock was set
\* back or another process's clock is slow, or because its random id is the smaller of two of one
\* instant, breaks the chain for good: the walk sorts by created_at and event_id, while an append
\* links to the event that sorted last when it read.
SerialVerifies == ~mixed => (Verify(events) <=> ~behind)

\* On a chain that verifies, changing the type or the outcome of an event, or removing any
\* event but the last, is found by the next verification. (A change of the payload, the user or
\* the run is not: they are not hashed.)
ChangeFound ==
    Verify(events) =>
        /\ \A e \in events, type \in Types, outcome \in Outcomes :
              <<type, outcome>> # <<e.type, e.outcome>> =>
                  ~Verify((events \ {e}) \cup {[e EXCEPT !.type = type, !.outcome = outcome]})
        /\ \A e \in events :
              e # LastOf(events) => ~Verify(events \ {e})

\* verify_audit_chain tells a chain whose events were retyped or removed from one that was
\* appended to in turn and in the order of its timestamps.
ChainTells == SerialVerifies /\ ChangeFound

-----------------------------------------------------------------------------
(* What makes it inductive.                                                 *)

\* The rows are those of the writers that have ended.
RowsFit == events = {draft[w] : w \in {v \in Writers : pc[v] = "done"}}

Open(w) == pc[w] \in {"stamped", "read"}

\* What is in the table, and what is about to be, has the hash of what it says.
Hashed == \A w \in Writers :
    pc[w] \in {"read", "done"} => draft[w].hash = Material(draft[w].prev, draft[w])

\* Appends in turn: one is open at a time, and what it has read is still the last. A chain that
\* is broken has an event that links to one sorted after it.
InTurn == ~mixed =>
    /\ \A v, w \in Writers : Open(v) /\ Open(w) => v = w
    /\ \A w \in Writers : pc[w] = "read" => draft[w].prev = Previous(events)
    /\ IF behind THEN \E d, e \in events : Before(d, e) /\ d.prev = e.hash
                 ELSE Verify(events)

ChainInv == TypeOK /\ RowsFit /\ Hashed /\ InTurn

=============================================================================
