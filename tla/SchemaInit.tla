----------------------------- MODULE SchemaInit -----------------------------
(* First use of a database by concurrent threads of one process:             *)
(* src/app/db.py engine and init_db.  _schema_ready is a set of URLs and     *)
(* _schema_events a dictionary of threading.Event; one URL is modelled.      *)

CONSTANTS
    Threads,
    Events,      \* Event objects a behaviour may create
    NoEvent

VARIABLES
    pc,          \* where each thread is
    on,          \* the Event a thread owns or waits for
    current,     \* the entry of _schema_events
    fired,       \* Events that have been set
    ready,       \* the URL is in _schema_ready
    ddl,         \* runtime_ddl_allowed()
    built        \* the schema exists in the database

vars == <<pc, on, current, fired, ready, ddl, built>>

\* Where DDL at run time is not allowed the entrypoint has migrated the database.
Init ==
    /\ pc = [t \in Threads |-> "idle"]
    /\ on = [t \in Threads |-> NoEvent]
    /\ current = NoEvent
    /\ fired = {}
    /\ ready = FALSE
    /\ ddl \in BOOLEAN
    /\ built \in IF ddl THEN BOOLEAN ELSE {TRUE}

Used == fired \cup {on[t] : t \in Threads} \cup {current}

Go(t, where) == pc' = [pc EXCEPT ![t] = where]

\* The section under _schema_lock: return, become the owner, or wait.
Call(t) ==
    /\ pc[t] \in {"idle", "known", "woken", "timed_out", "raised"}
    /\ IF ready THEN Go(t, "known") /\ UNCHANGED <<on, current>>
       ELSE IF current # NoEvent
            THEN /\ Go(t, "waiting")
                 /\ on' = [on EXCEPT ![t] = current]
                 /\ UNCHANGED current
            ELSE \E e \in Events \ Used :
                    /\ Go(t, "owner")
                    /\ current' = e
                    /\ on' = [on EXCEPT ![t] = e]
    /\ UNCHANGED <<fired, ready, ddl, built>>

\* create_schema ends; _schema_ready.add and waiter.set follow, each on its own.
Create(t) ==
    /\ pc[t] = "owner"
    /\ built' = (built \/ ddl)
    /\ Go(t, "created")
    /\ UNCHANGED <<on, current, fired, ready, ddl>>

Announce(t) ==
    /\ pc[t] = "created"
    /\ ready' = TRUE
    /\ Go(t, "announced")
    /\ UNCHANGED <<on, current, fired, ddl, built>>

Wake(t) ==
    /\ pc[t] = "announced"
    /\ fired' = fired \cup {on[t]}
    /\ Go(t, "known")
    /\ UNCHANGED <<on, current, ready, ddl, built>>

\* create_schema raises: the entry is removed, the Event is not set.
FailMutant(t) ==
    /\ pc[t] = "owner" /\ ddl
    /\ current' = NoEvent
    /\ fired' = fired \cup {on[t]}
    /\ Go(t, "raised")
    /\ UNCHANGED <<on, ready, ddl, built>>
Fail(t) ==
    /\ pc[t] = "owner" /\ ddl
    /\ current' = NoEvent
    /\ Go(t, "raised")
    /\ UNCHANGED <<on, fired, ready, ddl, built>>

\* waiter.wait(timeout=60): set, or the time is up; the engine is returned either way.
Woken(t) ==
    /\ pc[t] = "waiting" /\ on[t] \in fired
    /\ Go(t, "woken")
    /\ UNCHANGED <<on, current, fired, ready, ddl, built>>

TimesOut(t) ==
    /\ pc[t] = "waiting"
    /\ Go(t, "timed_out")
    /\ UNCHANGED <<on, current, fired, ready, ddl, built>>

\* init_db takes neither the lock nor the Event.
InitDb ==
    /\ built' = TRUE
    /\ ready' = TRUE
    /\ UNCHANGED <<pc, on, current, fired, ddl>>

Next ==
    \/ \E t \in Threads : \/ Call(t) \/ Create(t) \/ Announce(t) \/ Wake(t)
                          \/ Fail(t) \/ Woken(t) \/ TimesOut(t)
    \/ InitDb

Spec == Init /\ [][Next]_vars

-----------------------------------------------------------------------------

TypeOK ==
    /\ pc \in [Threads -> {"idle", "owner", "created", "announced", "waiting", "known",
                           "woken", "timed_out", "raised"}]
    /\ on \in [Threads -> Events \cup {NoEvent}]
    /\ current \in Events \cup {NoEvent}
    /\ fired \subseteq Events
    /\ ready \in BOOLEAN /\ ddl \in BOOLEAN /\ built \in BOOLEAN

Creating == {"owner", "created", "announced"}

\* Two threads never run create_schema at the same time, whatever failures and retries
\* came before (the entry of _schema_events is the mutual exclusion).
OneCreator ==
    \A t, u \in Threads : pc[t] \in Creating /\ pc[u] \in Creating => t = u

\* A thread that got the engine by the fast path or because the Event was set has a
\* schema to work on: an Event is never set for an attempt that failed.
WokenHasSchema == \A t \in Threads : pc[t] \in {"known", "woken"} => built

\* The thread that creates the schema owns the entry of _schema_events, so that no
\* second one is let in while it works.
OwnerHoldsEntry ==
    \A t \in Threads : pc[t] \in Creating => current = on[t] /\ current # NoEvent

\* Whatever lets a caller go on without waiting was written after the schema was.
SignalsFollowSchema ==
    \/ built
    \/ /\ ddl /\ ~ready /\ fired = {}
       /\ \A t \in Threads : pc[t] \notin {"created", "announced", "known", "woken"}

\* OneCreator and WokenHasSchema with what makes them inductive: the entry is held by
\* the creator (engine takes and removes it under _schema_lock) and every signal of a
\* finished set-up comes after the schema.
SchemaInv == TypeOK /\ OneCreator /\ OwnerHoldsEntry /\ SignalsFollowSchema

=============================================================================
