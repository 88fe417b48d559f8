----------------------------- MODULE MCPlatform -----------------------------
(* The parts every request leans on, side by side: a behaviour exercises the *)
(* one that focus names, and the others stay in one of their initial states. *)
EXTENDS Naturals, TLC

CONSTANTS Parts, None,
          MaxCrashes,
          Threads, Events, NoEvent,
          Writers, Types, AuditTime,
          Clients, MaxHits, Window, CleanupAge, LimitTime, MaxTurns,
          Reviewers, Detections, Misses, Categories, MinSample, MaxLabels,
          Handlers, Statuses, Notes,
          Runs, Backups,
          MaxBytes, ReadSize, MaxReads

VARIABLES focus,
    dialect, schema, version, versioned, mig, crashes, torn,
    epc, on, current, fired, ready, ddl, built,
    events, apc, draft, mixed, behind,
    lserial, now, use, hits, lpc, own, cut, count, served, turn,
    labels, present, reading, view, gone,
    run, comments, item, project, wreq,
    rows, files, backup, restore,
    hreq, path, at, size, replayed, given, finals, passed, status, full

svars == <<dialect, schema, version, versioned, mig, crashes, torn>>
evars == <<epc, on, current, fired, ready, ddl, built>>
avars == <<events, apc, draft, mixed, behind>>
lvars == <<lserial, now, use, hits, lpc, own, cut, count, served, turn>>
fvars == <<labels, present, reading, view, gone>>
wvars == <<run, comments, item, project, wreq>>
bvars == <<rows, files, backup, restore>>
hvars == <<hreq, path, at, size, replayed, given, finals, passed, status, full>>
vars  == <<focus, svars, evars, avars, lvars, fvars, wvars, bvars, hvars>>

S == INSTANCE Schema
E == INSTANCE SchemaInit WITH pc <- epc
A == INSTANCE AuditChain WITH pc <- apc, MaxTime <- AuditTime
L == INSTANCE RateLimit WITH pc <- lpc, serial <- lserial, MaxTime <- LimitTime
F == INSTANCE Feedback
W == INSTANCE Workbench WITH req <- wreq
B == INSTANCE Backup
H == INSTANCE HttpShell WITH req <- hreq

\* SQL's NULL is none of the values a column may have; sizes and counts are natural numbers.
ASSUME PlatformAssumption ==
    /\ None \notin BOOLEAN \cup W!Item \cup W!Project \cup Statuses \cup Notes
    /\ MaxBytes \in Nat /\ ReadSize \in Nat

\* Random ids have an order; numbers stand for them.
ASSUME AuditAssumption == A!IsFiniteSet(Writers) /\ Writers \subseteq Nat

\* Some requests use the limiter, no limit or window is zero, and no window is longer than the hour
\* after which rows are cleaned up.
ASSUME LimitAssumption ==
    /\ L!IsFiniteSet(Clients) /\ Clients # {}
    /\ MaxHits \in Nat \ {0} /\ Window \in Nat \ {0} /\ CleanupAge \in Nat /\ Window <= CleanupAge

\* A run has finitely many requirements, and there are finitely many runs.
ASSUME FeedbackAssumption == F!IsFiniteSet(Detections)

ARequest == CHOOSE r \in H!Requests : TRUE

Init ==
    /\ focus \in Parts
    /\ S!Init /\ (focus # "schema" => dialect = "sqlite" /\ schema = {})
    /\ E!Init /\ (focus # "engine" => ~ddl)
    /\ A!Init
    /\ L!Init /\ (focus # "limits" => ~lserial /\ use = "consume")
    /\ F!Init
    /\ W!Init
    /\ B!Init
    /\ IF focus = "http" THEN TRUE ELSE hreq = ARequest /\ full = FALSE
    /\ H!Init

Next ==
    \/ focus = "schema" /\ S!Next /\ UNCHANGED <<focus, evars, avars, lvars, fvars, wvars, bvars, hvars>>
    \/ focus = "engine" /\ E!Next /\ UNCHANGED <<focus, svars, avars, lvars, fvars, wvars, bvars, hvars>>
    \/ focus = "audit" /\ A!Next /\ UNCHANGED <<focus, svars, evars, lvars, fvars, wvars, bvars, hvars>>
    \/ focus = "limits" /\ L!Next /\ UNCHANGED <<focus, svars, evars, avars, fvars, wvars, bvars, hvars>>
    \/ focus = "feedback" /\ F!Next /\ UNCHANGED <<focus, svars, evars, avars, lvars, wvars, bvars, hvars>>
    \/ focus = "workbench" /\ W!Next /\ UNCHANGED <<focus, svars, evars, avars, lvars, fvars, bvars, hvars>>
    \/ focus = "backup" /\ B!Next /\ UNCHANGED <<focus, svars, evars, avars, lvars, fvars, wvars, hvars>>
    \/ focus = "http" /\ H!Next /\ UNCHANGED <<focus, svars, evars, avars, lvars, fvars, wvars, bvars>>

Spec == Init /\ [][Next]_vars

\* Two detections of one category in a run, and one in another.
MCDetections ==
    {[run |-> 1, id |-> "d1", category |-> "fatal"], [run |-> 1, id |-> "d2", category |-> "fatal"],
     [run |-> 2, id |-> "d1", category |-> "fatal"]}

\* The cfg gives these sets the same two values, so that one exchange is a symmetry of
\* every component: the one in focus, and the others in their symmetric initial states.
Symmetry == UNION {Permutations(X) : X \in {Clients, Reviewers, Handlers, Backups}}

\* The properties of the components; each is described where it is defined.
UpgradeEnds        == S!UpgradeEnds
SchemaInv          == E!SchemaInv
ChainTells         == A!ChainTells
LimitHeld          == L!LimitHeld
SoleReviewerCovers == F!SoleReviewerCovers
WorkKept           == W!WorkKept
RestoredWhole      == B!RestoredWhole
RequestHeld        == H!RequestHeld

=============================================================================
