------------------------------ MODULE Feedback ------------------------------
(* Accuracy labels and the metrics computed from them: add_accuracy_feedback *)
(* of src/app/services/run_service.py and src/app/db.py, accuracy_metrics,   *)
(* and the overall figure of src/app/services/workspace_service.py.          *)
EXTENDS Naturals, FiniteSets

CONSTANTS
    Reviewers,
    Detections,     \* requirements detected in the runs: [run, id, category]
    Misses,         \* places a reviewer may report as missed
    Categories,
    MinSample,      \* ACCURACY_MIN_SAMPLE_SIZE
    MaxLabels       \* bound of the model: labels counted at one time

VARIABLES
    labels,     \* rows of accuracy_feedback in the scopes counted
    present,    \* the runs that exist
    reading,    \* a report has read the labels and not yet answered
    view,       \* the labels it has read
    gone        \* history: runs deleted since it read them

vars == <<labels, present, reading, view, gone>>

RunIds == {d.run : d \in Detections}

\* The unique index: one label per run, reviewer and finding. A detection is known by its
\* requirement, a miss by its place and the category the caller gives it.
Category(l) == IF l.predicted = "MISSED" THEN l.category ELSE ""
KeyMutant(l) == <<l.run, l.reviewer, l.predicted, l.finding, Category(l), l.actual>>
Key(l) == <<l.run, l.reviewer, l.predicted, l.finding, Category(l)>>

Of(l, d) == l.predicted = "DETECTED" /\ l.run = d.run /\ l.finding = d.id

Init ==
    /\ labels = {} /\ present = RunIds
    /\ reading = FALSE /\ view = {} /\ gone = {}

\* A missed item is by definition relevant; a detection names a requirement of its run.
Accepted(l) ==
    IF l.predicted = "DETECTED" THEN \E d \in Detections : Of(l, d)
    ELSE l.finding \in Misses /\ l.actual = "RELEVANT"

Payloads ==
    [run : RunIds, reviewer : Reviewers, predicted : {"DETECTED", "MISSED"},
     finding : {d.id : d \in Detections} \cup Misses, category : Categories,
     actual : {"RELEVANT", "NOT_RELEVANT"}, complete : BOOLEAN]

\* INSERT ... ON CONFLICT DO UPDATE, which the foreign key refuses for a run that is gone.
\* A label resubmitted with a scope that is not counted leaves the figures. What is written
\* after a report has read the labels is nothing to that report, so none is written then.
AddAccuracyFeedback(l) ==
    /\ ~reading
    /\ l.run \in present /\ Accepted(l)
    /\ \E counted \in BOOLEAN :
          labels' = {m \in labels : Key(m) # Key(l)} \cup IF counted THEN {l} ELSE {}
    /\ Cardinality(labels') <= MaxLabels
    /\ UNCHANGED <<present, reading, view, gone>>

\* delete_run takes the labels of the run with it, in one transaction.
DeleteRun(r) ==
    /\ r \in present
    /\ present' = present \ {r}
    /\ labels' = {l \in labels : l.run # r}
    /\ gone' = IF reading THEN gone \cup {r} ELSE gone
    /\ UNCHANGED <<reading, view>>

\* accuracy_metrics reads the labels in one SELECT; the runs they mention, in a second one,
\* are those of any moment from here to the answer.
ReadLabels ==
    /\ ~reading
    /\ reading' = TRUE /\ view' = labels
    /\ UNCHANGED <<labels, present, gone>>

Answer ==
    /\ reading
    /\ reading' = FALSE /\ view' = {} /\ gone' = {}
    /\ UNCHANGED <<labels, present>>

Next ==
    \/ \E l \in Payloads : AddAccuracyFeedback(l)
    \/ \E r \in RunIds : DeleteRun(r)
    \/ ReadLabels
    \/ Answer

Spec == Init /\ [][Next]_vars

-----------------------------------------------------------------------------
(* The figures of a set of categories: accuracy_metrics computes them for one  *)
(* category at a time, workspace_service.accuracy adds up those of all.  Every *)
(* label and every detection has one category, so the sums are counts.         *)

Tally(cats, predicted, actual) ==
    Cardinality({l \in view : l.category \in cats /\ l.predicted = predicted /\ l.actual = actual})

Tp(cats) == Tally(cats, "DETECTED", "RELEVANT")
Fp(cats) == Tally(cats, "DETECTED", "NOT_RELEVANT")
Fn(cats) == Tally(cats, "MISSED", "RELEVANT")
Tn(cats) == Tally(cats, "MISSED", "NOT_RELEVANT")

\* The second SELECT finds the runs that some label mentions and that still exist: a run
\* without a label is looked at by no report.
Mentioned == {l.run : l \in view}
Found == {d \in Detections : d.run \in Mentioned \cap present}

SampleSize(cats)      == Tp(cats) + Fp(cats) + Fn(cats) + Tn(cats)
LabeledDetected(cats) == Tp(cats) + Fp(cats)
DetectedTotal(cats)   == Cardinality({d \in Found : d.category \in cats})

Reported == {d.category : d \in Found} \cup {l.category : l \in view}

PopulationComplete(cat) ==
    /\ \E l \in view : l.category = cat
    /\ \A l \in view : l.category = cat => l.complete

Measurable(cats) ==
    /\ DetectedTotal(cats) > 0
    /\ LabeledDetected(cats) = DetectedTotal(cats)      \* coverage == 1
    /\ SampleSize(cats) >= MinSample
    /\ \A cat \in cats : PopulationComplete(cat)

OverallMeasurable == Reported # {} /\ Measurable(Reported)

-----------------------------------------------------------------------------

TypeOK ==
    /\ labels \subseteq Payloads /\ IsFiniteSet(labels)
    /\ view \subseteq Payloads /\ IsFiniteSet(view)
    /\ present \subseteq RunIds /\ gone \subseteq RunIds
    /\ reading \in BOOLEAN

Labelled(d) == \E l \in view : Of(l, d)

Disciplined ==
    /\ \A l, m \in view : l.predicted = "DETECTED" /\ m.predicted = "DETECTED"
                            /\ l.run = m.run /\ l.finding = m.finding => l.reviewer = m.reviewer
    /\ \A l \in view, d \in Detections : Of(l, d) => l.category = d.category

\* As long as every detection is labelled by one reviewer only and under its own category,
\* and no run with labels is deleted between the two SELECTs, a category or a workspace
\* reported MEASURABLE has a label for every detection of the runs that have labels at all,
\* however often labels were resubmitted and runs deleted before. A run nobody has labelled
\* is not part of the figure: a workspace is MEASURABLE although every detection of such a run is
\* unlabelled, against the text workspace_service.py gives the reader beside the figures.
SoleReviewerCovers ==
    Disciplined /\ gone \cap Mentioned = {} =>
        \A d \in Detections : d.run \in Mentioned =>
            /\ Measurable({d.category}) => Labelled(d)
            /\ OverallMeasurable => Labelled(d)

OneEach(rows) == \A l, m \in rows : Key(l) = Key(m) => l = m

\* The inductive invariant: one row per key, rows of accepted payloads and of existing runs
\* only, and a report's view made of such rows, its runs deleted since being known.
FeedbackInv ==
    /\ TypeOK
    /\ OneEach(labels) /\ \A l \in labels : Accepted(l) /\ l.run \in present
    /\ OneEach(view) /\ \A l \in view : Accepted(l) /\ l.run \in present \cup gone
    /\ ~reading => view = {}

=============================================================================
