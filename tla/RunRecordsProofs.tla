-------------------------- MODULE RunRecordsProofs --------------------------
(***************************************************************************)
(* RecordsInv is an inductive invariant of RunRecords for all sets of runs *)
(* and requests; what the compare-and-swap of reviews and decisions        *)
(* guarantees follows from it.                                             *)
(***************************************************************************)
EXTENDS RunRecords, TLAPS

USE RecordsAssumption
USE DEF CasOps, OverOps, DeleteOps, Steps, Record, NoRun, NewRun, Live, Goto,
        reqVars, histVars

-----------------------------------------------------------------------------
(* What the handlers make of the copy they loaded.                          *)

\* The copy with a review or a decision in it is a record one revision on.
LEMMA AmendedRecord ==
  ASSUME TypeOK, NEW q \in Requests, op[q] \in CasOps
  PROVE  /\ Amended(q) \in Record
         /\ Expected(q) \in Nat
         /\ Amended(q).rev = Expected(q) + 1
         /\ op[q] = "review" => /\ Amended(q).reviews = snap[q].reviews \cup {q}
                                /\ Amended(q).decision = snap[q].decision
         /\ op[q] = "decide" => /\ Amended(q).reviews = snap[q].reviews
                                /\ Amended(q).decision = q
<1>1. snap[q] \in Record /\ view[q] \in Record
  BY DEF TypeOK
<1>2. Expected(q) \in Nat
  BY <1>1 DEF Expected
<1>3. CASE op[q] = "review"
  <2>1. Amended(q) = [snap[q] EXCEPT !.rev = Expected(q) + 1, !.reviews = @ \cup {q}]
    BY <1>3 DEF Amended
  <2>2. /\ Amended(q).rev = Expected(q) + 1
        /\ Amended(q).reviews = snap[q].reviews \cup {q}
        /\ Amended(q).decision = snap[q].decision
    BY <2>1, <1>1
  <2>3. snap[q].reviews \cup {q} \in SUBSET Requests /\ Expected(q) + 1 \in Nat
    BY <1>1, <1>2
  <2>4. Amended(q) \in Record
    BY <2>1, <2>3, <1>1
  <2>5. QED
    BY <2>2, <2>4, <1>2, <1>3
<1>4. CASE op[q] = "decide"
  <2>1. Amended(q) = [snap[q] EXCEPT !.rev = Expected(q) + 1, !.decision = q]
    BY <1>4 DEF Amended
  <2>2. /\ Amended(q).rev = Expected(q) + 1
        /\ Amended(q).reviews = snap[q].reviews
        /\ Amended(q).decision = q
    BY <2>1, <1>1
  <2>3. q \in Requests \cup {None} /\ Expected(q) + 1 \in Nat
    BY <1>2
  <2>4. Amended(q) \in Record
    BY <2>1, <2>3, <1>1
  <2>5. QED
    BY <2>2, <2>4, <1>2, <1>4
<1>5. QED
  BY <1>3, <1>4

\* An unconditional save changes nothing that reviewers rely on in the copy.
LEMMA EditedRecord ==
  ASSUME TypeOK, NEW q \in Requests, op[q] \in OverOps
  PROVE  Edited(q) \in Record /\ Core(Edited(q)) = Core(snap[q])
<1>1. snap[q] \in Record
  BY DEF TypeOK
<1>2. QED
  BY <1>1 DEF Edited, Core

\* A compare-and-swap that succeeds was computed from the current row, unless
\* an unconditional save intervened.
LEMMA CopyIsCurrent ==
  ASSUME RecordsInv, NEW q \in Requests, step[q] = "loaded", op[q] \in CasOps,
         Live(run[q]), row[run[q]].rev = Expected(q), run[q] \notin stale
  PROVE  /\ Core(snap[q]) = Core(row[run[q]])
         /\ view[q].rev # 0 => Core(view[q]) = Core(row[run[q]])
<1>1. /\ run[q] \in Runs
      /\ snap[q].rev \in Nat \ {0} /\ view[q].rev \in Nat
      /\ row[run[q]].rev \in Nat
  BY DEF RecordsInv, TypeOK, ViewBeforeCopy
<1>2. NotNewer(view[q], run[q]) /\ NotNewer(snap[q], run[q])
  BY <1>1 DEF RecordsInv, CopiesNotNewer
<1>3. view[q].rev <= snap[q].rev
  BY DEF RecordsInv, ViewBeforeCopy
<1>4. QED
  BY <1>1, <1>2, <1>3 DEF NotNewer, Expected

-----------------------------------------------------------------------------
(* One lemma per action.                                                    *)

\* A scan publishes a run.
LEMMA PublishStep ==
  ASSUME RecordsInv, NEW r \in Runs,
         Publish(r)
  PROVE  RecordsInv'
<1> USE DEF RecordsInv
<1>1. TypeOK'
  BY DEF Publish, TypeOK, Insert
<1>2. OnlyBorn'
  BY <1>1 DEF Publish, TypeOK, OnlyBorn, Insert
<1>3. RequestProgress'
  BY <1>1 DEF Publish, TypeOK, RequestProgress, OnlyBorn, Insert
<1>4. CopiesNotNewer'
  BY <1>1 DEF Publish, TypeOK, CopiesNotNewer, RequestProgress, OnlyBorn, NotNewer, Core, Insert
<1>5. ViewBeforeCopy'
  BY <1>1 DEF Publish, TypeOK, ViewBeforeCopy, RequestProgress, CopiesNotNewer, NotNewer, Insert
<1>6. AcceptedKept'
  BY <1>1 DEF Publish, TypeOK, AcceptedKept, RequestProgress, OnlyBorn, Insert
<1>7. FilesMatchRows'
  BY <1>1 DEF Publish, TypeOK, FilesMatchRows, RequestProgress, OnlyBorn, Insert
<1>8. AuditTruthful'
  BY <1>1 DEF Publish, TypeOK, AuditTruthful, RequestProgress, Insert
<1>9. QED
  BY <1>1, <1>2, <1>3, <1>4, <1>5, <1>6, <1>7, <1>8

\* A rescan publishes the child run.
LEMMA RescanPublishStep ==
  ASSUME RecordsInv, NEW q \in Requests, NEW r \in Runs,
         RescanPublish(q, r)
  PROVE  RecordsInv'
<1> USE DEF RecordsInv
<1>1. TypeOK'
  BY DEF RescanPublish, TypeOK, Insert
<1>2. OnlyBorn'
  BY <1>1 DEF RescanPublish, TypeOK, OnlyBorn, Insert
<1>3. RequestProgress'
  BY <1>1 DEF RescanPublish, TypeOK, RequestProgress, OnlyBorn, Insert
<1>4. CopiesNotNewer'
  BY <1>1 DEF RescanPublish, TypeOK, CopiesNotNewer, RequestProgress, OnlyBorn, NotNewer, Core, Insert
<1>5. ViewBeforeCopy'
  BY <1>1 DEF RescanPublish, TypeOK, ViewBeforeCopy, RequestProgress, CopiesNotNewer, NotNewer, Insert
<1>6. AcceptedKept'
  BY <1>1 DEF RescanPublish, TypeOK, AcceptedKept, RequestProgress, OnlyBorn, Insert
<1>7. FilesMatchRows'
  BY <1>1 DEF RescanPublish, TypeOK, FilesMatchRows, RequestProgress, OnlyBorn, Insert
<1>8. AuditTruthful'
  BY <1>1 DEF RescanPublish, TypeOK, AuditTruthful, RequestProgress, Insert
<1>9. QED
  BY <1>1, <1>2, <1>3, <1>4, <1>5, <1>6, <1>7, <1>8

\* A user opens the record.
LEMMA ViewStep ==
  ASSUME RecordsInv, NEW q \in Requests, NEW r \in Runs,
         View(q, r)
  PROVE  RecordsInv'
<1> USE DEF RecordsInv
<1>1. TypeOK'
  BY DEF View, TypeOK
<1>2. OnlyBorn'
  BY <1>1 DEF View, TypeOK, OnlyBorn
<1>3. RequestProgress'
  BY <1>1 DEF View, TypeOK, RequestProgress, OnlyBorn
<1>4. CopiesNotNewer'
  BY <1>1 DEF View, TypeOK, CopiesNotNewer, RequestProgress, OnlyBorn, NotNewer, Core
<1>5. ViewBeforeCopy'
  BY <1>1 DEF View, TypeOK, ViewBeforeCopy, RequestProgress, CopiesNotNewer, NotNewer
<1>6. AcceptedKept'
  BY <1>1 DEF View, TypeOK, AcceptedKept, RequestProgress, OnlyBorn
<1>7. FilesMatchRows'
  BY <1>1 DEF View, TypeOK, FilesMatchRows, RequestProgress, OnlyBorn
<1>8. AuditTruthful'
  BY <1>1 DEF View, TypeOK, AuditTruthful, RequestProgress
<1>9. QED
  BY <1>1, <1>2, <1>3, <1>4, <1>5, <1>6, <1>7, <1>8

\* A handler loads its copy.
LEMMA LoadStep ==
  ASSUME RecordsInv, NEW q \in Requests, NEW r \in Runs, NEW o \in CasOps \cup OverOps \cup {"delete"},
         Load(q, r, o)
  PROVE  RecordsInv'
<1> USE DEF RecordsInv
<1>1. TypeOK'
  BY DEF Load, TypeOK
<1>2. OnlyBorn'
  BY <1>1 DEF Load, TypeOK, OnlyBorn
<1>3. RequestProgress'
  BY <1>1 DEF Load, TypeOK, RequestProgress, OnlyBorn
<1>4. CopiesNotNewer'
  BY <1>1 DEF Load, TypeOK, CopiesNotNewer, RequestProgress, OnlyBorn, NotNewer, Core
<1>5. ViewBeforeCopy'
  BY <1>1 DEF Load, TypeOK, ViewBeforeCopy, RequestProgress, CopiesNotNewer, NotNewer
<1>6. AcceptedKept'
  BY <1>1 DEF Load, TypeOK, AcceptedKept, RequestProgress, OnlyBorn
<1>7. FilesMatchRows'
  BY <1>1 DEF Load, TypeOK, FilesMatchRows, RequestProgress, OnlyBorn
<1>8. AuditTruthful'
  BY <1>1 DEF Load, TypeOK, AuditTruthful, RequestProgress
<1>9. QED
  BY <1>1, <1>2, <1>3, <1>4, <1>5, <1>6, <1>7, <1>8

\* A handler refuses the request.
LEMMA RefuseStep ==
  ASSUME RecordsInv, NEW q \in Requests,
         Refuse(q)
  PROVE  RecordsInv'
<1> USE DEF RecordsInv
<1>1. TypeOK'
  BY DEF Refuse, TypeOK
<1>2. OnlyBorn'
  BY <1>1 DEF Refuse, TypeOK, OnlyBorn
<1>3. RequestProgress'
  BY <1>1 DEF Refuse, TypeOK, RequestProgress, OnlyBorn
<1>4. CopiesNotNewer'
  BY <1>1 DEF Refuse, TypeOK, CopiesNotNewer, RequestProgress, OnlyBorn, NotNewer, Core
<1>5. ViewBeforeCopy'
  BY <1>1 DEF Refuse, TypeOK, ViewBeforeCopy, RequestProgress, CopiesNotNewer, NotNewer
<1>6. AcceptedKept'
  BY <1>1 DEF Refuse, TypeOK, AcceptedKept, RequestProgress, OnlyBorn
<1>7. FilesMatchRows'
  BY <1>1 DEF Refuse, TypeOK, FilesMatchRows, RequestProgress, OnlyBorn
<1>8. AuditTruthful'
  BY <1>1 DEF Refuse, TypeOK, AuditTruthful, RequestProgress
<1>9. QED
  BY <1>1, <1>2, <1>3, <1>4, <1>5, <1>6, <1>7, <1>8

\* A review or decision is saved by compare-and-swap.
LEMMA SaveReviewedStep ==
  ASSUME RecordsInv, NEW q \in Requests,
         SaveReviewed(q)
  PROVE  RecordsInv'
<1> USE DEF RecordsInv
<1>a. /\ step[q] = "loaded" /\ op[q] \in CasOps
      /\ Live(run[q]) /\ row[run[q]].rev = Expected(q)
      /\ run[q] \in Runs /\ run[q] \in born
  BY DEF SaveReviewed, TypeOK, ViewBeforeCopy, OnlyBorn
<1>b. /\ Amended(q) \in Record
      /\ Expected(q) \in Nat
      /\ Amended(q).rev = Expected(q) + 1
      /\ op[q] = "review" => /\ Amended(q).reviews = snap[q].reviews \cup {q}
                             /\ Amended(q).decision = snap[q].decision
      /\ op[q] = "decide" => /\ Amended(q).reviews = snap[q].reviews
                             /\ Amended(q).decision = q
  BY <1>a, AmendedRecord
<1>c. row' = [row EXCEPT ![run[q]] = Amended(q)]
  BY DEF SaveReviewed
<1>1. TypeOK'
  BY <1>a, <1>b DEF SaveReviewed, TypeOK
<1>2. OnlyBorn'
  BY <1>1, <1>a, <1>b DEF SaveReviewed, TypeOK, OnlyBorn
<1>3. RequestProgress'
  BY <1>1, <1>a, <1>b DEF SaveReviewed, TypeOK, RequestProgress, OnlyBorn
<1>4. CopiesNotNewer'
  BY <1>1, <1>a, <1>b DEF SaveReviewed, TypeOK, CopiesNotNewer, RequestProgress,
     OnlyBorn, NotNewer, Core
<1>5. ViewBeforeCopy'
  BY <1>1 DEF SaveReviewed, TypeOK, ViewBeforeCopy
<1>6. AcceptedKept'
  <2> SUFFICES ASSUME NEW r \in born \ stale, Live(r)'
               PROVE  /\ row'[r].reviews =
                            {p \in accepted' : op[p] = "review" /\ run[p] = r}
                      /\ row'[r].decision = latest'[r]
    BY DEF SaveReviewed, AcceptedKept
  <2>0. r \in Runs /\ accepted' = accepted \cup {q}
    BY DEF SaveReviewed, TypeOK
  <2>1. CASE r # run[q]
    <3>1. row'[r] = row[r] /\ latest'[r] = latest[r]
      BY <2>0, <2>1, <1>a, <1>c DEF SaveReviewed, TypeOK
    <3>2. QED
      BY <3>1, <2>0, <2>1 DEF AcceptedKept
  <2>2. CASE r = run[q]
    <3>1. row'[r] = Amended(q)
      BY <2>0, <2>2, <1>c DEF TypeOK
    <3>2. /\ snap[q].reviews = {p \in accepted : op[p] = "review" /\ run[p] = r}
          /\ snap[q].decision = latest[r]
      BY <2>0, <2>2, <1>a, CopyIsCurrent DEF AcceptedKept, Core
    <3>3. latest'[r] = IF op[q] = "decide" THEN q ELSE latest[r]
      BY <2>0, <2>2, <1>a DEF SaveReviewed, TypeOK
    <3>4. QED
      BY <3>1, <3>2, <3>3, <2>0, <2>2, <1>a, <1>b
  <2>3. QED
    BY <2>1, <2>2
<1>7. FilesMatchRows'
  BY <1>1, <1>a, <1>b DEF SaveReviewed, TypeOK, FilesMatchRows
<1>8. AuditTruthful'
  BY DEF SaveReviewed, AuditTruthful
<1>9. QED
  BY <1>1, <1>2, <1>3, <1>4, <1>5, <1>6, <1>7, <1>8

\* A review or decision is answered 409.
LEMMA ConflictStep ==
  ASSUME RecordsInv, NEW q \in Requests,
         Conflict(q)
  PROVE  RecordsInv'
<1> USE DEF RecordsInv
<1>1. TypeOK'
  BY DEF Conflict, TypeOK
<1>2. OnlyBorn'
  BY <1>1 DEF Conflict, TypeOK, OnlyBorn
<1>3. RequestProgress'
  BY <1>1 DEF Conflict, TypeOK, RequestProgress, OnlyBorn
<1>4. CopiesNotNewer'
  BY <1>1 DEF Conflict, TypeOK, CopiesNotNewer, RequestProgress, OnlyBorn, NotNewer, Core
<1>5. ViewBeforeCopy'
  BY <1>1 DEF Conflict, TypeOK, ViewBeforeCopy, RequestProgress, CopiesNotNewer, NotNewer
<1>6. AcceptedKept'
  BY <1>1 DEF Conflict, TypeOK, AcceptedKept, RequestProgress, OnlyBorn
<1>7. FilesMatchRows'
  BY <1>1 DEF Conflict, TypeOK, FilesMatchRows, RequestProgress, OnlyBorn
<1>8. AuditTruthful'
  BY <1>1 DEF Conflict, TypeOK, AuditTruthful, RequestProgress
<1>9. QED
  BY <1>1, <1>2, <1>3, <1>4, <1>5, <1>6, <1>7, <1>8

\* A copy is written back unconditionally.
LEMMA SaveOverStep ==
  ASSUME RecordsInv, NEW q \in Requests,
         SaveOver(q)
  PROVE  RecordsInv'
<1> USE DEF RecordsInv
<1>a. /\ step[q] = "loaded" /\ op[q] \in OverOps
      /\ run[q] \in Runs /\ run[q] \in born
      /\ snap[q] \in Record /\ snap[q].rev # 0
  BY DEF SaveOver, TypeOK, ViewBeforeCopy, OnlyBorn
<1>b. Edited(q) \in Record /\ Core(Edited(q)) = Core(snap[q])
  BY <1>a, EditedRecord
<1>c. row' = [row EXCEPT ![run[q]] = Edited(q)]
  BY DEF SaveOver
<1>d. stale' = IF Core(snap[q]) = Core(row[run[q]]) THEN stale
               ELSE stale \cup {run[q]}
  BY DEF SaveOver
<1>e. ASSUME NEW r \in Runs, r \notin stale'
      PROVE  r \notin stale /\ Core(row'[r]) = Core(row[r])
  <2>1. r \notin stale
    BY <1>e, <1>d
  <2>2. CASE r # run[q]
    <3>1. row'[r] = row[r]
      BY <1>a, <1>c, <1>e, <2>2 DEF TypeOK
    <3>2. QED
      BY <3>1, <2>1 DEF Core
  <2>3. CASE r = run[q]
    <3>1. row'[r] = Edited(q)
      BY <1>a, <1>c, <2>3 DEF TypeOK
    <3>2. Core(snap[q]) = Core(row[r])
      BY <1>d, <1>e, <2>3
    <3>3. Core(row'[r]) = Core(Edited(q))
      BY <3>1 DEF Core
    <3>4. QED
      BY <3>2, <3>3, <2>1, <1>b
  <2>4. QED
    BY <2>2, <2>3
<1>f. ASSUME NEW r \in Runs, r \notin stale'
      PROVE  /\ row'[r].rev = row[r].rev
             /\ row'[r].reviews = row[r].reviews
             /\ row'[r].decision = row[r].decision
  <2>1. Core(row'[r]) = Core(row[r])
    BY <1>e, <1>f
  <2>2. QED
    BY <2>1 DEF Core
<1>1. TypeOK'
  <2>1. stale' \subseteq Runs
    BY <1>a, <1>d DEF TypeOK
  <2>2. QED
    BY <2>1, <1>a, <1>b, <1>c DEF SaveOver, TypeOK
<1>2. OnlyBorn'
  BY <1>1, <1>a, <1>b, <1>c DEF SaveOver, TypeOK, OnlyBorn
<1>3. RequestProgress'
  <2>1. ASSUME NEW p \in Requests, step'[p] = "deleted"
        PROVE  run[p] \in stale' \/ row'[run[p]].rev = 0
    <3>1. step[p] = "deleted" /\ run[p] \in Runs
      BY <2>1, <1>a DEF SaveOver, TypeOK, RequestProgress
    <3>2. QED
      BY <3>1, <1>d, <1>f DEF RequestProgress
  <2>2. QED
    BY <2>1, <1>1, <1>a DEF SaveOver, TypeOK, RequestProgress
<1>4. CopiesNotNewer'
  BY <1>1, <1>e, <1>f DEF SaveOver, TypeOK, CopiesNotNewer, NotNewer
<1>5. ViewBeforeCopy'
  BY <1>1, <1>d DEF SaveOver, TypeOK, ViewBeforeCopy
<1>6. AcceptedKept'
  BY <1>1, <1>e, <1>f DEF SaveOver, TypeOK, AcceptedKept
<1>7. FilesMatchRows'
  <2> SUFFICES ASSUME NEW r \in born \ stale'
               PROVE  IF Live(r)' THEN r \in files
                      ELSE r \in files =>
                             \E p \in Requests : step'[p] = "deleted" /\ run[p] = r
    BY DEF SaveOver, FilesMatchRows
  <2>1. r \in Runs /\ r \notin stale /\ (Live(r)' <=> Live(r))
    BY <1>e, <1>f DEF TypeOK
  <2>2. ASSUME NEW p \in Requests, step[p] = "deleted"
        PROVE  step'[p] = "deleted"
    BY <2>2, <1>a DEF SaveOver, TypeOK
  <2>3. QED
    BY <2>1, <2>2 DEF FilesMatchRows
<1>8. AuditTruthful'
  BY DEF SaveOver, AuditTruthful
<1>9. QED
  BY <1>1, <1>2, <1>3, <1>4, <1>5, <1>6, <1>7, <1>8

\* A run is deleted.
LEMMA DeleteRowStep ==
  ASSUME RecordsInv, NEW q \in Requests,
         DeleteRow(q)
  PROVE  RecordsInv'
<1> USE DEF RecordsInv
<1>1. TypeOK'
  BY DEF DeleteRow, TypeOK
<1>2. OnlyBorn'
  BY <1>1 DEF DeleteRow, TypeOK, OnlyBorn
<1>3. RequestProgress'
  BY <1>1 DEF DeleteRow, TypeOK, RequestProgress, OnlyBorn
<1>4. CopiesNotNewer'
  BY <1>1 DEF DeleteRow, TypeOK, CopiesNotNewer, RequestProgress, OnlyBorn, NotNewer, Core
<1>5. ViewBeforeCopy'
  BY <1>1 DEF DeleteRow, TypeOK, ViewBeforeCopy, RequestProgress, CopiesNotNewer, NotNewer
<1>6. AcceptedKept'
  BY <1>1 DEF DeleteRow, TypeOK, AcceptedKept, RequestProgress, OnlyBorn
<1>7. FilesMatchRows'
  BY <1>1 DEF DeleteRow, TypeOK, FilesMatchRows, RequestProgress, OnlyBorn
<1>8. AuditTruthful'
  BY <1>1 DEF DeleteRow, TypeOK, AuditTruthful, RequestProgress
<1>9. QED
  BY <1>1, <1>2, <1>3, <1>4, <1>5, <1>6, <1>7, <1>8

\* The directory of a deleted run is removed.
LEMMA RemoveFilesStep ==
  ASSUME RecordsInv, NEW q \in Requests,
         RemoveFiles(q)
  PROVE  RecordsInv'
<1> USE DEF RecordsInv
<1>1. TypeOK'
  BY DEF RemoveFiles, TypeOK
<1>2. OnlyBorn'
  BY <1>1 DEF RemoveFiles, TypeOK, OnlyBorn
<1>3. RequestProgress'
  BY <1>1 DEF RemoveFiles, TypeOK, RequestProgress, OnlyBorn
<1>4. CopiesNotNewer'
  BY <1>1 DEF RemoveFiles, TypeOK, CopiesNotNewer, RequestProgress, OnlyBorn, NotNewer, Core
<1>5. ViewBeforeCopy'
  BY <1>1 DEF RemoveFiles, TypeOK, ViewBeforeCopy, RequestProgress, CopiesNotNewer, NotNewer
<1>6. AcceptedKept'
  BY <1>1 DEF RemoveFiles, TypeOK, AcceptedKept, RequestProgress, OnlyBorn
<1>7. FilesMatchRows'
  BY <1>1 DEF RemoveFiles, TypeOK, FilesMatchRows, RequestProgress, OnlyBorn
<1>8. AuditTruthful'
  BY <1>1 DEF RemoveFiles, TypeOK, AuditTruthful, RequestProgress
<1>9. QED
  BY <1>1, <1>2, <1>3, <1>4, <1>5, <1>6, <1>7, <1>8

\* A purge lists its candidates.
LEMMA PurgeListStep ==
  ASSUME RecordsInv, NEW q \in Requests, NEW candidates \in SUBSET Runs,
         PurgeList(q, candidates)
  PROVE  RecordsInv'
<1> USE DEF RecordsInv
<1>1. TypeOK'
  BY DEF PurgeList, TypeOK
<1>2. OnlyBorn'
  BY <1>1 DEF PurgeList, TypeOK, OnlyBorn
<1>3. RequestProgress'
  BY <1>1 DEF PurgeList, TypeOK, RequestProgress, OnlyBorn
<1>4. CopiesNotNewer'
  BY <1>1 DEF PurgeList, TypeOK, CopiesNotNewer, RequestProgress, OnlyBorn, NotNewer, Core
<1>5. ViewBeforeCopy'
  BY <1>1 DEF PurgeList, TypeOK, ViewBeforeCopy, RequestProgress, CopiesNotNewer, NotNewer
<1>6. AcceptedKept'
  BY <1>1 DEF PurgeList, TypeOK, AcceptedKept, RequestProgress, OnlyBorn
<1>7. FilesMatchRows'
  BY <1>1 DEF PurgeList, TypeOK, FilesMatchRows, RequestProgress, OnlyBorn
<1>8. AuditTruthful'
  BY <1>1 DEF PurgeList, TypeOK, AuditTruthful, RequestProgress
<1>9. QED
  BY <1>1, <1>2, <1>3, <1>4, <1>5, <1>6, <1>7, <1>8

\* A purge loads a candidate.
LEMMA PurgeLoadStep ==
  ASSUME RecordsInv, NEW q \in Requests, NEW r \in Runs,
         PurgeLoad(q, r)
  PROVE  RecordsInv'
<1> USE DEF RecordsInv
<1>1. TypeOK'
  BY DEF PurgeLoad, TypeOK
<1>2. OnlyBorn'
  BY <1>1 DEF PurgeLoad, TypeOK, OnlyBorn
<1>3. RequestProgress'
  BY <1>1 DEF PurgeLoad, TypeOK, RequestProgress, OnlyBorn
<1>4. CopiesNotNewer'
  BY <1>1 DEF PurgeLoad, TypeOK, CopiesNotNewer, RequestProgress, OnlyBorn, NotNewer, Core
<1>5. ViewBeforeCopy'
  BY <1>1 DEF PurgeLoad, TypeOK, ViewBeforeCopy, RequestProgress, CopiesNotNewer, NotNewer
<1>6. AcceptedKept'
  BY <1>1 DEF PurgeLoad, TypeOK, AcceptedKept, RequestProgress, OnlyBorn
<1>7. FilesMatchRows'
  BY <1>1 DEF PurgeLoad, TypeOK, FilesMatchRows, RequestProgress, OnlyBorn
<1>8. AuditTruthful'
  BY <1>1 DEF PurgeLoad, TypeOK, AuditTruthful, RequestProgress
<1>9. QED
  BY <1>1, <1>2, <1>3, <1>4, <1>5, <1>6, <1>7, <1>8

\* A purge deletes a candidate.
LEMMA PurgeRowStep ==
  ASSUME RecordsInv, NEW q \in Requests,
         PurgeRow(q)
  PROVE  RecordsInv'
<1> USE DEF RecordsInv
<1>1. TypeOK'
  BY DEF PurgeRow, TypeOK
<1>2. OnlyBorn'
  BY <1>1 DEF PurgeRow, TypeOK, OnlyBorn
<1>3. RequestProgress'
  BY <1>1 DEF PurgeRow, TypeOK, RequestProgress, OnlyBorn
<1>4. CopiesNotNewer'
  BY <1>1 DEF PurgeRow, TypeOK, CopiesNotNewer, RequestProgress, OnlyBorn, NotNewer, Core
<1>5. ViewBeforeCopy'
  BY <1>1 DEF PurgeRow, TypeOK, ViewBeforeCopy, RequestProgress, CopiesNotNewer, NotNewer
<1>6. AcceptedKept'
  BY <1>1 DEF PurgeRow, TypeOK, AcceptedKept, RequestProgress, OnlyBorn
<1>7. FilesMatchRows'
  BY <1>1 DEF PurgeRow, TypeOK, FilesMatchRows, RequestProgress, OnlyBorn
<1>8. AuditTruthful'
  BY <1>1 DEF PurgeRow, TypeOK, AuditTruthful, RequestProgress
<1>9. QED
  BY <1>1, <1>2, <1>3, <1>4, <1>5, <1>6, <1>7, <1>8

\* A purge has no candidate left.
LEMMA PurgeEndStep ==
  ASSUME RecordsInv, NEW q \in Requests,
         PurgeEnd(q)
  PROVE  RecordsInv'
<1> USE DEF RecordsInv
<1>1. TypeOK'
  BY DEF PurgeEnd, TypeOK
<1>2. OnlyBorn'
  BY <1>1 DEF PurgeEnd, TypeOK, OnlyBorn
<1>3. RequestProgress'
  BY <1>1 DEF PurgeEnd, TypeOK, RequestProgress, OnlyBorn
<1>4. CopiesNotNewer'
  BY <1>1 DEF PurgeEnd, TypeOK, CopiesNotNewer, RequestProgress, OnlyBorn, NotNewer, Core
<1>5. ViewBeforeCopy'
  BY <1>1 DEF PurgeEnd, TypeOK, ViewBeforeCopy, RequestProgress, CopiesNotNewer, NotNewer
<1>6. AcceptedKept'
  BY <1>1 DEF PurgeEnd, TypeOK, AcceptedKept, RequestProgress, OnlyBorn
<1>7. FilesMatchRows'
  BY <1>1 DEF PurgeEnd, TypeOK, FilesMatchRows, RequestProgress, OnlyBorn
<1>8. AuditTruthful'
  BY <1>1 DEF PurgeEnd, TypeOK, AuditTruthful, RequestProgress
<1>9. QED
  BY <1>1, <1>2, <1>3, <1>4, <1>5, <1>6, <1>7, <1>8

\* A handler records its audit event.
LEMMA AuditStep ==
  ASSUME RecordsInv, NEW q \in Requests,
         Audit(q)
  PROVE  RecordsInv'
<1> USE DEF RecordsInv
<1>1. TypeOK'
  BY DEF Audit, TypeOK
<1>2. OnlyBorn'
  BY <1>1 DEF Audit, TypeOK, OnlyBorn
<1>3. RequestProgress'
  BY <1>1 DEF Audit, TypeOK, RequestProgress, OnlyBorn
<1>4. CopiesNotNewer'
  BY <1>1 DEF Audit, TypeOK, CopiesNotNewer, RequestProgress, OnlyBorn, NotNewer, Core
<1>5. ViewBeforeCopy'
  BY <1>1 DEF Audit, TypeOK, ViewBeforeCopy, RequestProgress, CopiesNotNewer, NotNewer
<1>6. AcceptedKept'
  BY <1>1 DEF Audit, TypeOK, AcceptedKept, RequestProgress, OnlyBorn
<1>7. FilesMatchRows'
  BY <1>1 DEF Audit, TypeOK, FilesMatchRows, RequestProgress, OnlyBorn
<1>8. AuditTruthful'
  BY <1>1 DEF Audit, TypeOK, AuditTruthful, RequestProgress
<1>9. QED
  BY <1>1, <1>2, <1>3, <1>4, <1>5, <1>6, <1>7, <1>8

-----------------------------------------------------------------------------

\* The initial states satisfy the invariant.
LEMMA InitRecords == Init => RecordsInv
  BY DEF Init, RecordsInv, TypeOK, OnlyBorn, RequestProgress, CopiesNotNewer,
     ViewBeforeCopy, AcceptedKept, FilesMatchRows, AuditTruthful

\* Every step preserves the invariant.
LEMMA NextRecords == RecordsInv /\ [Next]_vars => RecordsInv'
<1> SUFFICES ASSUME RecordsInv, [Next]_vars PROVE RecordsInv'
  OBVIOUS
<1>1. CASE \E r \in Runs : Publish(r)
  BY <1>1, PublishStep
<1>2. CASE \E q \in Requests, r \in Runs : RescanPublish(q, r)
  BY <1>2, RescanPublishStep
<1>3. CASE \E q \in Requests, r \in Runs : View(q, r)
  BY <1>3, ViewStep
<1>4. CASE \E q \in Requests, r \in Runs : PurgeLoad(q, r)
  BY <1>4, PurgeLoadStep
<1>5. CASE \E q \in Requests, r \in Runs :
             \E o \in CasOps \cup OverOps \cup {"delete"} : Load(q, r, o)
  BY <1>5, LoadStep
<1>6. CASE \E q \in Requests, candidates \in SUBSET Runs : PurgeList(q, candidates)
  BY <1>6, PurgeListStep
<1>7. CASE \E q \in Requests : Handle(q)
  BY <1>7, RefuseStep, SaveReviewedStep, ConflictStep, SaveOverStep, DeleteRowStep,
     RemoveFilesStep, PurgeRowStep, PurgeEndStep, AuditStep DEF Handle
<1>8. CASE UNCHANGED vars
  BY <1>8 DEF vars, RecordsInv, TypeOK, OnlyBorn, RequestProgress, CopiesNotNewer,
     NotNewer, Core, ViewBeforeCopy, AcceptedKept, FilesMatchRows, AuditTruthful
<1>9. QED
  BY <1>1, <1>2, <1>3, <1>4, <1>5, <1>6, <1>7, <1>8 DEF Next

\* RecordsInv holds in every reachable state, for any number of runs and
\* requests.
THEOREM RecordsInvariance == Spec => []RecordsInv
  BY InitRecords, NextRecords, PTL DEF Spec

\* No accepted review or decision is lost unless an unconditional save wrote an
\* older copy back (db.save_run without expected_revision).
THEOREM AcceptedAreKept == Spec => []AcceptedKept
<1>1. RecordsInv => AcceptedKept
  BY DEF RecordsInv
<1>2. QED
  BY <1>1, RecordsInvariance, PTL

\* Rows and upload directories agree under concurrent deletes and purges.
THEOREM FilesAgree == Spec => []FilesMatchRows
<1>1. RecordsInv => FilesMatchRows
  BY DEF RecordsInv
<1>2. QED
  BY <1>1, RecordsInvariance, PTL

\* Every audit event of a review, decision or delete is about a change that was made:
\* a refused save leaves none.
THEOREM AuditIsTruthful == Spec => []AuditTruthful
<1>1. RecordsInv => AuditTruthful
  BY DEF RecordsInv
<1>2. QED
  BY <1>1, RecordsInvariance, PTL

\* A submission with a revision is accepted only on the record its user saw.
THEOREM ViewsAreCurrent == Spec => ViewIsCurrent
<1> DEFINE Seen == \A q \in accepted' \ accepted :
                      view[q].rev # 0 /\ run[q] \notin stale =>
                         Core(view[q]) = Core(row[run[q]])
<1>1. RecordsInv /\ [Next]_vars => [Seen]_vars
  <2> SUFFICES ASSUME RecordsInv, Next, NEW q \in accepted' \ accepted,
                      view[q].rev # 0, run[q] \notin stale
               PROVE  Core(view[q]) = Core(row[run[q]])
    OBVIOUS
  <2>1. q \in Requests /\ SaveReviewed(q)
    BY DEF RecordsInv, TypeOK, Next, Handle, Publish, RescanPublish, View, PurgeLoad,
       Load, PurgeList, Refuse, SaveReviewed, Conflict, SaveOver, DeleteRow,
       RemoveFiles, PurgeRow, PurgeEnd, Audit
  <2>2. QED
    BY <2>1, CopyIsCurrent DEF SaveReviewed
<1>2. QED
  BY <1>1, RecordsInvariance, PTL DEF Spec, ViewIsCurrent

\* The revision of a record falls or stands still under a change only when an
\* unconditional save wrote an older copy back.
THEOREM RevisionsGrow == Spec => RevisionGrows
<1> DEFINE Grows == \A r \in born \ stale' :
                       Live(r) /\ row'[r].rev # 0 =>
                          \/ Core(row'[r]) = Core(row[r])
                          \/ row'[r].rev > row[r].rev
<1>1. RecordsInv /\ [Next]_vars => [Grows]_vars
  <2> SUFFICES ASSUME RecordsInv, Next, NEW r \in born \ stale',
                      Live(r), row'[r].rev # 0
               PROVE  \/ Core(row'[r]) = Core(row[r])
                      \/ row'[r].rev > row[r].rev
    OBVIOUS
  <2>0. r \in Runs /\ row \in [Runs -> Record]
    BY DEF RecordsInv, TypeOK
  <2>1. \/ row'[r] = row[r]
        \/ \E q \in Requests : SaveReviewed(q) \/ SaveOver(q)
    BY <2>0 DEF Next, Handle, Publish, RescanPublish, Insert, View, PurgeLoad,
       Load, PurgeList, Refuse, Conflict, DeleteRow, RemoveFiles, PurgeRow, PurgeEnd,
       Audit
  <2>2. CASE row'[r] = row[r]
    BY <2>2 DEF Core
  <2>3. ASSUME NEW q \in Requests, SaveReviewed(q), row'[r] # row[r]
        PROVE  row'[r].rev > row[r].rev
    <3>1. r = run[q] /\ row'[r] = Amended(q) /\ row[r].rev = Expected(q)
      BY <2>0, <2>3 DEF SaveReviewed
    <3>2. Amended(q).rev = Expected(q) + 1 /\ Expected(q) \in Nat
      BY <2>3, AmendedRecord DEF SaveReviewed, RecordsInv
    <3>3. QED
      BY <3>1, <3>2
  <2>4. ASSUME NEW q \in Requests, SaveOver(q), row'[r] # row[r]
        PROVE  Core(row'[r]) = Core(row[r])
    <3>1. r = run[q] /\ row'[r] = Edited(q)
      BY <2>0, <2>4 DEF SaveOver
    <3>2. Core(snap[q]) = Core(row[r])
      BY <3>1, <2>4 DEF SaveOver
    <3>3. Core(Edited(q)) = Core(snap[q])
      BY <2>4, EditedRecord DEF SaveOver, RecordsInv
    <3>4. Core(row'[r]) = Core(Edited(q))
      BY <3>1 DEF Core
    <3>5. QED
      BY <3>2, <3>3, <3>4
  <2>5. QED
    BY <2>1, <2>2, <2>3, <2>4
<1>2. QED
  BY <1>1, RecordsInvariance, PTL DEF Spec, RevisionGrows

=============================================================================
