------------------------- MODULE SecondFactorProofs -------------------------
(***************************************************************************)
(* FactorInv is an inductive invariant of SecondFactor for all sets of     *)
(* requests, secrets and recovery codes; one-time use of codes and login   *)
(* flows follows from it.                                                  *)
(***************************************************************************)
EXTENDS SecondFactor, TLAPS

USE FactorAssumption
USE DEF Ops, Steps, Row, NoRow, Totp, Recovery, NoCode, Goto, Enter

-----------------------------------------------------------------------------
(* One lemma per action.                                                    *)

\* The clock moves.
LEMMA TickStep ==
  ASSUME FactorInv,
         Tick
  PROVE  FactorInv'
<1> USE DEF FactorInv
<1>1. TypeOK'
  BY DEF Tick, TypeOK
<1>2. RowIssued'
  BY <1>1 DEF Tick, TypeOK, RowIssued
<1>3. AcceptedSpent'
  BY <1>1 DEF Tick, TypeOK, AcceptedSpent, Progress
<1>4. CheckedFits'
  BY <1>1 DEF Tick, TypeOK, CheckedFits, Progress
<1>5. Progress'
  BY <1>1 DEF Tick, TypeOK, Progress, FlowsSpent, CheckedFits
<1>6. FlowsSpent'
  BY <1>1 DEF Tick, TypeOK, FlowsSpent, Granted, Progress
<1>7. CodeUsedOnce'
  BY <1>1 DEF Tick, TypeOK, CodeUsedOnce, Progress
<1>8. ConfirmedWasProved'
  BY <1>1 DEF Tick, TypeOK, ConfirmedWasProved, Progress
<1>9. QED
  BY <1>1, <1>2, <1>3, <1>4, <1>5, <1>6, <1>7, <1>8

\* An enrolment loads the row.
LEMMA EnrollLoadStep ==
  ASSUME FactorInv, NEW q \in Requests,
         EnrollLoad(q)
  PROVE  FactorInv'
<1> USE DEF FactorInv
<1>1. TypeOK'
  BY DEF EnrollLoad, TypeOK
<1>2. RowIssued'
  BY <1>1 DEF EnrollLoad, TypeOK, RowIssued
<1>3. AcceptedSpent'
  BY <1>1 DEF EnrollLoad, TypeOK, AcceptedSpent, Progress
<1>4. CheckedFits'
  BY <1>1 DEF EnrollLoad, TypeOK, CheckedFits, Progress
<1>5. Progress'
  BY <1>1 DEF EnrollLoad, TypeOK, Progress, FlowsSpent, CheckedFits
<1>6. FlowsSpent'
  BY <1>1 DEF EnrollLoad, TypeOK, FlowsSpent, Granted, Progress
<1>7. CodeUsedOnce'
  BY <1>1 DEF EnrollLoad, TypeOK, CodeUsedOnce, Progress
<1>8. ConfirmedWasProved'
  BY <1>1 DEF EnrollLoad, TypeOK, ConfirmedWasProved, Progress
<1>9. QED
  BY <1>1, <1>2, <1>3, <1>4, <1>5, <1>6, <1>7, <1>8

\* An enrolment replaces the row.
LEMMA EnrollSaveStep ==
  ASSUME FactorInv, NEW q \in Requests, NEW s \in Secrets,
         EnrollSave(q, s)
  PROVE  FactorInv'
<1> USE DEF FactorInv
<1>1. TypeOK'
  BY DEF EnrollSave, TypeOK
<1>2. RowIssued'
  BY <1>1 DEF EnrollSave, TypeOK, RowIssued
<1>3. AcceptedSpent'
  BY <1>1 DEF EnrollSave, TypeOK, AcceptedSpent, Progress, RowIssued
<1>4. CheckedFits'
  BY <1>1 DEF EnrollSave, TypeOK, CheckedFits, Progress
<1>5. Progress'
  BY <1>1 DEF EnrollSave, TypeOK, Progress, FlowsSpent, CheckedFits
<1>6. FlowsSpent'
  BY <1>1 DEF EnrollSave, TypeOK, FlowsSpent, Granted, Progress
<1>7. CodeUsedOnce'
  BY <1>1 DEF EnrollSave, TypeOK, CodeUsedOnce, Progress
<1>8. ConfirmedWasProved'
  BY <1>1 DEF EnrollSave, TypeOK, ConfirmedWasProved, Progress
<1>9. QED
  BY <1>1, <1>2, <1>3, <1>4, <1>5, <1>6, <1>7, <1>8

\* A login loads the row.
LEMMA LoginLoadStep ==
  ASSUME FactorInv, NEW q \in Requests,
         LoginLoad(q)
  PROVE  FactorInv'
<1> USE DEF FactorInv
<1>1. TypeOK'
  BY DEF LoginLoad, TypeOK
<1>2. RowIssued'
  BY <1>1 DEF LoginLoad, TypeOK, RowIssued
<1>3. AcceptedSpent'
  BY <1>1 DEF LoginLoad, TypeOK, AcceptedSpent, Progress
<1>4. CheckedFits'
  BY <1>1 DEF LoginLoad, TypeOK, CheckedFits, Progress
<1>5. Progress'
  BY <1>1 DEF LoginLoad, TypeOK, Progress, FlowsSpent, CheckedFits
<1>6. FlowsSpent'
  BY <1>1 DEF LoginLoad, TypeOK, FlowsSpent, Granted, Progress
<1>7. CodeUsedOnce'
  BY <1>1 DEF LoginLoad, TypeOK, CodeUsedOnce, Progress
<1>8. ConfirmedWasProved'
  BY <1>1 DEF LoginLoad, TypeOK, ConfirmedWasProved, Progress
<1>9. QED
  BY <1>1, <1>2, <1>3, <1>4, <1>5, <1>6, <1>7, <1>8

\* A login starts a flow.
LEMMA LoginFlowStep ==
  ASSUME FactorInv, NEW q \in Requests,
         LoginFlow(q)
  PROVE  FactorInv'
<1> USE DEF FactorInv
<1>1. TypeOK'
  BY DEF LoginFlow, TypeOK
<1>2. RowIssued'
  BY <1>1 DEF LoginFlow, TypeOK, RowIssued
<1>3. AcceptedSpent'
  BY <1>1 DEF LoginFlow, TypeOK, AcceptedSpent, Progress
<1>4. CheckedFits'
  BY <1>1 DEF LoginFlow, TypeOK, CheckedFits, Progress
<1>5. Progress'
  BY <1>1 DEF LoginFlow, TypeOK, Progress, FlowsSpent, CheckedFits
<1>6. FlowsSpent'
  BY <1>1 DEF LoginFlow, TypeOK, FlowsSpent, Granted, Progress
<1>7. CodeUsedOnce'
  BY <1>1 DEF LoginFlow, TypeOK, CodeUsedOnce, Progress
<1>8. ConfirmedWasProved'
  BY <1>1 DEF LoginFlow, TypeOK, ConfirmedWasProved, Progress
<1>9. QED
  BY <1>1, <1>2, <1>3, <1>4, <1>5, <1>6, <1>7, <1>8

\* A login without second factor.
LEMMA LoginDirectStep ==
  ASSUME FactorInv, NEW q \in Requests,
         LoginDirect(q)
  PROVE  FactorInv'
<1> USE DEF FactorInv
<1>1. TypeOK'
  BY DEF LoginDirect, TypeOK
<1>2. RowIssued'
  BY <1>1 DEF LoginDirect, TypeOK, RowIssued
<1>3. AcceptedSpent'
  BY <1>1 DEF LoginDirect, TypeOK, AcceptedSpent, Progress
<1>4. CheckedFits'
  BY <1>1 DEF LoginDirect, TypeOK, CheckedFits, Progress
<1>5. Progress'
  BY <1>1 DEF LoginDirect, TypeOK, Progress, FlowsSpent, CheckedFits
<1>6. FlowsSpent'
  BY <1>1 DEF LoginDirect, TypeOK, FlowsSpent, Granted, Progress
<1>7. CodeUsedOnce'
  BY <1>1 DEF LoginDirect, TypeOK, CodeUsedOnce, Progress
<1>8. ConfirmedWasProved'
  BY <1>1 DEF LoginDirect, TypeOK, ConfirmedWasProved, Progress
<1>9. QED
  BY <1>1, <1>2, <1>3, <1>4, <1>5, <1>6, <1>7, <1>8

\* A flow expires.
LEMMA FlowExpiresStep ==
  ASSUME FactorInv, NEW q \in Requests,
         FlowExpires(q)
  PROVE  FactorInv'
<1> USE DEF FactorInv
<1>1. TypeOK'
  BY DEF FlowExpires, TypeOK
<1>2. RowIssued'
  BY <1>1 DEF FlowExpires, TypeOK, RowIssued
<1>3. AcceptedSpent'
  BY <1>1 DEF FlowExpires, TypeOK, AcceptedSpent, Progress
<1>4. CheckedFits'
  BY <1>1 DEF FlowExpires, TypeOK, CheckedFits, Progress
<1>5. Progress'
  BY <1>1 DEF FlowExpires, TypeOK, Progress, FlowsSpent, CheckedFits
<1>6. FlowsSpent'
  BY <1>1 DEF FlowExpires, TypeOK, FlowsSpent, Granted, Progress
<1>7. CodeUsedOnce'
  BY <1>1 DEF FlowExpires, TypeOK, CodeUsedOnce, Progress
<1>8. ConfirmedWasProved'
  BY <1>1 DEF FlowExpires, TypeOK, ConfirmedWasProved, Progress
<1>9. QED
  BY <1>1, <1>2, <1>3, <1>4, <1>5, <1>6, <1>7, <1>8

\* A code is submitted for a flow.
LEMMA VerifyEnterStep ==
  ASSUME FactorInv, NEW q \in Requests, NEW p \in Requests,
         VerifyEnter(q, p)
  PROVE  FactorInv'
<1> USE DEF FactorInv
<1>1. TypeOK'
  BY DEF VerifyEnter, TypeOK
<1>2. RowIssued'
  BY <1>1 DEF VerifyEnter, TypeOK, RowIssued
<1>3. AcceptedSpent'
  BY <1>1 DEF VerifyEnter, TypeOK, AcceptedSpent, Progress
<1>4. CheckedFits'
  BY <1>1 DEF VerifyEnter, TypeOK, CheckedFits, Progress
<1>5. Progress'
  BY <1>1 DEF VerifyEnter, TypeOK, Progress, FlowsSpent, CheckedFits
<1>6. FlowsSpent'
  BY <1>1 DEF VerifyEnter, TypeOK, FlowsSpent, Granted, Progress
<1>7. CodeUsedOnce'
  BY <1>1 DEF VerifyEnter, TypeOK, CodeUsedOnce, Progress
<1>8. ConfirmedWasProved'
  BY <1>1 DEF VerifyEnter, TypeOK, ConfirmedWasProved, Progress
<1>9. QED
  BY <1>1, <1>2, <1>3, <1>4, <1>5, <1>6, <1>7, <1>8

\* A code is checked against the loaded row.
LEMMA CheckCodeStep ==
  ASSUME FactorInv, NEW q \in Requests, NEW o \in {"verify", "confirm", "disable"},
         NEW c \in Submitted,
         CheckCode(q, o, c)
  PROVE  FactorInv'
<1> USE DEF FactorInv
<1>1. TypeOK'
  BY DEF CheckCode, TypeOK, Matches, Submitted
<1>2. RowIssued'
  BY <1>1 DEF CheckCode, TypeOK, RowIssued, Matches, Submitted
<1>3. AcceptedSpent'
  BY <1>1 DEF CheckCode, TypeOK, AcceptedSpent, Progress, Matches, Submitted
<1>4. CheckedFits'
  <2> SUFFICES ASSUME NEW p \in Requests, step'[p] = "checked"
               PROVE  /\ op'[p] \in {"verify", "confirm", "disable"}
                      /\ code'[p] \in Totp \cup Recovery
                      /\ snap'[p].secret = code'[p].secret
                      /\ op'[p] # "confirm" => snap'[p].confirmed
                      /\ op'[p] = "confirm" => code'[p].kind = "totp"
                      /\ code'[p].kind = "totp" => code'[p].n > snap'[p].last_counter
                      /\ code'[p].kind = "recovery" => code'[p].slot \in snap'[p].recovery
    BY DEF CheckedFits
  <2>1. CASE p # q
    <3>1. /\ step[p] = "checked" /\ op'[p] = op[p]
          /\ snap'[p] = snap[p] /\ code'[p] = code[p]
      BY <2>1 DEF CheckCode, TypeOK
    <3>2. QED
      BY <3>1 DEF CheckedFits
  <2>2. CASE p = q
    <3>1. snap'[q] = row /\ code'[q] = c
      BY DEF CheckCode, TypeOK
    <3>2. /\ row.confirmed <=> o # "confirm"
          /\ o = "confirm" => c.kind = "totp"
          /\ Matches(row, c)
      BY <2>2 DEF CheckCode, TypeOK
    <3>3. op'[q] = o
      BY DEF CheckCode, TypeOK, Progress
    <3>4. c \in Totp \cup Recovery
      BY DEF Submitted, TypeOK
    <3>5. QED
      BY <2>2, <3>1, <3>2, <3>3, <3>4 DEF Matches
  <2>3. QED
    BY <2>1, <2>2
<1>5. Progress'
  BY <1>1 DEF CheckCode, TypeOK, Progress, FlowsSpent, CheckedFits, Matches, Submitted
<1>6. FlowsSpent'
  BY <1>1 DEF CheckCode, TypeOK, FlowsSpent, Granted, Progress, Matches, Submitted
<1>7. CodeUsedOnce'
  BY <1>1 DEF CheckCode, TypeOK, CodeUsedOnce, Progress, Matches, Submitted
<1>8. ConfirmedWasProved'
  BY <1>1 DEF CheckCode, TypeOK, ConfirmedWasProved, Progress, Matches, Submitted
<1>9. QED
  BY <1>1, <1>2, <1>3, <1>4, <1>5, <1>6, <1>7, <1>8

\* A checked code is consumed.
LEMMA ConsumeStep ==
  ASSUME FactorInv, NEW q \in Requests,
         Consume(q)
  PROVE  FactorInv'
<1> USE DEF FactorInv
<1>1. TypeOK'
  BY DEF Consume, TypeOK, Current, Consumed, CheckedFits, RowIssued, AcceptedSpent
<1>2. RowIssued'
  BY <1>1 DEF Consume, TypeOK, RowIssued, Current, Consumed, CheckedFits, AcceptedSpent
<1>3. AcceptedSpent'
  BY <1>1 DEF Consume, TypeOK, AcceptedSpent, Progress, Current, Consumed, CheckedFits, RowIssued
<1>4. CheckedFits'
  BY <1>1 DEF Consume, TypeOK, CheckedFits, Progress, Current, Consumed, RowIssued, AcceptedSpent
<1>5. Progress'
  BY <1>1 DEF Consume, TypeOK, Progress, FlowsSpent, CheckedFits, Current, Consumed, RowIssued, AcceptedSpent
<1>6. FlowsSpent'
  BY <1>1 DEF Consume, TypeOK, FlowsSpent, Granted, Progress, Current, Consumed, CheckedFits, RowIssued, AcceptedSpent
<1>7. CodeUsedOnce'
  BY <1>1 DEF Consume, TypeOK, CodeUsedOnce, Progress, Current, Consumed, CheckedFits, RowIssued, AcceptedSpent
<1>8. ConfirmedWasProved'
  BY <1>1 DEF Consume, TypeOK, ConfirmedWasProved, Progress, Current, Consumed, CheckedFits, RowIssued, AcceptedSpent
<1>9. QED
  BY <1>1, <1>2, <1>3, <1>4, <1>5, <1>6, <1>7, <1>8

\* A checked code finds another row.
LEMMA OvertakenStep ==
  ASSUME FactorInv, NEW q \in Requests,
         Overtaken(q)
  PROVE  FactorInv'
<1> USE DEF FactorInv
<1>1. TypeOK'
  BY DEF Overtaken, TypeOK
<1>2. RowIssued'
  BY <1>1 DEF Overtaken, TypeOK, RowIssued
<1>3. AcceptedSpent'
  BY <1>1 DEF Overtaken, TypeOK, AcceptedSpent, Progress
<1>4. CheckedFits'
  BY <1>1 DEF Overtaken, TypeOK, CheckedFits, Progress
<1>5. Progress'
  BY <1>1 DEF Overtaken, TypeOK, Progress, FlowsSpent, CheckedFits
<1>6. FlowsSpent'
  BY <1>1 DEF Overtaken, TypeOK, FlowsSpent, Granted, Progress
<1>7. CodeUsedOnce'
  BY <1>1 DEF Overtaken, TypeOK, CodeUsedOnce, Progress
<1>8. ConfirmedWasProved'
  BY <1>1 DEF Overtaken, TypeOK, ConfirmedWasProved, Progress
<1>9. QED
  BY <1>1, <1>2, <1>3, <1>4, <1>5, <1>6, <1>7, <1>8

\* A flow is consumed.
LEMMA UseFlowStep ==
  ASSUME FactorInv, NEW q \in Requests,
         UseFlow(q)
  PROVE  FactorInv'
<1> USE DEF FactorInv
<1>1. TypeOK'
  BY DEF UseFlow, TypeOK
<1>2. RowIssued'
  BY <1>1 DEF UseFlow, TypeOK, RowIssued
<1>3. AcceptedSpent'
  BY <1>1 DEF UseFlow, TypeOK, AcceptedSpent, Progress
<1>4. CheckedFits'
  BY <1>1 DEF UseFlow, TypeOK, CheckedFits, Progress
<1>5. Progress'
  BY <1>1 DEF UseFlow, TypeOK, Progress, FlowsSpent, CheckedFits
<1>6. FlowsSpent'
  <2> DEFINE w == waits[q]
  <2>1. /\ w \in Requests /\ flow[w] # "none" /\ step[w] = "flow" /\ w # q
        /\ flow' = [flow EXCEPT ![w] = "closed"]
        /\ q \notin sessions
    BY DEF UseFlow, TypeOK, Progress, FlowsSpent
  <2>2. \A p \in Requests : step[p] = "flow" => step'[p] = "flow"
    BY DEF UseFlow, TypeOK
  <2>3. /\ Granted' \subseteq Granted \cup {q}
        /\ q \in Granted' => flow[w] = "open"
    BY <2>1 DEF UseFlow, TypeOK, Granted
  <2>4. \A p \in Granted : flow[waits[p]] = "closed" /\ waits[p] \in Requests
    <3> SUFFICES ASSUME NEW p \in Granted
                 PROVE  flow[waits[p]] = "closed" /\ waits[p] \in Requests
      OBVIOUS
    <3>1. p \in Requests /\ op[p] = "verify"
      BY DEF Granted
    <3>2. waits[p] # None /\ waits[p] \in Requests \cup {None}
      BY <3>1 DEF Progress, TypeOK
    <3>3. flow[waits[p]] = "closed"
      BY DEF FlowsSpent
    <3>4. QED
      BY <3>2, <3>3
  <2>5. waits' = waits
    BY DEF UseFlow
  <2>6. \A p \in Granted' : flow'[waits'[p]] = "closed" /\ step'[waits'[p]] = "flow"
    BY <2>1, <2>2, <2>3, <2>4, <2>5 DEF TypeOK, FlowsSpent
  <2>7. \A p, r \in Granted' : waits'[p] = waits'[r] => p = r
    BY <2>1, <2>3, <2>4, <2>5 DEF FlowsSpent
  <2>8. \A p \in Requests : flow'[p] # "none" => step'[p] = "flow"
    BY <2>1, <2>2 DEF TypeOK, FlowsSpent
  <2>9. QED
    BY <2>6, <2>7, <2>8 DEF FlowsSpent
<1>7. CodeUsedOnce'
  BY <1>1 DEF UseFlow, TypeOK, CodeUsedOnce, Progress
<1>8. ConfirmedWasProved'
  BY <1>1 DEF UseFlow, TypeOK, ConfirmedWasProved, Progress
<1>9. QED
  BY <1>1, <1>2, <1>3, <1>4, <1>5, <1>6, <1>7, <1>8

\* A session is issued.
LEMMA IssueSessionStep ==
  ASSUME FactorInv, NEW q \in Requests,
         IssueSession(q)
  PROVE  FactorInv'
<1> USE DEF FactorInv
<1>1. TypeOK'
  BY DEF IssueSession, TypeOK
<1>2. RowIssued'
  BY <1>1 DEF IssueSession, TypeOK, RowIssued
<1>3. AcceptedSpent'
  BY <1>1 DEF IssueSession, TypeOK, AcceptedSpent, Progress
<1>4. CheckedFits'
  BY <1>1 DEF IssueSession, TypeOK, CheckedFits, Progress
<1>5. Progress'
  BY <1>1 DEF IssueSession, TypeOK, Progress, FlowsSpent, CheckedFits
<1>6. FlowsSpent'
  BY <1>1 DEF IssueSession, TypeOK, FlowsSpent, Granted, Progress
<1>7. CodeUsedOnce'
  BY <1>1 DEF IssueSession, TypeOK, CodeUsedOnce, Progress
<1>8. ConfirmedWasProved'
  BY <1>1 DEF IssueSession, TypeOK, ConfirmedWasProved, Progress
<1>9. QED
  BY <1>1, <1>2, <1>3, <1>4, <1>5, <1>6, <1>7, <1>8

\* The row is deleted.
LEMMA DisableStep ==
  ASSUME FactorInv, NEW q \in Requests,
         Disable(q)
  PROVE  FactorInv'
<1> USE DEF FactorInv
<1>1. TypeOK'
  BY DEF Disable, TypeOK
<1>2. RowIssued'
  BY <1>1 DEF Disable, TypeOK, RowIssued
<1>3. AcceptedSpent'
  BY <1>1 DEF Disable, TypeOK, AcceptedSpent, Progress
<1>4. CheckedFits'
  BY <1>1 DEF Disable, TypeOK, CheckedFits, Progress
<1>5. Progress'
  BY <1>1 DEF Disable, TypeOK, Progress, FlowsSpent, CheckedFits
<1>6. FlowsSpent'
  BY <1>1 DEF Disable, TypeOK, FlowsSpent, Granted, Progress
<1>7. CodeUsedOnce'
  BY <1>1 DEF Disable, TypeOK, CodeUsedOnce, Progress
<1>8. ConfirmedWasProved'
  BY <1>1 DEF Disable, TypeOK, ConfirmedWasProved, Progress
<1>9. QED
  BY <1>1, <1>2, <1>3, <1>4, <1>5, <1>6, <1>7, <1>8

-----------------------------------------------------------------------------

\* The initial states satisfy the invariant.
LEMMA InitFactor == Init => FactorInv
  BY DEF Init, FactorInv, TypeOK, RowIssued, AcceptedSpent, CheckedFits, Progress,
     FlowsSpent, Granted, CodeUsedOnce, ConfirmedWasProved

\* Every step preserves the invariant.
LEMMA NextFactor == FactorInv /\ [Next]_vars => FactorInv'
<1> SUFFICES ASSUME FactorInv, [Next]_vars PROVE FactorInv'
  OBVIOUS
<1>1. CASE Tick
  BY <1>1, TickStep
<1>2. CASE \E q \in Requests : Handle(q) \/ FlowExpires(q)
  BY <1>2, EnrollLoadStep, LoginLoadStep, LoginFlowStep, LoginDirectStep, ConsumeStep,
     OvertakenStep, UseFlowStep, IssueSessionStep, DisableStep, FlowExpiresStep DEF Handle
<1>3. CASE \E q \in Requests, s \in Secrets : EnrollSave(q, s)
  BY <1>3, EnrollSaveStep
<1>4. CASE \E q, p \in Requests : VerifyEnter(q, p)
  BY <1>4, VerifyEnterStep
<1>5. CASE \E q \in Requests, o \in {"verify", "confirm", "disable"}, c \in Submitted :
             CheckCode(q, o, c)
  BY <1>5, CheckCodeStep
<1>6. CASE UNCHANGED vars
  BY <1>6 DEF vars, FactorInv, TypeOK, RowIssued, AcceptedSpent, CheckedFits, Progress,
     FlowsSpent, Granted, CodeUsedOnce, ConfirmedWasProved
<1>7. QED
  BY <1>1, <1>2, <1>3, <1>4, <1>5, <1>6 DEF Next

\* FactorInv holds in every reachable state.
THEOREM FactorInvariance == Spec => []FactorInv
  BY InitFactor, NextFactor, PTL DEF Spec

\* No authenticator or recovery code is accepted twice (consume_mfa_snapshot).
THEOREM CodesAreOneTime == Spec => []CodeUsedOnce
<1>1. FactorInv => CodeUsedOnce
  BY DEF FactorInv
<1>2. QED
  BY <1>1, FactorInvariance, PTL

\* A secret that nobody presented a code of never becomes the second factor.
THEOREM ConfirmedByCode == Spec => []ConfirmedWasProved
<1>1. FactorInv => ConfirmedWasProved
  BY DEF FactorInv
<1>2. QED
  BY <1>1, FactorInvariance, PTL

\* A login flow yields at most one session (consume_login_flow).
THEOREM FlowsAreOneTime == Spec => []OneSessionPerFlow
<1>1. FactorInv => OneSessionPerFlow
  BY DEF FactorInv, TypeOK, FlowsSpent, Granted, Progress, OneSessionPerFlow
<1>2. QED
  BY <1>1, FactorInvariance, PTL

-----------------------------------------------------------------------------
(* The action property.                                                     *)

\* One step of a row whose secret stays: only consuming a code changes it.
LEMMA FactorStep ==
  ASSUME FactorInv, [Next]_vars, row.secret # None, row'.secret = row.secret
  PROVE  /\ row'.last_counter >= row.last_counter
         /\ row'.recovery \subseteq row.recovery
         /\ row.confirmed => row'.confirmed
<1> DEFINE Advanced == /\ row'.last_counter >= row.last_counter
                       /\ row'.recovery \subseteq row.recovery
                       /\ row.confirmed => row'.confirmed
<1>1. row \in Row
  BY DEF FactorInv, TypeOK
<1>2. row' = row => Advanced
  BY <1>1
<1>3. ASSUME NEW q \in Requests, Consume(q) PROVE Advanced
  <2>1. row = snap[q] /\ row' = Consumed(q)
    BY <1>3 DEF Consume, Current
  <2>2. code[q].kind = "totp" =>
           row' = [row EXCEPT !.last_counter = code[q].n, !.confirmed = TRUE]
    BY <2>1 DEF Consumed
  <2>3. code[q].kind # "totp" => row' = [row EXCEPT !.recovery = @ \ {code[q].slot}]
    BY <2>1 DEF Consumed
  <2>4. /\ code[q] \in Totp \cup Recovery
        /\ code[q].kind = "totp" => code[q].n \in Nat /\ code[q].n > row.last_counter
    BY <1>3, <2>1 DEF FactorInv, CheckedFits, Consume
  <2>5. CASE code[q].kind = "totp"
    <3>1. /\ row'.last_counter = code[q].n /\ row'.recovery = row.recovery
          /\ row'.confirmed
      BY <1>1, <2>2, <2>5
    <3>2. row'.last_counter >= row.last_counter
      BY <1>1, <2>4, <2>5, <3>1
    <3>3. QED
      BY <3>1, <3>2
  <2>6. CASE code[q].kind # "totp"
    BY <1>1, <2>3, <2>6
  <2>7. QED
    BY <2>5, <2>6
<1>4. ASSUME NEW q \in Requests, Disable(q) PROVE FALSE
  BY <1>4 DEF Disable
<1>5. ASSUME NEW q \in Requests, NEW s \in Secrets, EnrollSave(q, s) PROVE FALSE
  BY <1>5 DEF EnrollSave, FactorInv, RowIssued
<1>6. CASE Tick
  BY <1>2, <1>6 DEF Tick
<1>7. CASE \E q \in Requests : Handle(q) \/ FlowExpires(q)
  BY <1>2, <1>3, <1>4, <1>7 DEF Handle, EnrollLoad, LoginLoad, LoginFlow, LoginDirect, Overtaken,
     UseFlow, IssueSession, FlowExpires
<1>8. CASE \E q, p \in Requests : VerifyEnter(q, p)
  BY <1>2, <1>8 DEF VerifyEnter
<1>9. CASE \E q \in Requests, o \in {"verify", "confirm", "disable"}, c \in Submitted :
             CheckCode(q, o, c)
  BY <1>2, <1>9 DEF CheckCode
<1>10. CASE UNCHANGED vars
  BY <1>2, <1>10 DEF vars
<1>11. QED
  BY <1>5, <1>6, <1>7, <1>8, <1>9, <1>10 DEF Next

\* A replayed counter or a used recovery code never comes back while the secret
\* stays, and the second factor is never switched off behind its user's back
\* (consume_mfa_snapshot, save_mfa).
THEOREM FactorNeverSlips == Spec => FactorOnlyAdvances
<1>1. FactorInv /\ [Next]_vars =>
         [row.secret # None /\ row'.secret = row.secret =>
             /\ row'.last_counter >= row.last_counter
             /\ row'.recovery \subseteq row.recovery
             /\ row.confirmed => row'.confirmed]_vars
  BY FactorStep
<1>2. QED
  BY <1>1, FactorInvariance, PTL DEF Spec, FactorOnlyAdvances

=============================================================================
