---------------------------- MODULE SecondFactor ----------------------------
(***************************************************************************)
(* The second factor of one account: the user_mfa row and the login flows  *)
(* that wait for a code, under concurrent requests.  Enrolling, confirming,*)
(* signing in and disabling all load the row, check a code against the     *)
(* copy and write back in a later transaction.                             *)
(***************************************************************************)
EXTENDS Integers

CONSTANTS Requests,  \* HTTP requests, each of which is made at most once
          Secrets,   \* TOTP secrets an enrolment may draw
          Slots,     \* the recovery codes that come with a secret
          None,      \* no secret, no flow
          MaxNow     \* bound of the clock

ASSUME FactorAssumption ==
    /\ None \notin Secrets \cup Requests
    /\ MaxNow \in Nat

VARIABLES
    now,       \* the TOTP counter of the present moment
    row,       \* the user_mfa row
    issued,    \* secrets drawn so far
    flow,      \* login request -> its MFA login flow
    step,      \* request -> where its handler is
    op,        \* request -> which handler
    waits,     \* request -> the login flow it presents
    snap,      \* request -> the row it loaded
    code,      \* request -> the code it submits
    accepted,  \* history: requests whose code was consumed
    sessions   \* requests that were given a session

vars == <<now, row, issued, flow, step, op, waits, snap, code, accepted, sessions>>

-----------------------------------------------------------------------------

Ops   == {"none", "enroll", "confirm", "login", "verify", "disable"}
Steps == {"idle", "loaded", "flow", "entered", "checked", "accepted",
          "granted", "done"}

\* secret None stands for no row.
Row == [secret : Secrets \cup {None}, confirmed : BOOLEAN, last_counter : Nat,
        recovery : SUBSET Slots]

NoRow == [secret |-> None, confirmed |-> FALSE, last_counter |-> 0, recovery |-> {}]

\* Codes of different secrets or counters are taken to be different.
Totp     == [kind : {"totp"}, secret : Secrets, n : Nat]
Recovery == [kind : {"recovery"}, secret : Secrets, slot : Slots]
NoCode   == [kind |-> "none"]

TypeOK ==
    /\ now \in Nat \ {0}
    /\ row \in Row
    /\ issued \subseteq Secrets
    /\ flow \in [Requests -> {"none", "open", "closed"}]
    /\ step \in [Requests -> Steps]
    /\ op \in [Requests -> Ops]
    /\ waits \in [Requests -> Requests \cup {None}]
    /\ snap \in [Requests -> Row]
    /\ code \in [Requests -> Totp \cup Recovery \cup {NoCode}]
    /\ accepted \subseteq Requests
    /\ sessions \subseteq Requests

Init ==
    /\ now = 1
    /\ row = NoRow
    /\ issued = {}
    /\ flow = [q \in Requests |-> "none"]
    /\ step = [q \in Requests |-> "idle"]
    /\ op = [q \in Requests |-> "none"]
    /\ waits = [q \in Requests |-> None]
    /\ snap = [q \in Requests |-> NoRow]
    /\ code = [q \in Requests |-> NoCode]
    /\ accepted = {} /\ sessions = {}

Goto(q, s)  == step' = [step EXCEPT ![q] = s]
Enter(q, o) == step[q] = "idle" /\ op' = [op EXCEPT ![q] = o]

Tick ==
    /\ now < MaxNow
    /\ now' = now + 1
    /\ UNCHANGED <<row, issued, flow, step, op, waits, snap, code, accepted, sessions>>

-----------------------------------------------------------------------------
(* Enrolment.                                                               *)

\* enroll_mfa looks at the row; a confirmed one is answered 409.
EnrollLoad(q) ==
    /\ Enter(q, "enroll")
    /\ Goto(q, IF row.confirmed THEN "done" ELSE "loaded")
    /\ UNCHANGED <<now, row, issued, flow, waits, snap, code, accepted, sessions>>

\* Mutant: the secret of an earlier enrolment is drawn again.
EnrollSaveMutant(q, s) ==
    /\ step[q] = "loaded" /\ op[q] = "enroll"
    /\ row' = [secret |-> s, confirmed |-> FALSE, last_counter |-> 0, recovery |-> Slots]
    /\ issued' = issued \cup {s}
    /\ Goto(q, "done")
    /\ UNCHANGED <<now, flow, op, waits, snap, code, accepted, sessions>>

\* save_mfa: an upsert, whatever the row is by now.
EnrollSave(q, s) ==
    /\ step[q] = "loaded" /\ op[q] = "enroll"
    /\ s \notin issued
    /\ row' = [secret |-> s, confirmed |-> FALSE, last_counter |-> 0, recovery |-> Slots]
    /\ issued' = issued \cup {s}
    /\ Goto(q, "done")
    /\ UNCHANGED <<now, flow, op, waits, snap, code, accepted, sessions>>

-----------------------------------------------------------------------------
(* Signing in.                                                              *)

\* _complete_login, the first factor being settled, loads the row...
LoginLoad(q) ==
    /\ Enter(q, "login")
    /\ Goto(q, "loaded")
    /\ snap' = [snap EXCEPT ![q] = row]
    /\ UNCHANGED <<now, row, issued, flow, waits, code, accepted, sessions>>

\* ...and starts a flow if the second factor is on...
LoginFlow(q) ==
    /\ step[q] = "loaded" /\ op[q] = "login" /\ snap[q].confirmed
    /\ flow' = [flow EXCEPT ![q] = "open"]
    /\ Goto(q, "flow")
    /\ UNCHANGED <<now, row, issued, op, waits, snap, code, accepted, sessions>>

\* ...or issues the session.
LoginDirect(q) ==
    /\ step[q] = "loaded" /\ op[q] = "login" /\ ~snap[q].confirmed
    /\ sessions' = sessions \cup {q}
    /\ Goto(q, "done")
    /\ UNCHANGED <<now, row, issued, flow, op, waits, snap, code, accepted>>

\* The flow is past expires_at; cleanup_expired may have deleted it.
FlowExpires(q) ==
    /\ flow[q] = "open"
    /\ flow' = [flow EXCEPT ![q] = "closed"]
    /\ UNCHANGED <<now, row, issued, step, op, waits, snap, code, accepted, sessions>>

\* verify_mfa_login with the token of login request p: load_flow.
VerifyEnter(q, p) ==
    /\ Enter(q, "verify")
    /\ flow[p] = "open"
    /\ waits' = [waits EXCEPT ![q] = p]
    /\ Goto(q, "entered")
    /\ UNCHANGED <<now, row, issued, flow, snap, code, accepted, sessions>>

-----------------------------------------------------------------------------
(* Checking and consuming a code: _accept_mfa_code and confirm_mfa.         *)

\* Mutant: a counter that was used is accepted again.
MatchesMutant(r, c) ==
    /\ c.secret = r.secret
    /\ \/ c.kind = "totp" /\ c.n \in (now - 1) .. (now + 1) /\ c.n >= r.last_counter
       \/ c.kind = "recovery" /\ c.slot \in r.recovery

\* totp.verify with a tolerance of one step either way, or a recovery code
\* that is left.
Matches(r, c) ==
    /\ c.secret = r.secret
    /\ \/ c.kind = "totp" /\ c.n \in (now - 1) .. (now + 1) /\ c.n > r.last_counter
       \/ c.kind = "recovery" /\ c.slot \in r.recovery

\* The row is loaded and the code c checked against it.  Confirming takes an
\* authenticator code and an unconfirmed row, the others a confirmed one;
\* whatever does not match is refused.
CheckCode(q, o, c) ==
    /\ \/ o = "verify" /\ step[q] = "entered" /\ UNCHANGED op
       \/ o \in {"confirm", "disable"} /\ Enter(q, o)
    /\ snap' = [snap EXCEPT ![q] = row]
    /\ code' = [code EXCEPT ![q] = c]
    /\ Goto(q, IF /\ row.secret # None
                  /\ row.confirmed <=> o # "confirm"
                  /\ o = "confirm" => c.kind = "totp"
                  /\ Matches(row, c)
               THEN "checked" ELSE "done")
    /\ UNCHANGED <<now, row, issued, flow, waits, accepted, sessions>>

\* Mutant: the secret of the copy is not compared.
CurrentMutant(q) ==
    [row EXCEPT !.secret = snap[q].secret] = snap[q]

\* The WHERE clause of consume_mfa_snapshot: the row is the verified copy.
Current(q) == row = snap[q]

\* The counter moves to the code's, or the recovery code is struck off.
Consumed(q) ==
    IF code[q].kind = "totp"
    THEN [row EXCEPT !.last_counter = code[q].n, !.confirmed = TRUE]
    ELSE [row EXCEPT !.recovery = @ \ {code[q].slot}]

Consume(q) ==
    /\ step[q] = "checked" /\ Current(q)
    /\ row' = Consumed(q)
    /\ accepted' = accepted \cup {q}
    /\ Goto(q, IF op[q] = "confirm" THEN "done" ELSE "accepted")
    /\ UNCHANGED <<now, issued, flow, op, waits, snap, code, sessions>>

\* No row matched: 401 or 409.
Overtaken(q) ==
    /\ step[q] = "checked" /\ ~Current(q)
    /\ Goto(q, "done")
    /\ UNCHANGED <<now, row, issued, flow, op, waits, snap, code, accepted, sessions>>

\* Mutant: the flow was loaded before, so it is not looked at again.
UseFlowMutant(q) ==
    /\ step[q] = "accepted" /\ op[q] = "verify"
    /\ flow' = [flow EXCEPT ![waits[q]] = "closed"]
    /\ Goto(q, "granted")
    /\ UNCHANGED <<now, row, issued, op, waits, snap, code, accepted, sessions>>

\* consume_flow: one conditional UPDATE; a flow that is gone is answered 401.
UseFlow(q) ==
    /\ step[q] = "accepted" /\ op[q] = "verify"
    /\ flow' = [flow EXCEPT ![waits[q]] = "closed"]
    /\ Goto(q, IF flow[waits[q]] = "open" THEN "granted" ELSE "done")
    /\ UNCHANGED <<now, row, issued, op, waits, snap, code, accepted, sessions>>

IssueSession(q) ==
    /\ step[q] = "granted"
    /\ sessions' = sessions \cup {q}
    /\ Goto(q, "done")
    /\ UNCHANGED <<now, row, issued, flow, op, waits, snap, code, accepted>>

\* delete_mfa, whatever the row is by now.
Disable(q) ==
    /\ step[q] = "accepted" /\ op[q] = "disable"
    /\ row' = NoRow
    /\ Goto(q, "done")
    /\ UNCHANGED <<now, issued, flow, op, waits, snap, code, accepted, sessions>>

-----------------------------------------------------------------------------

Handle(q) ==
    \/ EnrollLoad(q) \/ LoginLoad(q) \/ LoginFlow(q) \/ LoginDirect(q)
    \/ Consume(q) \/ Overtaken(q) \/ UseFlow(q) \/ IssueSession(q) \/ Disable(q)

\* A code is worth submitting while it is in the window of the present.
Submitted == [kind : {"totp"}, secret : issued, n : now - 1 .. now + 1]
             \cup [kind : {"recovery"}, secret : issued, slot : Slots]

Next ==
    \/ Tick
    \/ \E q \in Requests : Handle(q) \/ FlowExpires(q)
    \/ \E q \in Requests, s \in Secrets : EnrollSave(q, s)
    \/ \E q, p \in Requests : VerifyEnter(q, p)
    \/ \E q \in Requests, o \in {"verify", "confirm", "disable"}, c \in Submitted :
          CheckCode(q, o, c)

Spec == Init /\ [][Next]_vars

-----------------------------------------------------------------------------
(* Safety.                                                                  *)

\* An authenticator code or a recovery code is accepted once, however many
\* requests have checked it against the same copy of the row.
CodeUsedOnce ==
    \A p, q \in accepted : code[p] = code[q] => p = q

\* A second factor is on only if a code of that very secret was presented to
\* confirm it: a secret nobody has set up would lock the account.
ConfirmedWasProved ==
    row.confirmed =>
        \E q \in accepted : op[q] = "confirm" /\ code[q].secret = row.secret

\* A login flow gives at most one session, and each for a code of its own.
OneSessionPerFlow ==
    \A p, q \in sessions :
        op[p] = "verify" /\ op[q] = "verify" =>
           /\ waits[p] = waits[q] => p = q
           /\ p \in accepted

\* As long as the secret stays, counter and recovery codes are never given
\* back and the second factor stays on.
FactorOnlyAdvances ==
    [][row.secret # None /\ row'.secret = row.secret =>
          /\ row'.last_counter >= row.last_counter
          /\ row'.recovery \subseteq row.recovery
          /\ row.confirmed => row'.confirmed]_vars

-----------------------------------------------------------------------------
(* The inductive invariant.                                                 *)

\* The row knows every code of its secret that was accepted.
AcceptedSpent ==
    \A q \in accepted :
        /\ code[q] \in Totp \cup Recovery
        /\ code[q].secret \in issued
        /\ code[q].secret = row.secret =>
             /\ code[q].kind = "totp" => code[q].n <= row.last_counter
             /\ code[q].kind = "recovery" => code[q].slot \notin row.recovery

\* A checked code was unspent in the copy it was checked against.
CheckedFits ==
    \A q \in Requests :
        step[q] = "checked" =>
           /\ op[q] \in {"verify", "confirm", "disable"}
           /\ code[q] \in Totp \cup Recovery
           /\ snap[q].secret = code[q].secret
           /\ op[q] # "confirm" => snap[q].confirmed
           /\ op[q] = "confirm" => code[q].kind = "totp"
           /\ code[q].kind = "totp" => code[q].n > snap[q].last_counter
           /\ code[q].kind = "recovery" => code[q].slot \in snap[q].recovery

RowIssued ==
    /\ row.secret = None => row = NoRow
    /\ row.secret # None => row.secret \in issued

\* Where a request is says what it has done.
Progress ==
    \A q \in Requests :
        /\ q \in accepted => step[q] \in {"accepted", "granted", "done"}
        /\ step[q] \in {"accepted", "granted"} => q \in accepted
        /\ step[q] \in {"entered", "granted"} => op[q] = "verify"
        /\ q \in sessions => step[q] = "done"
        /\ q \in sessions /\ op[q] = "verify" => q \in accepted
        /\ op[q] = "verify" => waits[q] # None /\ flow[waits[q]] # "none"

\* The requests that have consumed their flow.
Granted == {q \in Requests : op[q] = "verify" /\ (step[q] = "granted" \/ q \in sessions)}

FlowsSpent ==
    /\ \A q \in Granted : flow[waits[q]] = "closed" /\ step[waits[q]] = "flow"
    /\ \A p, q \in Granted : waits[p] = waits[q] => p = q
    /\ \A q \in Requests : flow[q] # "none" => step[q] = "flow"

FactorInv ==
    /\ TypeOK
    /\ RowIssued /\ AcceptedSpent /\ CheckedFits /\ Progress /\ FlowsSpent
    /\ CodeUsedOnce /\ ConfirmedWasProved

=============================================================================
