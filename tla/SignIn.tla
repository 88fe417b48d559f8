------------------------------- MODULE SignIn -------------------------------
(***************************************************************************)
(* Signing in without a password: one-time codes sent to an address, and   *)
(* log-ins at an identity provider.  Both end in a proved subject, which   *)
(* is resolved to its account, or signed up, and given a session.          *)
(***************************************************************************)
EXTENDS Naturals, FiniteSets

CONSTANTS Requests,
          Addresses,    \* e-mail addresses and phone numbers
          Social,       \* subjects of Google and GitHub
          Enterprise,   \* subjects of the configured OIDC provider or directory
          Challenges,   \* rows of auth_challenges, drawn in any order
          Flows,        \* rows of login_flows
          Accounts,     \* accounts that may be signed up
          MaxAttempts,  \* 5
          SendLimit,    \* SEND_ADDRESS.max_hits
          None

Subjects == Addresses \cup Social \cup Enterprise

VARIABLES
    challenge,  \* row -> address, delivered, open, attempts
    cooling,    \* addresses whose auth_delivery_guards row is younger than the cooldown
    hits,       \* address -> hits of the current auth_rate_limits window
    flow,       \* log-in at a provider -> state of its login_flows row
    binding,    \* identity_bindings: subject -> account
    taken,      \* subjects whose user name belongs to another account
    active,     \* account -> may sign in
    req,        \* request -> where its handler is
    session,    \* request -> account it was signed in to
    guesses,    \* history: challenge -> comparisons made
    newest,     \* history: address -> challenge reserved last
    sent        \* history: address -> codes let through in the current window

vars == <<challenge, cooling, hits, flow, binding, taken, active, req, session,
          guesses, newest, sent>>

NoRow == [address |-> None, delivered |-> FALSE, open |-> FALSE, attempts |-> 0]
Idle  == [at |-> "idle", row |-> None, subject |-> None, account |-> None]

Init ==
    /\ challenge = [c \in Challenges |-> NoRow]
    /\ cooling = {} /\ hits = [a \in Addresses |-> 0] /\ sent = [a \in Addresses |-> 0]
    /\ flow = [f \in Flows |-> "none"]
    /\ binding = [s \in Subjects |-> None] /\ taken = {}
    /\ active = [u \in Accounts |-> TRUE]
    /\ req = [q \in Requests |-> Idle]
    /\ session = [q \in Requests |-> None]
    /\ guesses = [c \in Challenges |-> 0]
    /\ newest = [a \in Addresses |-> None]

Row == [address : Addresses \cup {None}, delivered : BOOLEAN, open : BOOLEAN,
        attempts : 0 .. MaxAttempts]
Request == [at : {"idle", "reserved", "sending", "accepted", "failed", "proved", "signup",
                  "known", "done"},
            row : Challenges \cup Flows \cup {None}, subject : Subjects \cup {None},
            account : Accounts \cup {None}]

TypeOK ==
    /\ challenge \in [Challenges -> Row]
    /\ cooling \subseteq Addresses /\ taken \subseteq Subjects
    /\ hits \in [Addresses -> 0 .. SendLimit + 1] /\ sent \in [Addresses -> Nat]
    /\ flow \in [Flows -> {"none", "open", "used"}]
    /\ binding \in [Subjects -> Accounts \cup {None}]
    /\ active \in [Accounts -> BOOLEAN]
    /\ req \in [Requests -> Request]
    /\ session \in [Requests -> Accounts \cup {None}]
    /\ guesses \in [Challenges -> Nat]
    /\ newest \in [Addresses -> Challenges \cup {None}]

Goto(q, at) == req' = [req EXCEPT ![q].at = at]
Done(q)     == req' = [req EXCEPT ![q] = [Idle EXCEPT !.at = "done"]]

-----------------------------------------------------------------------------
(* Sending a code: request_challenge.                                       *)

\* Mutant: earlier challenges stay open.
ReserveMutant(q, c, a) ==
    /\ req[q].at = "idle" /\ challenge[c] = NoRow /\ a \notin cooling
    /\ cooling' = cooling \cup {a}
    /\ challenge' = [challenge EXCEPT ![c] = [NoRow EXCEPT !.address = a, !.open = TRUE]]
    /\ newest' = [newest EXCEPT ![a] = c]
    /\ req' = [req EXCEPT ![q] = [@ EXCEPT !.at = "reserved", !.row = c]]
    /\ UNCHANGED <<hits, flow, binding, taken, active, session, guesses, sent>>

\* reserve: outside the cooldown, the row of the guard, the end of every
\* earlier challenge of the address and the new one in one transaction.
Reserve(q, c, a) ==
    /\ req[q].at = "idle" /\ challenge[c] = NoRow /\ a \notin cooling
    /\ cooling' = cooling \cup {a}
    /\ challenge' = [d \in Challenges |->
          IF d = c THEN [NoRow EXCEPT !.address = a, !.open = TRUE]
          ELSE IF challenge[d].address = a THEN [challenge[d] EXCEPT !.open = FALSE]
          ELSE challenge[d]]
    /\ newest' = [newest EXCEPT ![a] = c]
    /\ req' = [req EXCEPT ![q] = [@ EXCEPT !.at = "reserved", !.row = c]]
    /\ UNCHANGED <<hits, flow, binding, taken, active, session, guesses, sent>>

\* consume_limit: one atomic upsert, capped one above the limit.
Count(q) ==
    /\ req[q].at = "reserved"
    /\ LET a == challenge[req[q].row].address
       IN  /\ hits' = [hits EXCEPT ![a] = IF @ <= SendLimit THEN @ + 1 ELSE @]
           /\ sent' = IF hits'[a] <= SendLimit THEN [sent EXCEPT ![a] = @ + 1] ELSE sent
           /\ Goto(q, IF hits'[a] <= SendLimit THEN "sending" ELSE "failed")
    /\ UNCHANGED <<challenge, cooling, flow, binding, taken, active, session, guesses, newest>>

\* auth_delivery.send: the provider takes the message or does not.
Send(q, ok) ==
    /\ req[q].at = "sending"
    /\ Goto(q, IF ok THEN "accepted" ELSE "failed")
    /\ UNCHANGED <<challenge, cooling, hits, flow, binding, taken, active, session, guesses, newest, sent>>

\* mark_delivery: by challenge_id, whatever has become of the row.
MarkDelivery(q) ==
    /\ req[q].at \in {"accepted", "failed"}
    /\ challenge' = IF req[q].at = "accepted"
                    THEN [challenge EXCEPT ![req[q].row].delivered = TRUE]
                    ELSE [challenge EXCEPT ![req[q].row].open = FALSE]
    /\ Done(q)
    /\ UNCHANGED <<cooling, hits, flow, binding, taken, active, session, guesses, newest, sent>>

CooldownEnds(a) ==
    /\ a \in cooling
    /\ cooling' = cooling \ {a}
    /\ UNCHANGED <<challenge, hits, flow, binding, taken, active, req, session, guesses, newest, sent>>

\* The window is over: the next hit starts a new one.
WindowEnds(a) ==
    /\ hits[a] > 0
    /\ hits' = [hits EXCEPT ![a] = 0] /\ sent' = [sent EXCEPT ![a] = 0]
    /\ UNCHANGED <<challenge, cooling, flow, binding, taken, active, req, session, guesses, newest>>

CodeExpires(c) ==
    /\ challenge[c].open
    /\ challenge' = [challenge EXCEPT ![c].open = FALSE]
    /\ UNCHANGED <<cooling, hits, flow, binding, taken, active, req, session, guesses, newest, sent>>

-----------------------------------------------------------------------------
(* Proving a subject.                                                       *)

\* A code is compared while it is open, delivered and not out of attempts.
Usable(row) == row.open /\ row.delivered /\ row.attempts < MaxAttempts

\* verify: the attempt is counted before the code is compared; a right code
\* closes the row in the same transaction.
Verify(q, c, right) ==
    /\ req[q].at = "idle" /\ Usable(challenge[c])
    /\ challenge' = [challenge EXCEPT ![c].attempts = IF @ < MaxAttempts THEN @ + 1 ELSE @,
                                      ![c].open = ~right]
    /\ guesses' = [guesses EXCEPT ![c] = @ + 1]
    /\ req' = [req EXCEPT ![q] = IF right THEN [@ EXCEPT !.at = "proved", !.row = c,
                                                         !.subject = challenge[c].address]
                                          ELSE [@ EXCEPT !.at = "done"]]
    /\ UNCHANGED <<cooling, hits, flow, binding, taken, active, session, newest, sent>>

\* start, start_oidc: a flow is stored and its state set as a cookie.
FlowStart(f) ==
    /\ flow[f] = "none"
    /\ flow' = [flow EXCEPT ![f] = "open"]
    /\ UNCHANGED <<challenge, cooling, hits, binding, taken, active, req, session, guesses, newest, sent>>

FlowExpires(f) ==
    /\ flow[f] = "open"
    /\ flow' = [flow EXCEPT ![f] = "used"]
    /\ UNCHANGED <<challenge, cooling, hits, binding, taken, active, req, session, guesses, newest, sent>>

\* Mutant: a used flow is accepted.
CallbackMutant(q, f, s) ==
    /\ req[q].at = "idle" /\ flow[f] # "none"
    /\ flow' = [flow EXCEPT ![f] = "used"]
    /\ req' = [req EXCEPT ![q] = [@ EXCEPT !.at = IF s = None THEN "done" ELSE "proved",
                                           !.row = f, !.subject = s]]
    /\ UNCHANGED <<challenge, cooling, hits, binding, taken, active, session, guesses, newest, sent>>

\* complete, complete_oidc with the cookie of flow f: the flow is consumed
\* before anything else; the provider's answer proves s or nothing.
Callback(q, f, s) ==
    /\ req[q].at = "idle" /\ flow[f] = "open"
    /\ flow' = [flow EXCEPT ![f] = "used"]
    /\ req' = [req EXCEPT ![q] = [@ EXCEPT !.at = IF s = None THEN "done" ELSE "proved",
                                           !.row = f, !.subject = s]]
    /\ UNCHANGED <<challenge, cooling, hits, binding, taken, active, session, guesses, newest, sent>>

\* _directory_login: the directory vouches for the subject.
DirectoryLogin(q, s) ==
    /\ req[q].at = "idle"
    /\ req' = [req EXCEPT ![q] = [@ EXCEPT !.at = "proved", !.subject = s]]
    /\ UNCHANGED <<challenge, cooling, hits, flow, binding, taken, active, session, guesses, newest, sent>>

-----------------------------------------------------------------------------
(* From the subject to the account.                                         *)

\* verified_user, _provision_federated_user: the bound account if it is active;
\* a subject without binding is refused if its name exists.
Lookup(q) ==
    /\ req[q].at = "proved"
    /\ LET u == binding[req[q].subject]
       IN  IF u # None /\ active[u]
           THEN req' = [req EXCEPT ![q].at = "known", ![q].account = u]
           ELSE Goto(q, IF u = None /\ req[q].subject \notin taken THEN "signup" ELSE "done")
    /\ UNCHANGED <<challenge, cooling, hits, flow, binding, taken, active, session, guesses, newest, sent>>

\* The accounts that have been created are the bound ones.
Unused(u) == \A s \in Subjects : binding[s] # u

\* Account, membership and binding are one transaction.
SignUp(q, u) ==
    /\ req[q].at = "signup" /\ binding[req[q].subject] = None /\ Unused(u)
    /\ binding' = [binding EXCEPT ![req[q].subject] = u]
    /\ req' = [req EXCEPT ![q].at = "known", ![q].account = u]
    /\ UNCHANGED <<challenge, cooling, hits, flow, taken, active, session, guesses, newest, sent>>

\* The unique binding refuses the second of two: rolled back, it takes the
\* account of the first if that is active; an enterprise log-in answers 409.
SignUpLost(q) ==
    /\ req[q].at = "signup" /\ binding[req[q].subject] # None
    /\ LET u == binding[req[q].subject]
       IN  IF req[q].subject \notin Enterprise /\ active[u]
           THEN req' = [req EXCEPT ![q].at = "known", ![q].account = u]
           ELSE Goto(q, "done")
    /\ UNCHANGED <<challenge, cooling, hits, flow, binding, taken, active, session, guesses, newest, sent>>

\* _complete_login without a second factor.
Complete(q) ==
    /\ req[q].at = "known"
    /\ session' = [session EXCEPT ![q] = req[q].account]
    /\ Goto(q, "done")
    /\ UNCHANGED <<challenge, cooling, hits, flow, binding, taken, active, guesses, newest, sent>>

\* register_personal or create_member with the subject's user name.
TakeName(s) ==
    /\ s \notin taken
    /\ taken' = taken \cup {s}
    /\ UNCHANGED <<challenge, cooling, hits, flow, binding, active, req, session, guesses, newest, sent>>

Deactivate(u) ==
    /\ active[u] /\ ~Unused(u)
    /\ active' = [active EXCEPT ![u] = FALSE]
    /\ UNCHANGED <<challenge, cooling, hits, flow, binding, taken, req, session, guesses, newest, sent>>

Next ==
    \/ \E q \in Requests :
         \/ \E c \in Challenges, a \in Addresses : Reserve(q, c, a)
         \/ Count(q) \/ MarkDelivery(q) \/ Lookup(q) \/ SignUpLost(q) \/ Complete(q)
         \/ \E b \in BOOLEAN : Send(q, b)
         \/ \E c \in Challenges, b \in BOOLEAN : Verify(q, c, b)
         \/ \E f \in Flows, s \in Social \cup Enterprise \cup {None} : Callback(q, f, s)
         \/ \E s \in Enterprise : DirectoryLogin(q, s)
         \/ \E u \in Accounts : SignUp(q, u)
    \/ \E a \in Addresses : CooldownEnds(a) \/ WindowEnds(a)
    \/ \E f \in Flows : FlowStart(f) \/ FlowExpires(f)
    \/ \E c \in Challenges : CodeExpires(c)
    \/ \E s \in Subjects : TakeName(s)
    \/ \E u \in Accounts : Deactivate(u)

Spec == Init /\ [][Next]_vars

-----------------------------------------------------------------------------
(* Properties.                                                              *)

\* A session belongs to the account its subject is bound to, although accounts
\* are looked up, signed up and named concurrently; so a subject never has two.
SessionOfSubject == \A q \in Requests :
    session[q] # None => binding[req[q].subject] = session[q]

\* A subject is bound once and for all: the account it signed up is never
\* replaced by that of a concurrent sign-up.
BindingStays ==
    [][\A s \in Subjects : binding[s] # None => binding'[s] = binding[s]]_vars

\* However many guesses arrive together, a code is compared at most
\* MaxAttempts times (challenges.verify).
GuessesBounded == \A c \in Challenges : guesses[c] <= MaxAttempts

\* A code opens an account only while it is the newest of its address, even if
\* the delivery of an older one is reported after the resend (reserve).
NewestCodeOnly ==
    [][\A q \in Requests, a \in Addresses :
         req[q].at = "idle" /\ req'[q].at = "proved" /\ req'[q].subject = a
         => req'[q].row = newest[a]]_vars

\* A code and a provider's redirect are used once.
ProofOnce == \A q, p \in Requests :
    req[q].subject # None /\ req[q].row # None /\ req[p].subject # None
    /\ req[q].row = req[p].row => q = p

\* No more than SendLimit codes are let through to an address in a window (consume_limit).
SendsBounded == \A a \in Addresses : sent[a] <= SendLimit

\* A proof of identity leads once to the account of its subject, and guessing and sending
\* stay bounded, whatever requests overlap (challenges.py, social_auth_service.complete).
ProofsHold == SessionOfSubject /\ ProofOnce /\ GuessesBounded /\ SendsBounded

\* What a step of a sign-in may never do: take a superseded code, or move a binding.
SignInSteps == NewestCodeOnly /\ BindingStays

-----------------------------------------------------------------------------
(* What makes these inductive.                                              *)

\* A handler holds what the steps before it have given it, and a session only at its end.
HandlersFit == \A q \in Requests :
    /\ req[q].at = "idle" => req[q] = Idle
    /\ req[q].at \in {"reserved", "sending", "accepted", "failed"} =>
          /\ req[q].row \in Challenges /\ challenge[req[q].row].address \in Addresses
          /\ req[q].subject = None
    /\ req[q].at \in {"proved", "signup", "known"} => req[q].subject \in Subjects
    /\ req[q].at = "known" => /\ req[q].account \in Accounts
                              /\ binding[req[q].subject] = req[q].account
    /\ session[q] # None => req[q].at = "done" /\ req[q].subject \in Subjects

\* An open code is the newest of its address.
OpenIsNewest == \A c \in Challenges :
    challenge[c].open => /\ challenge[c].address \in Addresses
                         /\ newest[challenge[c].address] = c

\* What proved a subject is closed: the code's row, or the flow.
ProofsSpent == \A q \in Requests :
    req[q].subject # None /\ req[q].row # None =>
        \/ /\ req[q].row \in Challenges /\ ~challenge[req[q].row].open
           /\ challenge[req[q].row].address \in Addresses
        \/ req[q].row \in Flows /\ flow[req[q].row] = "used"

\* The rows count what was compared and let through.
CountersAgree ==
    /\ \A c \in Challenges : guesses[c] = challenge[c].attempts
    /\ \A a \in Addresses : sent[a] <= hits[a] /\ sent[a] <= SendLimit

SignInInv ==
    /\ TypeOK /\ HandlersFit /\ OpenIsNewest /\ ProofsSpent /\ CountersAgree
    /\ SessionOfSubject /\ ProofOnce

=============================================================================
