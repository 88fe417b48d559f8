---------------------------- MODULE Credentials ----------------------------
(***************************************************************************)
(* The password of one account, its sessions and its reset links, under    *)
(* concurrent requests.  A handler loads the account, checks what it was   *)
(* given against that copy, and writes and signs in in later transactions. *)
(***************************************************************************)
EXTENDS Naturals, FiniteSets, Sequences, SequencesExt

CONSTANTS Requests,   \* HTTP requests; a session is named by the one it came from
          Passwords,
          Links,      \* password reset links
          Cap,        \* MAX_SESSIONS_PER_USER
          MaxEpoch    \* bound on the number of revocations

VARIABLES
    account,   \* the users row: password, whether its hash is outdated, active
    sessions,  \* the committed auth_sessions rows
    order,     \* session insertions in the order of created_at
    serial,    \* the database is SQLite: one writing transaction at a time
    link,      \* reset link -> state of its auth_action_tokens row
    issue,     \* reset link -> the links its issue closes, and whether another overlapped it
    req,       \* request -> where its handler is and what it holds
    epoch,     \* history: how often all sessions were revoked
    lastSet,   \* history: the password last accepted by a change or a reset
    crowded,   \* history: sessions inserted while another insertion was open
    undone     \* history: a rehash wrote over a password set since its check

vars == <<account, sessions, order, serial, link, issue, req, epoch, lastSet, crowded, undone>>

-----------------------------------------------------------------------------

Account == [pwd : Passwords, old : BOOLEAN, active : BOOLEAN]

\* old is password_needs_rehash of the copy; seen and born are the epochs of the
\* check and of the session.
Request == [at   : {"idle", "linked", "cleared", "verified", "inserted", "done"},
            pwd  : Passwords, was : Passwords, old : BOOLEAN, link : Links \cup {"none"},
            cut  : SUBSET Requests, seen : 0 .. MaxEpoch, born : 0 .. MaxEpoch]

TypeOK ==
    /\ account \in Account
    /\ sessions \subseteq Requests /\ crowded \subseteq Requests
    /\ order \in Seq(Requests)
    /\ serial \in BOOLEAN
    /\ link \in [Links -> {"none", "issuing", "open", "used"}]
    /\ issue \in [Links -> [closes : SUBSET Links, crossed : BOOLEAN]]
    /\ req \in [Requests -> Request]
    /\ epoch \in 0 .. MaxEpoch
    /\ lastSet \in Passwords /\ undone \in BOOLEAN

Init ==
    /\ account \in {a \in Account : a.active}
    /\ sessions = {} /\ order = <<>> /\ crowded = {}
    /\ serial \in BOOLEAN
    /\ link = [l \in Links |-> "none"]
    /\ issue = [l \in Links |-> [closes |-> {}, crossed |-> FALSE]]
    /\ req = [q \in Requests |->
                [at |-> "idle", pwd |-> account.pwd, was |-> account.pwd, old |-> FALSE,
                 link |-> "none", cut |-> {}, seen |-> 0, born |-> 0]]
    /\ epoch = 0 /\ lastSet = account.pwd /\ undone = FALSE

\* load_session_user: the session is there and the account is active.
SignedIn(s) == s \in sessions /\ account.active

Enter(q, at, p, l) ==
    /\ req[q].at = "idle"
    /\ req' = [req EXCEPT ![q] = [@ EXCEPT !.at = at, !.pwd = p, !.was = account.pwd,
                                           !.old = account.old, !.link = l, !.seen = epoch]]

Goto(q, at) == req' = [req EXCEPT ![q].at = at]

Inserting == {q \in Requests : req[q].at = "inserted"}
Issuing   == {l \in Links : link[l] = "issuing"}

\* In SQLite a transaction that has written keeps the others from writing.
Free == serial => Inserting = {} /\ Issuing = {}

-----------------------------------------------------------------------------
(* Signing in.                                                              *)

\* login: an active account whose password is p.  Whoever fails is answered
\* 401 and changes nothing here.
Login(q, p) ==
    /\ account.active /\ account.pwd = p
    /\ Enter(q, "verified", p, "none")
    /\ UNCHANGED <<account, sessions, order, serial, link, issue, epoch, lastSet, crowded, undone>>

\* An outdated hash is replaced: set_password(revoke_sessions=False), an
\* UPDATE by user_id whatever the password is by now.
Rehash(q) ==
    /\ req[q].at = "verified" /\ req[q].old /\ Free
    /\ account' = [account EXCEPT !.pwd = req[q].pwd, !.old = FALSE]
    /\ req' = [req EXCEPT ![q].old = FALSE]
    /\ undone' = (undone \/ account.pwd # req[q].was)
    /\ UNCHANGED <<sessions, order, serial, link, issue, epoch, lastSet, crowded>>

\* ORDER BY created_at: the rows that were inserted after s.
Newer(by_age, rows, s) ==
    {t \in rows : \E i, j \in DOMAIN by_age : i < j /\ by_age[i] = s /\ by_age[j] = t}

\* Mutant: one session too many is kept.
BeyondCapMutant(by_age, rows) ==
    {s \in rows : Cardinality(Newer(by_age, rows, s)) > Cap}

\* OFFSET Cap: the rows that have at least Cap newer ones.
BeyondCap(by_age, rows) ==
    {s \in rows : Cardinality(Newer(by_age, rows, s)) >= Cap}

\* create_auth_session inserts its row and selects the ones beyond the cap
\* among those it can see: the committed ones and its own...
IssueInsert(q) ==
    /\ req[q].at = "verified" /\ ~req[q].old /\ Free
    /\ order' = Append(order, q)
    /\ req' = [req EXCEPT ![q].at = "inserted",
                          ![q].cut = BeyondCap(order', sessions \cup {q})]
    /\ crowded' = IF Inserting = {} THEN crowded ELSE crowded \cup Inserting \cup {q}
    /\ UNCHANGED <<account, sessions, serial, link, issue, epoch, lastSet, undone>>

\* ...and deletes those with its commit.
IssueCommit(q) ==
    /\ req[q].at = "inserted"
    /\ sessions' = (sessions \cup {q}) \ req[q].cut
    /\ req' = [req EXCEPT ![q].at = "done", ![q].born = epoch]
    /\ UNCHANGED <<account, order, serial, link, issue, epoch, lastSet, crowded, undone>>

-----------------------------------------------------------------------------
(* Changing and resetting the password.                                     *)

\* change_password by the session s: the current password is checked against
\* the copy and the new one differs from it.
Change(q, s, p, n) ==
    /\ SignedIn(s) /\ account.pwd = p /\ n # p
    /\ Enter(q, "cleared", n, "none")
    /\ UNCHANGED <<account, sessions, order, serial, link, issue, epoch, lastSet, crowded, undone>>

\* issue_password_reset: create_auth_action_token closes the links it finds unused...
IssueReset(l) ==
    /\ link[l] = "none" /\ Free
    /\ link' = [link EXCEPT ![l] = "issuing"]
    /\ issue' = [k \in Links |->
                   [closes  |-> IF k = l THEN {m \in Links : link[m] = "open"} ELSE issue[k].closes,
                    crossed |-> issue[k].crossed \/ (Issuing # {} /\ k \in Issuing \cup {l})]]
    /\ UNCHANGED <<account, sessions, order, serial, req, epoch, lastSet, crowded, undone>>

\* ...and inserts the new one, with its commit: what another issue inserts meanwhile
\* stays open, as nothing locks the account.
IssueResetCommit(l) ==
    /\ link[l] = "issuing"
    /\ link' = [k \in Links |-> IF k = l THEN "open"
                                ELSE IF k \in issue[l].closes THEN "used" ELSE link[k]]
    /\ UNCHANGED <<account, sessions, order, serial, issue, req, epoch, lastSet, crowded, undone>>

\* Past expires_at a link is as good as used.
LinkExpires(l) ==
    /\ link[l] = "open"
    /\ link' = [link EXCEPT ![l] = "used"]
    /\ UNCHANGED <<account, sessions, order, serial, issue, req, epoch, lastSet, crowded, undone>>

\* complete_password_reset looks at the link and the account...
Reset(q, l, n) ==
    /\ link[l] = "open" /\ account.active
    /\ Enter(q, "linked", n, l)
    /\ UNCHANGED <<account, sessions, order, serial, link, issue, epoch, lastSet, crowded, undone>>

\* ...consumes the link by a conditional UPDATE, or answers 410; the UPDATE waits for an
\* issue that is closing the link...
ResetConsume(q) ==
    /\ req[q].at = "linked" /\ Free
    /\ \A l \in Issuing : req[q].link \notin issue[l].closes
    /\ LET l == req[q].link
       IN  /\ link' = [link EXCEPT ![l] = "used"]
           /\ Goto(q, IF link[l] = "open" THEN "cleared" ELSE "done")
    /\ UNCHANGED <<account, sessions, order, serial, issue, epoch, lastSet, crowded, undone>>

\* Mutant: the sessions stay.
SetPasswordMutant(q) ==
    /\ req[q].at = "cleared" /\ epoch < MaxEpoch /\ Free
    /\ account' = [account EXCEPT !.pwd = req[q].pwd, !.old = FALSE]
    /\ epoch' = epoch + 1 /\ lastSet' = req[q].pwd
    /\ req' = [req EXCEPT ![q].at = "verified", ![q].old = FALSE, ![q].seen = epoch + 1]
    /\ UNCHANGED <<sessions, order, serial, link, issue, crowded, undone>>

\* ...and sets the password: update_user_password deletes the committed
\* sessions in the same transaction.
SetPassword(q) ==
    /\ req[q].at = "cleared" /\ epoch < MaxEpoch /\ Free
    /\ account' = [account EXCEPT !.pwd = req[q].pwd, !.old = FALSE]
    /\ sessions' = {}
    /\ epoch' = epoch + 1 /\ lastSet' = req[q].pwd
    /\ req' = [req EXCEPT ![q].at = "verified", ![q].old = FALSE, ![q].seen = epoch + 1]
    /\ UNCHANGED <<order, serial, link, issue, crowded, undone>>

-----------------------------------------------------------------------------
(* Ending sessions.                                                         *)

\* update_workspace_member: deactivation deletes the sessions as well.
SetActive(b) ==
    /\ account.active # b /\ Free
    /\ account' = [account EXCEPT !.active = b]
    /\ IF b THEN UNCHANGED <<sessions, epoch>>
            ELSE epoch < MaxEpoch /\ sessions' = {} /\ epoch' = epoch + 1
    /\ UNCHANGED <<order, serial, link, issue, req, lastSet, crowded, undone>>

\* logout needs no valid session to delete the row.
Logout(s) ==
    /\ s \in sessions /\ Free
    /\ sessions' = sessions \ {s}
    /\ UNCHANGED <<account, order, serial, link, issue, req, epoch, lastSet, crowded, undone>>

\* revoke_session and revoke_other_sessions, called with the session s.
Revoke(s, gone) ==
    /\ SignedIn(s) /\ s \notin gone /\ gone # {} /\ Free
    /\ sessions' = sessions \ gone
    /\ UNCHANGED <<account, order, serial, link, issue, req, epoch, lastSet, crowded, undone>>

Next ==
    \/ \E q \in Requests, p \in Passwords : Login(q, p)
    \/ \E q \in Requests : \/ Rehash(q) \/ IssueInsert(q) \/ IssueCommit(q)
                           \/ ResetConsume(q) \/ SetPassword(q)
    \/ \E q, s \in Requests, p, n \in Passwords : Change(q, s, p, n)
    \/ \E l \in Links : IssueReset(l) \/ IssueResetCommit(l) \/ LinkExpires(l)
    \/ \E q \in Requests, l \in Links, n \in Passwords : Reset(q, l, n)
    \/ \E b \in BOOLEAN : SetActive(b)
    \/ \E s \in Requests : Logout(s)
    \/ \E s, t \in sessions : Revoke(s, {t})
    \/ \E s \in sessions : Revoke(s, sessions \ {s})

Spec == Init /\ [][Next]_vars

-----------------------------------------------------------------------------
(* Properties.                                                              *)

\* When a password change, a reset or a deactivation has revoked the sessions
\* of an account (update_user_password, update_workspace_member), none that
\* had been issued by then is ever back; only a sign-in that was under way
\* across the revocation may still end in a session.
RevokedForGood == \A s \in sessions : req[s].born = epoch

\* The password is the one last accepted by a change or a reset, unless a
\* login that checked an earlier one wrote it back by its rehash.
PasswordStands == undone \/ account.pwd = lastSet

\* A reset link sets one password (consume_auth_action_token), however many
\* requests present it together, and no link does once a newer one was issued, unless the
\* issues of the two overlapped; in SQLite none do.
LinkOnce ==
    /\ \A l \in Links :
         Cardinality({q \in Requests : req[q].link = l
                         /\ req[q].at \in {"cleared", "verified", "inserted"}}
                     \cup {q \in Requests : req[q].link = l /\ Contains(order, q)}) <= 1
    /\ \A k, l \in Links : link[k] = "open" /\ link[l] = "open" /\ k # l =>
          ~serial /\ issue[k].crossed /\ issue[l].crossed

\* A sign-in that no other insertion overlaps leaves at most Cap sessions
\* (create_auth_session), even if overlapping ones had left more.
CapRestored ==
    [][\A q \in Requests :
          req[q].at = "inserted" /\ req'[q].at = "done" /\ q \notin crowded
          => Cardinality(sessions') <= Cap]_vars

\* What the owner of an account relies on, whatever requests overlap: revoked sessions are
\* gone, the password is the one last set, and a reset link works once.
CredentialsHold == RevokedForGood /\ PasswordStands /\ LinkOnce

-----------------------------------------------------------------------------
(* What makes these inductive.                                              *)

\* A handler that may still rehash holds the password it compared.
RehashesCompared == \A q \in Requests :
    req[q].at = "verified" /\ req[q].old => req[q].pwd = req[q].was

\* Insertions are of requests that have got that far, each once, and every
\* session was inserted.
OrderIsHistory ==
    /\ \A i \in DOMAIN order : req[order[i]].at \in {"inserted", "done"}
    /\ \A i, j \in DOMAIN order : order[i] = order[j] => i = j
    /\ \A s \in sessions : \E i \in DOMAIN order : order[i] = s
    /\ \A q \in Requests : req[q].at = "inserted" => \E i \in DOMAIN order : order[i] = q
    /\ IsFiniteSet(sessions)

\* The request has got past ResetConsume with its link.
HasSpent(q) ==
    \/ req[q].at \in {"cleared", "verified", "inserted"}
    \/ \E i \in DOMAIN order : order[i] = q

\* A link is spent by one request and is used from then on.
LinksSpentOnce ==
    /\ \A q \in Requests : req[q].at = "linked" => req[q].link \in Links
    /\ \A q \in Requests : HasSpent(q) /\ req[q].link \in Links => link[req[q].link] = "used"
    /\ \A q, r \in Requests :
          HasSpent(q) /\ HasSpent(r) /\ req[q].link \in Links /\ req[q].link = req[r].link => q = r

\* Of two links that are issued at once, or one of which the issue of the other has not found
\* to close, both are known to overlap, and in SQLite none is.
IssuesCross ==
    /\ \A l \in Links : serial => ~issue[l].crossed
    /\ \A l \in Links : link[l] = "issuing" =>
          \A k \in issue[l].closes : link[k] \in {"open", "used"}
    /\ \A k, l \in Links :
          /\ k # l /\ link[k] \in {"open", "issuing"} /\ link[l] \in {"open", "issuing"}
          /\ link[l] = "issuing" => k \notin issue[l].closes
          /\ link[k] = "issuing" => l \notin issue[k].closes
          => issue[k].crossed /\ issue[l].crossed

\* Insertions that overlap are all crowded, and the one that does not deletes
\* enough of the sessions there are.
CutSuffices ==
    /\ \A q, r \in Requests :
          req[q].at = "inserted" /\ req[r].at = "inserted" /\ q # r => q \in crowded
    /\ \A q \in Requests :
          req[q].at = "inserted" /\ q \notin crowded
          => Cardinality((sessions \cup {q}) \ req[q].cut) <= Cap

\* RevokedForGood and PasswordStands, with what the rest of CredentialsHold and
\* CapRestored follow from.
CredentialsInv ==
    /\ TypeOK /\ RevokedForGood /\ PasswordStands
    /\ RehashesCompared /\ OrderIsHistory /\ LinksSpentOnce /\ IssuesCross /\ CutSuffices

=============================================================================
