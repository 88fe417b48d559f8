----------------------------- MODULE MCAccounts -----------------------------
(* Credentials, Members, SignIn and Federated side by side: each behaviour   *)
(* exercises the rows of one of them, named by focus; the others stay put.   *)
EXTENDS Integers, TLC

CONSTANTS Requests, None,
          Passwords, Links, Cap, MaxEpoch,
          Workspaces, Names, Invites, Tokens, Scopes,
          Addresses, Social, Enterprise, Challenges, Flows, Accounts,
          MaxAttempts, SendLimit,
          Skew, Now, IdTokens, KeySets, DirectorySettings, Logins,
          Parts      \* the components this run looks at

ASSUME AccountsAssumption ==
    /\ Cap \in Nat /\ MaxEpoch \in Nat
    /\ "none" \notin Links
    /\ MaxAttempts \in Nat /\ SendLimit \in Nat
    /\ None \notin Accounts \cup Addresses \cup Social \cup Enterprise
    /\ Challenges \cap Flows = {}
    /\ Skew \in Int /\ Now \in Int
    /\ Addresses \cap (Social \cup Enterprise) = {}

VARIABLES focus,
    account, sessions, order, cserial, link, issue, creq, epoch, lastSet, crowded, undone,
    role, mactive, member, primary, invite, token, mreq, grantor, raised, restored, minted,
    challenge, cooling, hits, flow, binding, taken, sactive, sreq, session,
    guesses, newest, sent,
    input, result

cvars == <<account, sessions, order, cserial, link, issue, creq, epoch, lastSet, crowded, undone>>
mvars == <<role, mactive, member, primary, invite, token, mreq, grantor, raised, restored, minted>>
svars == <<challenge, cooling, hits, flow, binding, taken, sactive, sreq, session,
           guesses, newest, sent>>
fvars == <<input, result>>
vars  == <<focus, cvars, mvars, svars, fvars>>

C == INSTANCE Credentials WITH req <- creq, serial <- cserial
M == INSTANCE Members WITH req <- mreq, active <- mactive
S == INSTANCE SignIn WITH req <- sreq, active <- sactive

\* The value that stands for SQL's NULL is none of the values a column may have.
ASSUME MembersAssumption ==
    /\ None \notin M!Roles \cup M!User \cup M!Principal \cup Workspaces
    /\ None \notin Invites \cup Tokens \cup BOOLEAN

F == INSTANCE Federated WITH Tokens <- IdTokens, Settings <- DirectorySettings

\* Claims as PyJWT hands them over: times are numbers, the audience is a list.
ASSUME FederatedAssumption ==
    \A t \in IdTokens : t.exp \in Int /\ t.iat \in Int /\ F!IsFiniteSet(t.aud)

-----------------------------------------------------------------------------
(* The tokens, keys, configurations and log-ins TLC tries: the cfg gives them *)
(* to the constants of the same names.                                       *)

\* A token that is accepted, and the ones that differ from it in up to two claims.
Good == [alg |-> "RS256", kid |-> "k1", signer |-> "K1", iss |-> "idp", aud |-> {"us"},
         azp |-> "absent", exp |-> Now, iat |-> Now, sub |-> "s", nonce |-> "n"]

Altered(t) ==
    {t}
    \cup {[t EXCEPT !.alg = x] : x \in {"HS256", "ES256"}}
    \cup {[t EXCEPT !.kid = x] : x \in {"absent", "k2"}}
    \cup {[t EXCEPT !.signer = x] : x \in {"K2", "anyone"}}
    \cup {[t EXCEPT !.iss = "other"]}
    \cup {[t EXCEPT !.aud = x] : x \in {{}, {"them"}, {"us", "them"}}}
    \cup {[t EXCEPT !.azp = x] : x \in {"us", "them"}}
    \cup {[t EXCEPT !.exp = x] : x \in {Now - Skew, Now - Skew - 1}}
    \cup {[t EXCEPT !.iat = x] : x \in {Now + Skew, Now + Skew + 1}}
    \cup {[t EXCEPT !.sub = ""], [t EXCEPT !.nonce = "stale"]}

MCIdTokens == UNION {Altered(t) : t \in Altered(Good)}

JsonKeys == [id : {"K1", "K2"}, kid : {"k1", "k2"}, use : {"absent", "sig", "enc"},
             alg : {"absent", "RS256"}, ops : {"absent", "verify", "sign"}]
Plain(id, kid) == [id |-> id, kid |-> kid, use |-> "absent", alg |-> "absent", ops |-> "absent"]
MCKeySets == {<<>>} \cup {<<k>> : k \in JsonKeys}
           \cup {<<Plain("K1", "k1"), Plain("K2", x)>> : x \in {"k1", "k2"}}

MCDirectorySettings ==
    [scheme : {"ldap", "ldaps"}, tls : BOOLEAN, defaultRole : {"VIEWER", "ADMIN"},
     placeholders : 0..2, roleAttribute : BOOLEAN, baseDn : BOOLEAN]
MCLogins ==
    [name : [kind : {"plain", "special", "empty"}, id : {"u"}], password : {"", "good", "bad"},
     correct : {"good"}, claims : {"", "ADMIN", "ROOT"}]

AnInput == CHOOSE i \in [kind : {"directory"}, settings : DirectorySettings, login : Logins] : TRUE

-----------------------------------------------------------------------------

Init ==
    /\ focus \in Parts
    /\ C!Init /\ M!Init /\ S!Init
    /\ focus # "credentials" => account = [pwd |-> CHOOSE p \in Passwords : TRUE,
                                           old |-> FALSE, active |-> TRUE] /\ ~cserial
    /\ focus # "members" => primary = None
    /\ IF focus = "federated" THEN TRUE ELSE input = AnInput
    /\ F!Init

Next ==
    \/ focus = "credentials" /\ C!Next /\ UNCHANGED <<focus, mvars, svars, fvars>>
    \/ focus = "members" /\ M!Next /\ UNCHANGED <<focus, cvars, svars, fvars>>
    \/ focus = "signin" /\ S!Next /\ UNCHANGED <<focus, cvars, mvars, fvars>>
    \/ focus = "federated" /\ F!Next /\ UNCHANGED <<focus, cvars, mvars, svars>>

Spec == Init /\ [][Next]_vars

\* Nothing in these modules tells these apart. The cfg gives sets of different
\* components the same values, which keeps the group small: a permutation moves the
\* rows of the component in focus, and the others are at their initial, symmetric state.
Symmetry == UNION {Permutations(X) : X \in {Requests, Links, Names}}

\* The properties of the components; each is described where it is defined.
CredentialsHold  == C!CredentialsHold
CapRestored      == C!CapRestored
RightsAreGranted == M!RightsAreGranted
ProofsHold       == S!ProofsHold
SignInSteps      == S!SignInSteps
AcceptedIsProved == F!AcceptedIsProved

=============================================================================
