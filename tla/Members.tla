------------------------------ MODULE Members ------------------------------
(***************************************************************************)
(* Accounts of the workspaces, invitations and API tokens.  A request that *)
(* needs a permission is admitted with the principal of that moment and    *)
(* carries it through its later transactions.                              *)
(***************************************************************************)
EXTENDS Access, Sequences

CONSTANTS Workspaces, Names, Requests, Invites, Tokens,
          Scopes,    \* the permission sets asked for in a token
          None

User == Workspaces \X Names
Granted == Roles \ {"OWNER"}      \* what a payload may name (schemas.py)

VARIABLES
    role,     \* users: account -> role, None where there is no row
    active,   \* users: account -> may sign in
    member,   \* workspace_members: account -> role
    primary,  \* the workspace that was created first
    invite,   \* invitation -> its auth_action_tokens row
    token,    \* API token -> its row
    req,      \* request -> where its handler is and what it holds
    grantor,  \* history: account -> role of who gave it its role
    raised,   \* history: accounts an owner has made administrator
    restored, \* history: accounts whose role an update that gave none has put back
    minted    \* history: API token -> the token it was created with

vars == <<role, active, member, primary, invite, token, req, grantor, raised, restored, minted>>

NoInvite == [user |-> None, role |-> None, by |-> None, state |-> "none"]
NoToken  == [user |-> None, role |-> None, scope |-> {}, state |-> "none"]
NoBody   == [at |-> "idle", by |-> None, via |-> None, user |-> None, role |-> None,
             active |-> None, invite |-> None, row |-> None, closes |-> {}]

Fresh(w) == \A n \in Names : role[<<w, n>>] = None
NoUsers  == \A w \in Workspaces : Fresh(w)

\* No account at all, or a workspace whose owner has been set up.
Init ==
    /\ \E founders \in {{}} \cup {{u} : u \in User} :
         /\ role = [u \in User |-> IF u \in founders THEN "OWNER" ELSE None]
         /\ member = role
         /\ primary = IF founders = {} THEN None ELSE (CHOOSE u \in founders : TRUE)[1]
    /\ active = [u \in User |-> TRUE]
    /\ invite = [i \in Invites |-> NoInvite]
    /\ token = [k \in Tokens |-> NoToken]
    /\ req = [q \in Requests |-> NoBody]
    /\ grantor = [u \in User |-> None] /\ raised = {} /\ restored = {}
    /\ minted = [k \in Tokens |-> None]

Principal == [user : User, role : Roles, scope : SUBSET Permission]
InviteRow == [user : User \cup {None}, role : Granted \cup {None}, by : Roles \cup {None},
              state : {"none", "open", "used"}]
ApiToken  == [user : User \cup {None}, role : Roles \cup {None}, scope : SUBSET Permission,
              state : {"none", "open", "revoked"}]
Copy      == [role : Roles, active : BOOLEAN]
Handler   == [at : {"idle", "bootstrap", "create", "ensure", "invite", "named", "issuing",
                    "activate", "update", "checked", "read", "token", "done"},
              by : Principal \cup {None}, via : Tokens \cup {None}, user : User \cup {None},
              role : Roles \cup {None}, active : BOOLEAN \cup {None},
              invite : Invites \cup {None}, row : Copy \cup {None}, closes : SUBSET Invites]

TypeOK ==
    /\ role \in [User -> Roles \cup {None}] /\ member \in [User -> Roles \cup {None}]
    /\ active \in [User -> BOOLEAN] /\ grantor \in [User -> Roles \cup {None}]
    /\ raised \subseteq User /\ restored \subseteq User
    /\ primary \in Workspaces \cup {None}
    /\ invite \in [Invites -> InviteRow] /\ token \in [Tokens -> ApiToken]
    /\ minted \in [Tokens -> Tokens \cup {None}]
    /\ req \in [Requests -> Handler]

Body(q, b) == req' = [req EXCEPT ![q] = b]
Goto(q, at) == req' = [req EXCEPT ![q].at = at]
Done(q)     == Body(q, [NoBody EXCEPT !.at = "done"])

\* principal_of: a session of an active account, or a token that is neither
\* revoked nor expired and whose account is active.
Principals ==
    {[p |-> SessionPrincipal(u, role[u]), via |-> None] :
        u \in {u \in User : role[u] # None /\ active[u]}}
    \cup
    {[p |-> TokenPrincipal(token[k].user, token[k].role, role[token[k].user], token[k].scope),
      via |-> k] :
        k \in {k \in Tokens : token[k].state = "open" /\ active[token[k].user]}}

\* A route of members.py or auth.py admits the principal and reads its payload.
Admit(q, a, route, at, u, r, act) ==
    /\ req[q].at = "idle" /\ a \in Principals
    /\ HasPermission(a.p, route.needs)
    /\ Body(q, [NoBody EXCEPT !.at = at, !.by = a.p, !.via = a.via, !.user = u,
                              !.role = r, !.active = act])
    /\ UNCHANGED <<role, active, member, primary, invite, token, grantor, raised, restored, minted>>

-----------------------------------------------------------------------------
(* Creating accounts.                                                       *)

\* Who gives an account its role, and who gave ADMIN as an owner.
Grants(u, r, by) ==
    /\ grantor' = [grantor EXCEPT ![u] = by]
    /\ raised' = IF r = "ADMIN" /\ by = "OWNER" THEN raised \cup {u} ELSE raised
    /\ restored' = restored \ {u}

\* create_user: the workspace row if it is missing, and the account; the
\* unique constraint on workspace and name refuses a second one.
CreateUser(q, u, r, by) ==
    /\ role' = [role EXCEPT ![u] = r]
    /\ active' = [active EXCEPT ![u] = TRUE]
    /\ primary' = IF primary = None THEN u[1] ELSE primary
    /\ Grants(u, r, by)
    /\ req' = [req EXCEPT ![q].at = "ensure", ![q].user = u, ![q].role = r]
    /\ UNCHANGED <<member, invite, token, minted>>

Refused(q) ==
    /\ Done(q)
    /\ UNCHANGED <<role, active, member, primary, invite, token, grantor, raised, restored, minted>>

\* ensure_workspace, the transaction after create_user: upsert of the member.
Ensure(q) ==
    /\ req[q].at = "ensure"
    /\ member' = [member EXCEPT ![req[q].user] = req[q].role]
    /\ Done(q)
    /\ UNCHANGED <<role, active, primary, invite, token, grantor, raised, restored, minted>>

\* bootstrap: nobody has an account...
BootstrapCount(q) ==
    /\ req[q].at = "idle" /\ NoUsers
    /\ Goto(q, "bootstrap")
    /\ UNCHANGED <<role, active, member, primary, invite, token, grantor, raised, restored, minted>>

\* ...and the owner of a workspace with a new uuid; register_personal does the
\* same for anyone.
Found(q, u) ==
    /\ req[q].at \in {"bootstrap", "idle"} /\ Fresh(u[1])
    /\ CreateUser(q, u, "OWNER", None)

\* trial_join: the name is free in the oldest workspace...
TrialJoin(q, n) ==
    /\ req[q].at = "idle" /\ primary # None /\ role[<<primary, n>>] = None
    /\ Body(q, [NoBody EXCEPT !.at = "create", !.user = <<primary, n>>, !.role = "REVIEWER"])
    /\ UNCHANGED <<role, active, member, primary, invite, token, grantor, raised, restored, minted>>

\* Only an owner hands out ADMIN: create_member, create_invitation, update_member.
Allowed(by, r) == r = "ADMIN" => by.role = "OWNER"

\* ...and the account is created, as by create_member and activate_invitation.
Create(q) ==
    /\ req[q].at = "create"
    /\ LET b == req[q]
       IN  IF role[b.user] = None /\ (b.by # None => Allowed(b.by, b.role))
           THEN CreateUser(q, b.user, b.role,
                           IF b.invite # None THEN invite[b.invite].by
                           ELSE IF b.by # None THEN b.by.role ELSE None)
           ELSE Refused(q)

-----------------------------------------------------------------------------
(* Invitations.                                                             *)

\* create_auth_action_token closes the outstanding invitations of the name.
Superseded(u) == {k \in Invites : invite[k].state = "open" /\ invite[k].user[2] = u[2]}

\* create_invitation: the name is free in the workspace...
InviteCheck(q) ==
    /\ req[q].at = "invite"
    /\ IF Allowed(req[q].by, req[q].role) /\ role[req[q].user] = None
       THEN Goto(q, "named") ELSE Done(q)
    /\ UNCHANGED <<role, active, member, primary, invite, token, grantor, raised, restored, minted>>

\* ...the UPDATE closes the links it finds unused...
InviteIssue(q) ==
    /\ req[q].at = "named"
    /\ req' = [req EXCEPT ![q].at = "issuing", ![q].closes = Superseded(req[q].user)]
    /\ UNCHANGED <<role, active, member, primary, invite, token, grantor, raised, restored, minted>>

\* ...and the new one is inserted with the commit. Nothing locks the name: an invitation that
\* another request inserts in between stays open beside it, in PostgreSQL; in SQLite the UPDATE
\* keeps others from writing, and nothing comes between.
InviteCommit(q, i) ==
    /\ req[q].at = "issuing" /\ invite[i].state = "none"
    /\ LET b == req[q]
       IN  invite' = [k \in Invites |->
                IF k = i THEN [user |-> b.user, role |-> b.role, by |-> b.by.role, state |-> "open"]
                ELSE IF k \in b.closes /\ invite[k].state = "open" THEN [invite[k] EXCEPT !.state = "used"]
                ELSE invite[k]]
    /\ Done(q)
    /\ UNCHANGED <<role, active, member, primary, token, grantor, raised, restored, minted>>

InviteExpires(i) ==
    /\ invite[i].state = "open"
    /\ invite' = [invite EXCEPT ![i].state = "used"]
    /\ UNCHANGED <<role, active, member, primary, token, req, grantor, raised, restored, minted>>

\* activate_invitation looks at the link and the name...
Activate(q, i) ==
    /\ req[q].at = "idle" /\ invite[i].state = "open" /\ role[invite[i].user] = None
    /\ Body(q, [NoBody EXCEPT !.at = "activate", !.invite = i,
                              !.user = invite[i].user, !.role = invite[i].role])
    /\ UNCHANGED <<role, active, member, primary, invite, token, grantor, raised, restored, minted>>

\* ...and consumes it by a conditional UPDATE, which waits for an issue that is closing it.
\* The account is the next transaction: if that is refused the link is used up all the same.
ActivateConsume(q) ==
    /\ req[q].at = "activate"
    /\ \A p \in Requests : req[p].at = "issuing" => req[q].invite \notin req[p].closes
    /\ LET i == req[q].invite
       IN  /\ invite' = [invite EXCEPT ![i].state = "used"]
           /\ IF invite[i].state = "open" THEN Goto(q, "create") ELSE Done(q)
    /\ UNCHANGED <<role, active, member, primary, token, grantor, raised, restored, minted>>

-----------------------------------------------------------------------------
(* Changing members.                                                        *)

\* update_member looks at the list of members: an owner is changed by nobody
\* else, nobody switches himself off.
UpdateCheck(q) ==
    /\ req[q].at = "update"
    /\ LET b == req[q]
       IN  IF /\ role[b.user] # None
              /\ role[b.user] = "OWNER" => b.user = b.by.user
              /\ b.user = b.by.user => b.active # FALSE
              /\ Allowed(b.by, b.role)
           THEN Goto(q, "checked") ELSE Done(q)
    /\ UNCHANGED <<role, active, member, primary, invite, token, grantor, raised, restored, minted>>

\* update_workspace_member reads the row, which locks it in neither database...
UpdateRead(q) ==
    /\ req[q].at = "checked"
    /\ LET u == req[q].user
       IN  req' = [req EXCEPT ![q].at = "read",
                              ![q].row = [role |-> role[u], active |-> active[u]]]
    /\ UNCHANGED <<role, active, member, primary, invite, token, grantor, raised, restored, minted>>

\* ...and writes both columns, and the role of the member row: what the payload leaves out
\* is written as it was read, whatever another request has made of it since.
UpdateWrite(q) ==
    /\ req[q].at = "read"
    /\ LET b == req[q]
           u == b.user
           r == IF b.role = None THEN b.row.role ELSE b.role
       IN  /\ role' = [role EXCEPT ![u] = r]
           /\ member' = [member EXCEPT ![u] = IF @ = None THEN None ELSE r]
           /\ active' = [active EXCEPT ![u] = IF b.active = None THEN b.row.active ELSE b.active]
           /\ IF b.role # None THEN Grants(u, r, b.by.role)
              ELSE /\ restored' = IF r # role[u] THEN restored \cup {u} ELSE restored
                   /\ UNCHANGED <<grantor, raised>>
    /\ Done(q)
    /\ UNCHANGED <<primary, invite, token, minted>>

-----------------------------------------------------------------------------
(* API tokens.                                                              *)

TokenRow(by, scope) ==
    [user |-> by.user, role |-> by.role, scope |-> scope, state |-> "open"]

\* create_token: a nonempty part of what the principal holds.
TokenCreate(q, k, scope) ==
    /\ req[q].at = "token" /\ token[k].state = "none"
    /\ IF scope # {} /\ scope \subseteq Grantable(req[q].by)
       THEN /\ token' = [token EXCEPT ![k] = TokenRow(req[q].by, scope)]
            /\ minted' = [minted EXCEPT ![k] = req[q].via]
            /\ Done(q)
            /\ UNCHANGED <<role, active, member, primary, invite, grantor, raised, restored>>
       ELSE Refused(q)

\* revoke_token, for a token of the workspace; expiry has the same effect.
TokenRevoke(k) ==
    /\ token[k].state = "open"
    /\ token' = [token EXCEPT ![k].state = "revoked"]
    /\ UNCHANGED <<role, active, member, primary, invite, req, grantor, raised, restored, minted>>

Next ==
    \/ \E q \in Requests, a \in Principals :
         \/ \E u \in User, r \in Granted :
              /\ u[1] = a.p.user[1]
              /\ \/ Admit(q, a, MemberRoutes.create_member, "create", u, r, None)
                 \/ Admit(q, a, AuthRoutes.create_invitation, "invite", u, r, None)
         \/ \E u \in User, r \in Granted \cup {None}, act \in BOOLEAN \cup {None} :
              /\ u[1] = a.p.user[1] /\ (r = None <=> act # None)
              /\ Admit(q, a, MemberRoutes.update_member, "update", u, r, act)
         \/ Admit(q, a, AuthRoutes.create_token, "token", None, None, None)
    \/ \E q \in Requests :
         \/ BootstrapCount(q) \/ Create(q) \/ Ensure(q) \/ ActivateConsume(q)
         \/ UpdateCheck(q) \/ UpdateRead(q) \/ UpdateWrite(q)
         \/ InviteCheck(q) \/ InviteIssue(q)
         \/ \E u \in User : Found(q, u)
         \/ \E n \in Names : TrialJoin(q, n)
         \/ \E i \in Invites : InviteCommit(q, i) \/ Activate(q, i)
         \/ \E k \in Tokens, scope \in Scopes : TokenCreate(q, k, scope)
    \/ \E i \in Invites : InviteExpires(i)
    \/ \E k \in Tokens : TokenRevoke(k)

Spec == Init /\ [][Next]_vars

-----------------------------------------------------------------------------
(* Properties.                                                              *)

\* Whoever is an administrator got the role from an owner at some time: by create_member, by
\* an invitation that waited for its activation, or by update_member. The role it was given
\* last is that one too, unless an update that gave no role had read the row before a role was
\* given, and has put the older one back since.
AdminByOwner == \A u \in User : role[u] = "ADMIN" =>
    u \in raised /\ (grantor[u] = "OWNER" \/ u \in restored)

\* A token never does more than the token it was created with: its scope and
\* its signing role stay within that one's, whatever the roles of the account
\* become (_principal_from_api_token, create_token).
TokenChain == \A k \in Tokens :
    minted[k] # None =>
        /\ token[k].scope \subseteq token[minted[k]].scope
        /\ PermissionsFor(token[k].role) \subseteq PermissionsFor(token[minted[k]].role)

\* What a token may call its account may call as well, now and with the role
\* it was signed with, on a run of any project (user_can_access_project).
TokenNotWider == \A a \in Principals : a.via # None =>
    \A r \in Routes, members \in {{}, {None}, {a.p.user}} :
        MayCall(a.p, r, members) =>
            /\ MayCall(SessionPrincipal(a.p.user, role[a.p.user]), r, members)
            /\ MayCall(SessionPrincipal(a.p.user, token[a.via].role), r, members)
            /\ r.needs \in token[a.via].scope

\* An invitation makes one account, however many requests present it together.
InviteOnce == \A i \in Invites :
    Cardinality({q \in Requests : req[q].invite = i /\ req[q].at \in {"create", "ensure"}}) <= 1

\* Nobody acts with a right that was not given: not by a role, a token or an invitation,
\* although a request carries the principal of the moment it was admitted.
RightsAreGranted == AdminByOwner /\ TokenChain /\ TokenNotWider /\ InviteOnce

-----------------------------------------------------------------------------
(* What makes these inductive.                                              *)

\* An invitation to administer was written by an owner; the account of a token exists,
\* and so does the token it was created with.
RowsFit ==
    /\ \A i \in Invites : invite[i].state # "none" =>
          /\ invite[i].user \in User /\ invite[i].role \in Granted /\ invite[i].by \in Roles
          /\ invite[i].role = "ADMIN" => invite[i].by = "OWNER"
    /\ \A k \in Tokens : token[k].state # "none" =>
          token[k].user \in User /\ token[k].role \in Roles /\ role[token[k].user] # None
    /\ \A k \in Tokens : minted[k] # None =>
          token[k].state # "none" /\ token[minted[k]].state # "none"

\* A handler holds what its earlier transactions have read and checked.
HandlersFit == \A q \in Requests :
    /\ req[q].at = "idle" => req[q] = NoBody
    /\ req[q].at \in {"create", "ensure", "invite", "named", "issuing", "activate", "update",
                      "checked", "read"} => req[q].user \in User
    /\ req[q].at \in {"create", "invite", "named", "issuing", "activate"} => req[q].role \in Granted
    /\ req[q].at = "ensure" => req[q].role \in Roles
    /\ req[q].at \in {"update", "checked", "read"} => req[q].role \in Granted \cup {None}
    /\ req[q].at \in {"invite", "named", "issuing", "update", "checked", "read", "token"} =>
          req[q].by # None
    /\ req[q].at = "activate" => req[q].invite # None
    /\ req[q].at \in {"named", "issuing", "checked", "read"} => Allowed(req[q].by, req[q].role)
    /\ req[q].at \in {"checked", "read"} => role[req[q].user] # None
    /\ req[q].at = "create" /\ req[q].by = None /\ req[q].invite = None =>
          req[q].role = "REVIEWER"

\* An administrator in the copy of an update was made one by an owner.
CopiesFit == \A q \in Requests : req[q].at = "read" =>
    /\ req[q].row \in Copy
    /\ req[q].row.role = "ADMIN" => req[q].user \in raised

\* The principal a request carries is of an account, and within the token that was shown.
PrincipalsFit == \A q \in Requests :
    /\ req[q].by # None => role[req[q].by.user] # None
    /\ req[q].via # None =>
          /\ req[q].by # None /\ token[req[q].via].state # "none"
          /\ req[q].by.scope \subseteq token[req[q].via].scope
          /\ PermissionsFor(req[q].by.role) \subseteq PermissionsFor(token[req[q].via].role)

\* An activation carries what its invitation says, which is used up before the account is made.
InvitesFit == \A q \in Requests : req[q].invite # None =>
    /\ req[q].at \in {"activate", "create", "ensure"} /\ req[q].by = None
    /\ req[q].role = invite[req[q].invite].role
    /\ \/ invite[req[q].invite].state = "used"
       \/ req[q].at = "activate" /\ invite[req[q].invite].state = "open"

OneActivation == \A q, p \in Requests :
    /\ req[q].invite # None /\ req[q].invite = req[p].invite
    /\ req[q].at \in {"create", "ensure"} /\ req[p].at \in {"create", "ensure"}
    => q = p

MembersInv ==
    /\ TypeOK /\ RowsFit /\ HandlersFit /\ CopiesFit /\ PrincipalsFit /\ InvitesFit /\ OneActivation
    /\ AdminByOwner /\ TokenChain

=============================================================================
