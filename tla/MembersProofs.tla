--------------------------- MODULE MembersProofs ---------------------------
(* Roles, invitations and API tokens for any number of workspaces, accounts,  *)
(* requests, invitations and tokens: Members as MCAccounts composes it.       *)
EXTENDS MCAccounts, Sequences, FiniteSetTheorems, TLAPS

-----------------------------------------------------------------------------
(* The permissions of the roles form a chain.                               *)

LEMMA SameSize ==
    \A X : M!Cardinality(X) = Cardinality(X) /\ (M!IsFiniteSet(X) <=> IsFiniteSet(X))
  BY DEF M!Cardinality, Cardinality, M!IsFiniteSet, IsFiniteSet

LEMMA PermissionsFinite == IsFiniteSet(M!Permission)
<1>1. IsFiniteSet(M!VIEWER_PERMISSIONS)
  <2> DEFINE V == M!VIEWER_PERMISSIONS
             s == <<"run:read", "job:read", "member:read", "workspace:read", "metrics:read">>
  <2>1. s \in Seq(V) /\ \A x \in V : \E n \in 1 .. Len(s) : s[n] = x
    BY DEF M!VIEWER_PERMISSIONS
  <2>2. QED
    BY <2>1 DEF IsFiniteSet
<1>2. IsFiniteSet({"run:create", "run:update", "run:review", "run:decide", "report:export",
                   "evidence:download", "job:manage", "audit:read", "health:detail"})
  <2> DEFINE V == {"run:create", "run:update", "run:review", "run:decide", "report:export",
                   "evidence:download", "job:manage", "audit:read", "health:detail"}
             s == <<"run:create", "run:update", "run:review", "run:decide", "report:export",
                    "evidence:download", "job:manage", "audit:read", "health:detail">>
  <2>1. s \in Seq(V) /\ \A x \in V : \E n \in 1 .. Len(s) : s[n] = x
    OBVIOUS
  <2>2. QED
    BY <2>1 DEF IsFiniteSet
<1>3. IsFiniteSet({"run:delete", "report:bulk-export", "member:manage", "project:manage",
                   "workspace:manage", "audit:export", "backup:manage", "retention:manage",
                   "token:manage"})
  <2> DEFINE V == {"run:delete", "report:bulk-export", "member:manage", "project:manage",
                   "workspace:manage", "audit:export", "backup:manage", "retention:manage",
                   "token:manage"}
             s == <<"run:delete", "report:bulk-export", "member:manage", "project:manage",
                    "workspace:manage", "audit:export", "backup:manage", "retention:manage",
                    "token:manage">>
  <2>1. s \in Seq(V) /\ \A x \in V : \E n \in 1 .. Len(s) : s[n] = x
    OBVIOUS
  <2>2. QED
    BY <2>1 DEF IsFiniteSet
<1>4. IsFiniteSet(M!REVIEWER_PERMISSIONS)
  BY <1>1, <1>2, FS_Union DEF M!REVIEWER_PERMISSIONS
<1>5. QED
  BY <1>3, <1>4, FS_Union DEF M!Permission, M!ADMIN_PERMISSIONS

\* OWNER and ADMIN hold everything, REVIEWER less, VIEWER less again.
LEMMA RolesNested ==
    /\ M!PermissionsFor("OWNER") = M!Permission /\ M!PermissionsFor("ADMIN") = M!Permission
    /\ M!PermissionsFor("REVIEWER") = M!REVIEWER_PERMISSIONS
    /\ M!PermissionsFor("VIEWER") = M!VIEWER_PERMISSIONS
    /\ M!VIEWER_PERMISSIONS \subseteq M!REVIEWER_PERMISSIONS
    /\ M!REVIEWER_PERMISSIONS \subseteq M!Permission
    /\ "token:manage" \in M!Permission \ M!REVIEWER_PERMISSIONS
<1>1. M!Permission = M!ADMIN_PERMISSIONS
  BY DEF M!Permission
<1>2. "token:manage" \notin M!REVIEWER_PERMISSIONS
  BY DEF M!VIEWER_PERMISSIONS, M!REVIEWER_PERMISSIONS
<1>3. QED
  BY <1>1, <1>2 DEF M!PermissionsFor, M!ADMIN_PERMISSIONS, M!REVIEWER_PERMISSIONS

\* Counting permissions, as _principal_from_api_token does, compares the roles.
LEMMA FewerIsWeaker ==
    ASSUME NEW r \in M!Roles, NEW t \in M!Roles
    PROVE  /\ M!PermissionsFor(r) \subseteq M!Permission
           /\ M!Cardinality(M!PermissionsFor(r)) < M!Cardinality(M!PermissionsFor(t)) =>
                /\ M!PermissionsFor(r) \subseteq M!PermissionsFor(t)
                /\ r \notin {"OWNER", "ADMIN"}
           /\ ~(M!Cardinality(M!PermissionsFor(r)) < M!Cardinality(M!PermissionsFor(t))) =>
                (t \in {"OWNER", "ADMIN"} => r \in {"OWNER", "ADMIN"})
<1> DEFINE P(x) == M!PermissionsFor(x)
<1>1. \A x \in M!Roles : P(x) \subseteq M!Permission
  BY RolesNested DEF M!Roles
<1>2. P(r) \subseteq P(t) \/ P(t) \subseteq P(r)
  BY RolesNested DEF M!Roles
<1>3. /\ IsFiniteSet(P(r)) /\ Cardinality(P(r)) \in Nat
      /\ Cardinality(P(r)) <= Cardinality(M!Permission)
      /\ Cardinality(M!Permission) = Cardinality(P(r)) => M!Permission = P(r)
  BY <1>1, PermissionsFinite, FS_Subset, FS_CardinalityType
<1>4. /\ IsFiniteSet(P(t)) /\ Cardinality(P(t)) \in Nat
      /\ Cardinality(P(t)) <= Cardinality(M!Permission)
  BY <1>1, PermissionsFinite, FS_Subset, FS_CardinalityType
<1>5. P(t) \subseteq P(r) => Cardinality(P(t)) <= Cardinality(P(r))
  BY <1>3, FS_Subset
<1>6. Cardinality(M!Permission) \in Nat
  BY PermissionsFinite, FS_CardinalityType
<1>7. r \in {"OWNER", "ADMIN"} <=> P(r) = M!Permission
  BY RolesNested DEF M!Roles
<1>8. t \in {"OWNER", "ADMIN"} <=> P(t) = M!Permission
  BY RolesNested DEF M!Roles
<1>9. /\ M!Cardinality(P(r)) = Cardinality(P(r)) /\ M!Cardinality(P(t)) = Cardinality(P(t))
  BY SameSize
<1> HIDE DEF P
<1>10. /\ P(r) \subseteq M!Permission
       /\ Cardinality(P(r)) < Cardinality(P(t)) => P(r) \subseteq P(t) /\ P(r) # M!Permission
       /\ ~(Cardinality(P(r)) < Cardinality(P(t))) /\ P(t) = M!Permission => P(r) = M!Permission
  BY <1>1, <1>2, <1>3, <1>4, <1>5, <1>6
<1>11. QED
  BY <1>7, <1>8, <1>9, <1>10 DEF P

-----------------------------------------------------------------------------
(* The initial state, and the principals of a state.                        *)

LEMMA MembersStart == M!Init => M!MembersInv
<1> SUFFICES ASSUME M!Init PROVE M!MembersInv
  OBVIOUS
<1> USE MembersAssumption
<1>1. PICK founders \in {{}} \cup {{u} : u \in M!User} :
        /\ role = [u \in M!User |-> IF u \in founders THEN "OWNER" ELSE None]
        /\ member = role
        /\ primary = IF founders = {} THEN None ELSE (CHOOSE u \in founders : TRUE)[1]
  BY DEF M!Init
<1>2. /\ role \in [M!User -> M!Roles \cup {None}] /\ member \in [M!User -> M!Roles \cup {None}]
      /\ \A u \in M!User : role[u] # "ADMIN"
  <2>1. \A u \in M!User : role[u] \in {"OWNER", None} /\ None # "ADMIN"
    BY <1>1 DEF M!Roles
  <2>2. QED
    BY <1>1, <2>1 DEF M!Roles
<1>3. primary \in Workspaces \cup {None}
  <2>1. CASE founders = {}
    BY <1>1, <2>1
  <2>2. CASE founders # {}
    <3>1. (CHOOSE u \in founders : TRUE) \in M!User
      BY <2>2
    <3>2. QED
      BY <1>1, <2>2, <3>1 DEF M!User
  <2>3. QED
    BY <2>1, <2>2
<1>4. M!NoInvite \in M!InviteRow /\ M!NoToken \in M!ApiToken /\ M!NoBody \in M!Handler
  BY DEF M!NoInvite, M!InviteRow, M!NoToken, M!ApiToken, M!NoBody, M!Handler
<1>5. mactive \in [M!User -> BOOLEAN]
  BY DEF M!Init
<1>6. M!TypeOK
  BY <1>2, <1>3, <1>4, <1>5 DEF M!Init, M!TypeOK
<1>7. \A q \in Requests : mreq[q] = M!NoBody
  BY DEF M!Init
<1>8. /\ \A i \in Invites : invite[i].state = "none"
      /\ \A k \in Tokens : token[k].state = "none" /\ minted[k] = None
  BY DEF M!Init, M!NoInvite, M!NoToken
<1>9. M!RowsFit /\ M!TokenChain
  BY <1>8 DEF M!RowsFit, M!TokenChain
<1>10. M!HandlersFit /\ M!CopiesFit /\ M!PrincipalsFit /\ M!InvitesFit /\ M!OneActivation
  BY <1>7 DEF M!HandlersFit, M!CopiesFit, M!PrincipalsFit, M!InvitesFit, M!OneActivation, M!NoBody
<1>11. QED
  BY <1>2, <1>6, <1>9, <1>10 DEF M!MembersInv, M!AdminByOwner

\* A principal is of an account; one of a token is within the token, within the role that
\* signed it and within the live role (_principal_from_api_token).
LEMMA PrincipalsHold ==
    ASSUME M!MembersInv, NEW a \in M!Principals
    PROVE  /\ a.p \in M!Principal /\ a.via \in Tokens \cup {None}
           /\ role[a.p.user] \in M!Roles
           /\ a.via # None =>
                LET t == token[a.via] IN
                /\ t.state = "open" /\ a.p.user = t.user /\ t.role \in M!Roles
                /\ a.p.scope = t.scope \cap M!PermissionsFor(t.role)
                                       \cap M!PermissionsFor(role[t.user])
                /\ a.p.role = IF M!Cardinality(M!PermissionsFor(role[t.user]))
                                    < M!Cardinality(M!PermissionsFor(t.role))
                              THEN role[t.user] ELSE t.role
                /\ M!PermissionsFor(a.p.role) \subseteq M!PermissionsFor(t.role)
<1> USE MembersAssumption
<1>1. ASSUME NEW u \in M!User, role[u] # None,
             a = [p |-> M!SessionPrincipal(u, role[u]), via |-> None]
      PROVE  a.p \in M!Principal /\ a.via = None /\ role[a.p.user] \in M!Roles
  BY <1>1 DEF M!MembersInv, M!TypeOK, M!SessionPrincipal, M!Principal
<1>2. ASSUME NEW k \in Tokens, token[k].state = "open", a.via = k,
             a.p = M!TokenPrincipal(token[k].user, token[k].role, role[token[k].user], token[k].scope)
      PROVE  /\ a.p \in M!Principal /\ role[a.p.user] \in M!Roles
             /\ a.p.user = token[k].user /\ token[k].role \in M!Roles
             /\ a.p.scope = token[k].scope \cap M!PermissionsFor(token[k].role)
                                           \cap M!PermissionsFor(role[token[k].user])
             /\ a.p.role = IF M!Cardinality(M!PermissionsFor(role[token[k].user]))
                                    < M!Cardinality(M!PermissionsFor(token[k].role))
                           THEN role[token[k].user] ELSE token[k].role
             /\ M!PermissionsFor(a.p.role) \subseteq M!PermissionsFor(token[k].role)
  <2> DEFINE t == token[k]
             c == role[token[k].user]
  <2>1. t.user \in M!User /\ t.role \in M!Roles /\ c \in M!Roles /\ t.scope \subseteq M!Permission
    BY <1>2 DEF M!MembersInv, M!TypeOK, M!RowsFit, M!ApiToken
  <2>2. /\ a.p.user = t.user
        /\ a.p.scope = t.scope \cap M!PermissionsFor(t.role) \cap M!PermissionsFor(c)
        /\ a.p.role = IF M!Cardinality(M!PermissionsFor(c)) < M!Cardinality(M!PermissionsFor(t.role))
                      THEN c ELSE t.role
        /\ a.p = [user |-> a.p.user, role |-> a.p.role, scope |-> a.p.scope]
    BY <1>2 DEF M!TokenPrincipal
  <2>3. a.p.role \in M!Roles /\ M!PermissionsFor(a.p.role) \subseteq M!PermissionsFor(t.role)
    BY <2>1, <2>2, FewerIsWeaker
  <2>4. a.p \in M!Principal
    BY <2>1, <2>2, <2>3 DEF M!Principal
  <2>5. QED
    BY <2>1, <2>2, <2>3, <2>4
<1>3. \/ \E u \in M!User : role[u] # None /\ a = [p |-> M!SessionPrincipal(u, role[u]), via |-> None]
      \/ \E k \in Tokens : /\ token[k].state = "open" /\ a.via = k
            /\ a.p = M!TokenPrincipal(token[k].user, token[k].role, role[token[k].user], token[k].scope)
  BY DEF M!Principals
<1>4. QED
  BY <1>1, <1>2, <1>3

-----------------------------------------------------------------------------
(* Steps that write accounts or only move their handler.                    *)

\* What a handler may hold in the present state.
Fits(e) ==
    /\ e \in M!Handler
    /\ e.at = "idle" => e = M!NoBody
    /\ e.at \in {"create", "ensure", "invite", "named", "issuing", "activate", "update", "checked",
                 "read"} => e.user \in M!User
    /\ e.at \in {"create", "invite", "named", "issuing", "activate"} => e.role \in M!Granted
    /\ e.at = "ensure" => e.role \in M!Roles
    /\ e.at \in {"update", "checked", "read"} => e.role \in M!Granted \cup {None}
    /\ e.at \in {"invite", "named", "issuing", "update", "checked", "read", "token"} => e.by # None
    /\ e.at = "activate" => e.invite # None
    /\ e.at \in {"named", "issuing", "checked", "read"} => M!Allowed(e.by, e.role)
    /\ e.at \in {"checked", "read"} => role[e.user] # None
    /\ e.at = "read" => e.row \in M!Copy /\ (e.row.role = "ADMIN" => e.user \in raised)
    /\ e.at = "create" /\ e.by = None /\ e.invite = None => e.role = "REVIEWER"
    /\ e.by # None => role[e.by.user] # None
    /\ e.via # None =>
          /\ e.by # None /\ token[e.via].state # "none"
          /\ e.by.scope \subseteq token[e.via].scope
          /\ M!PermissionsFor(e.by.role) \subseteq M!PermissionsFor(token[e.via].role)
    /\ e.invite # None =>
          /\ e.at \in {"activate", "create", "ensure"} /\ e.by = None
          /\ e.role = invite[e.invite].role
          /\ \/ invite[e.invite].state = "used"
             \/ e.at = "activate" /\ invite[e.invite].state = "open"

LEMMA HandlersHave ==
    ASSUME M!MembersInv, NEW q \in Requests
    PROVE  Fits(mreq[q])
<1>1. mreq[q] \in M!Handler
  BY DEF M!MembersInv, M!TypeOK
<1>2. QED
  BY <1>1 DEF M!MembersInv, M!HandlersFit, M!CopiesFit, M!PrincipalsFit, M!InvitesFit, Fits

\* Accounts are added and changed, never removed, and one request moves on.
LEMMA HandlerMoves ==
    ASSUME M!MembersInv, NEW q \in Requests, NEW e, Fits(e),
           mreq' = [mreq EXCEPT ![q] = e], UNCHANGED <<invite, token, minted>>,
           role' \in [M!User -> M!Roles \cup {None}], member' \in [M!User -> M!Roles \cup {None}],
           mactive' \in [M!User -> BOOLEAN], grantor' \in [M!User -> M!Roles \cup {None}],
           primary' \in Workspaces \cup {None},
           \A u \in M!User : role[u] # None => role'[u] # None,
           raised \subseteq raised', raised' \subseteq M!User, restored' \subseteq M!User,
           \A u \in M!User : role'[u] = "ADMIN" =>
               u \in raised' /\ (grantor'[u] = "OWNER" \/ u \in restored'),
           e.invite # None /\ e.at \in {"create", "ensure"} =>
               mreq[q].invite = e.invite /\ mreq[q].at \in {"create", "ensure"}
    PROVE  M!MembersInv'
<1> USE MembersAssumption
<1>1. mreq'[q] = e /\ \A p \in Requests : p # q => mreq'[p] = mreq[p]
  BY DEF M!MembersInv, M!TypeOK
<1>2. M!TypeOK'
  BY DEF M!MembersInv, M!TypeOK, Fits
<1>3. M!RowsFit' /\ M!TokenChain' /\ M!AdminByOwner'
  BY DEF M!MembersInv, M!RowsFit, M!TokenChain, M!AdminByOwner
<1>4. M!OneActivation'
  BY <1>1 DEF M!MembersInv, M!OneActivation
<1>5. ASSUME NEW p \in Requests PROVE Fits(mreq'[p])
  BY <1>1, HandlersHave
<1>6. M!HandlersFit'
  <2> SUFFICES ASSUME NEW p \in Requests, NEW b, b = mreq'[p], Fits(b)
               PROVE  /\ b.at = "idle" => b = M!NoBody
                      /\ b.at \in {"create", "ensure", "invite", "named", "issuing", "activate",
                                   "update", "checked", "read"} => b.user \in M!User
                      /\ b.at \in {"create", "invite", "named", "issuing", "activate"} =>
                            b.role \in M!Granted
                      /\ b.at = "ensure" => b.role \in M!Roles
                      /\ b.at \in {"update", "checked", "read"} => b.role \in M!Granted \cup {None}
                      /\ b.at \in {"invite", "named", "issuing", "update", "checked", "read", "token"}
                            => b.by # None
                      /\ b.at = "activate" => b.invite # None
                      /\ b.at \in {"named", "issuing", "checked", "read"} => M!Allowed(b.by, b.role)
                      /\ b.at \in {"checked", "read"} => role'[b.user] # None
                      /\ b.at = "create" /\ b.by = None /\ b.invite = None => b.role = "REVIEWER"
    BY <1>5 DEF M!HandlersFit, M!Allowed
  <2>1. QED
    BY DEF Fits
<1>7. M!PrincipalsFit'
  <2> SUFFICES ASSUME NEW p \in Requests, NEW b, b = mreq'[p], Fits(b)
               PROVE  /\ b.by # None => role'[b.by.user] # None
                      /\ b.via # None =>
                            /\ b.by # None /\ token[b.via].state # "none"
                            /\ b.by.scope \subseteq token[b.via].scope
                            /\ M!PermissionsFor(b.by.role) \subseteq M!PermissionsFor(token[b.via].role)
    BY <1>5 DEF M!PrincipalsFit
  <2>1. b.by # None => b.by.user \in M!User
    BY DEF Fits, M!Handler, M!Principal
  <2>2. QED
    BY <2>1 DEF Fits
<1>8. M!InvitesFit'
  BY <1>5 DEF M!InvitesFit, Fits
<1>9. M!CopiesFit'
  BY <1>5 DEF M!CopiesFit, Fits
<1>10. QED
  BY <1>2, <1>3, <1>4, <1>6, <1>7, <1>8, <1>9 DEF M!MembersInv

\* The handler alone moves.
LEMMA OnlyHandler ==
    ASSUME M!MembersInv, NEW q \in Requests, NEW e, Fits(e),
           mreq' = [mreq EXCEPT ![q] = e],
           UNCHANGED <<role, mactive, primary, invite, token, grantor, raised, restored, minted>>,
           member' \in [M!User -> M!Roles \cup {None}],
           e.invite # None => e.at \notin {"create", "ensure"}
    PROVE  M!MembersInv'
  BY HandlerMoves DEF M!MembersInv, M!TypeOK, M!AdminByOwner

LEMMA FinishedFits ==
    /\ Fits([M!NoBody EXCEPT !.at = "done"])
    /\ [M!NoBody EXCEPT !.at = "done"].invite = None
  BY MembersAssumption DEF Fits, M!NoBody, M!Handler

LEMMA RefusedKeeps ==
    ASSUME M!MembersInv, NEW q \in Requests, M!Refused(q)
    PROVE  M!MembersInv'
<1> DEFINE e == [M!NoBody EXCEPT !.at = "done"]
<1>1. Fits(e) /\ e.invite = None
  BY FinishedFits
<1>2. mreq' = [mreq EXCEPT ![q] = e]
  BY DEF M!Refused, M!Done, M!Body
<1> HIDE DEF e
<1>3. QED
  BY <1>1, <1>2, OnlyHandler DEF M!Refused, M!MembersInv, M!TypeOK

LEMMA EnsureKeeps ==
    ASSUME M!MembersInv, NEW q \in Requests, M!Ensure(q)
    PROVE  M!MembersInv'
<1> DEFINE e == [M!NoBody EXCEPT !.at = "done"]
<1>1. Fits(e) /\ e.invite = None
  BY FinishedFits
<1>2. mreq' = [mreq EXCEPT ![q] = e]
  BY DEF M!Ensure, M!Done, M!Body
<1>3. member' \in [M!User -> M!Roles \cup {None}]
  BY HandlersHave DEF M!Ensure, Fits, M!MembersInv, M!TypeOK
<1> HIDE DEF e
<1>4. QED
  BY <1>1, <1>2, <1>3, OnlyHandler DEF M!Ensure

\* create_member, create_invitation, update_member and create_token admit a principal.
LEMMA AdmitKeeps ==
    ASSUME M!MembersInv, NEW q \in Requests, NEW a \in M!Principals, NEW route, NEW at, NEW u, NEW r,
           NEW act, M!Admit(q, a, route, at, u, r, act),
           \/ at \in {"create", "invite"} /\ u \in M!User /\ r \in M!Granted /\ act = None
           \/ at = "update" /\ u \in M!User /\ r \in M!Granted \cup {None}
              /\ act \in BOOLEAN \cup {None}
           \/ at = "token" /\ u = None /\ r = None /\ act = None
    PROVE  M!MembersInv'
<1> USE MembersAssumption
<1> DEFINE e == [M!NoBody EXCEPT !.at = at, !.by = a.p, !.via = a.via, !.user = u, !.role = r,
                                 !.active = act]
<1>1. mreq' = [mreq EXCEPT ![q] = e]
  BY DEF M!Admit, M!Body
<1>2. /\ a.p \in M!Principal /\ a.p # None /\ a.via \in Tokens \cup {None}
      /\ role[a.p.user] # None
      /\ a.via # None => /\ token[a.via].state # "none" /\ a.p.scope \subseteq token[a.via].scope
                         /\ M!PermissionsFor(a.p.role) \subseteq M!PermissionsFor(token[a.via].role)
  BY PrincipalsHold DEF M!Roles
<1>3. /\ e.at = at /\ e.by = a.p /\ e.via = a.via /\ e.user = u /\ e.role = r /\ e.active = act
      /\ e.invite = None
  BY DEF M!NoBody
<1>4. e \in M!Handler
  <2>1. M!Granted \subseteq M!Roles
    BY DEF M!Granted
  <2>2. M!NoBody \in M!Handler
    BY DEF M!NoBody, M!Handler
  <2>3. /\ at \in {"create", "invite", "update", "token"} /\ u \in M!User \cup {None}
        /\ r \in M!Roles \cup {None} /\ act \in BOOLEAN \cup {None}
    BY <2>1
  <2>4. QED
    BY <1>2, <2>2, <2>3 DEF M!Handler
<1> HIDE DEF e
<1>5. Fits(e)
  BY <1>2, <1>3, <1>4 DEF Fits
<1>6. QED
  BY <1>1, <1>3, <1>5, OnlyHandler DEF M!Admit, M!MembersInv, M!TypeOK

LEMMA BootstrapCountKeeps ==
    ASSUME M!MembersInv, NEW q \in Requests, M!BootstrapCount(q)
    PROVE  M!MembersInv'
<1> USE MembersAssumption
<1> DEFINE e == [mreq[q] EXCEPT !.at = "bootstrap"]
<1>1. mreq[q] = M!NoBody /\ mreq' = [mreq EXCEPT ![q] = e]
  BY DEF M!BootstrapCount, M!Goto, M!MembersInv, M!HandlersFit
<1>2. Fits(e) /\ e.invite = None
  BY <1>1 DEF Fits, M!NoBody, M!Handler
<1> HIDE DEF e
<1>3. QED
  BY <1>1, <1>2, OnlyHandler DEF M!BootstrapCount, M!MembersInv, M!TypeOK

LEMMA TrialJoinKeeps ==
    ASSUME M!MembersInv, NEW q \in Requests, NEW n \in Names, M!TrialJoin(q, n)
    PROVE  M!MembersInv'
<1> USE MembersAssumption
<1> DEFINE e == [M!NoBody EXCEPT !.at = "create", !.user = <<primary, n>>, !.role = "REVIEWER"]
<1>1. mreq' = [mreq EXCEPT ![q] = e]
  BY DEF M!TrialJoin, M!Body
<1>2. <<primary, n>> \in M!User /\ "REVIEWER" \in M!Granted /\ M!Granted \subseteq M!Roles
  BY DEF M!TrialJoin, M!MembersInv, M!TypeOK, M!User, M!Granted, M!Roles
<1>3. /\ e.at = "create" /\ e.user = <<primary, n>> /\ e.role = "REVIEWER" /\ e.by = None
      /\ e.via = None /\ e.invite = None
  BY DEF M!NoBody
<1>4. e \in M!Handler
  <2>1. M!NoBody \in M!Handler
    BY DEF M!NoBody, M!Handler
  <2>2. QED
    BY <1>2, <2>1 DEF M!Handler
<1> HIDE DEF e
<1>5. Fits(e)
  BY <1>2, <1>3, <1>4 DEF Fits
<1>6. QED
  BY <1>1, <1>3, <1>5, OnlyHandler DEF M!TrialJoin, M!MembersInv, M!TypeOK

\* activate_invitation looks at an open invitation.
LEMMA ActivateKeeps ==
    ASSUME M!MembersInv, NEW q \in Requests, NEW i \in Invites, M!Activate(q, i)
    PROVE  M!MembersInv'
<1> USE MembersAssumption
<1> DEFINE e == [M!NoBody EXCEPT !.at = "activate", !.invite = i, !.user = invite[i].user,
                                 !.role = invite[i].role]
<1>1. mreq' = [mreq EXCEPT ![q] = e]
  BY DEF M!Activate, M!Body
<1>2. /\ invite[i].user \in M!User /\ invite[i].role \in M!Granted /\ M!Granted \subseteq M!Roles
      /\ invite[i].state = "open"
  BY DEF M!Activate, M!MembersInv, M!RowsFit, M!Granted
<1>3. /\ e.at = "activate" /\ e.user = invite[i].user /\ e.role = invite[i].role /\ e.by = None
      /\ e.via = None /\ e.invite = i
  BY DEF M!NoBody
<1>4. e \in M!Handler
  <2>1. M!NoBody \in M!Handler
    BY DEF M!NoBody, M!Handler
  <2>2. QED
    BY <1>2, <2>1 DEF M!Handler
<1> HIDE DEF e
<1>5. Fits(e)
  BY <1>2, <1>3, <1>4 DEF Fits
<1>6. QED
  BY <1>1, <1>3, <1>5, OnlyHandler DEF M!Activate, M!MembersInv, M!TypeOK

LEMMA UpdateCheckKeeps ==
    ASSUME M!MembersInv, NEW q \in Requests, M!UpdateCheck(q)
    PROVE  M!MembersInv'
<1> USE MembersAssumption
<1> DEFINE e == [mreq[q] EXCEPT !.at = "checked"]
<1>1. mreq[q].at = "update" /\ Fits(mreq[q]) /\ mreq[q] \in M!Handler
  BY HandlersHave DEF M!UpdateCheck, Fits
<1>2. CASE mreq' = [mreq EXCEPT ![q] = e] /\ role[mreq[q].user] # None
           /\ M!Allowed(mreq[q].by, mreq[q].role)
  <2>1. e \in M!Handler
    BY <1>1 DEF M!Handler
  <2>2. /\ e.at = "checked" /\ e.user = mreq[q].user /\ e.role = mreq[q].role
        /\ e.by = mreq[q].by /\ e.via = mreq[q].via /\ e.invite = None
    BY <1>1 DEF M!Handler, Fits
  <2> HIDE DEF e
  <2>3. Fits(e)
    BY <1>1, <1>2, <2>1, <2>2 DEF Fits
  <2>4. QED
    BY <1>2, <2>2, <2>3, OnlyHandler DEF M!UpdateCheck, M!MembersInv, M!TypeOK
<1>3. CASE M!Done(q)
  BY <1>3, RefusedKeeps DEF M!UpdateCheck, M!Refused
<1>4. QED
  BY <1>2, <1>3 DEF M!UpdateCheck, M!Goto

\* The row an update copies is that of an account; an administrator was made one by an owner.
LEMMA UpdateReadKeeps ==
    ASSUME M!MembersInv, NEW q \in Requests, M!UpdateRead(q)
    PROVE  M!MembersInv'
<1> USE MembersAssumption
<1> DEFINE b == mreq[q]
           copy == [role |-> role[b.user], active |-> mactive[b.user]]
           e == [b EXCEPT !.at = "read", !.row = copy]
<1>1. b.at = "checked" /\ Fits(b) /\ b \in M!Handler
  BY HandlersHave DEF M!UpdateRead, Fits
<1>2. mreq' = [mreq EXCEPT ![q] = e]
  BY <1>1 DEF M!UpdateRead, M!MembersInv, M!TypeOK
<1>3. b.user \in M!User /\ role[b.user] \in M!Roles /\ mactive[b.user] \in BOOLEAN
  BY <1>1 DEF Fits, M!MembersInv, M!TypeOK
<1>4. copy \in M!Copy /\ copy.role = role[b.user]
  BY <1>3 DEF M!Copy
<1>5. copy.role = "ADMIN" => b.user \in raised
  BY <1>3, <1>4 DEF M!MembersInv, M!AdminByOwner
<1> HIDE DEF copy
<1>6. /\ e \in M!Handler /\ e.at = "read" /\ e.user = b.user /\ e.role = b.role /\ e.by = b.by
      /\ e.via = b.via /\ e.invite = b.invite /\ e.row = copy
  BY <1>1, <1>4 DEF M!Handler
<1> HIDE DEF e
<1>7. Fits(e) /\ e.invite = None
  BY <1>1, <1>4, <1>5, <1>6 DEF Fits
<1>8. QED
  BY <1>2, <1>7, OnlyHandler DEF M!UpdateRead, M!MembersInv, M!TypeOK

\* update_workspace_member: a role that is written was allowed to the principal of the request,
\* or was read from the row, where an owner had put it if it is ADMIN.
LEMMA UpdateWriteKeeps ==
    ASSUME M!MembersInv, NEW q \in Requests, M!UpdateWrite(q)
    PROVE  M!MembersInv'
<1> USE MembersAssumption
<1> DEFINE e == [M!NoBody EXCEPT !.at = "done"]
           b == mreq[q]
           r == IF b.role = None THEN b.row.role ELSE b.role
<1>1. Fits(e) /\ e.invite = None
  BY FinishedFits
<1>2. mreq' = [mreq EXCEPT ![q] = e]
  BY DEF M!UpdateWrite, M!Done, M!Body
<1> HIDE DEF e
<1>3. b.at = "read" /\ Fits(b) /\ b \in M!Handler
  BY HandlersHave DEF M!UpdateWrite, Fits
<1>4. /\ b.user \in M!User /\ b.by \in M!Principal /\ b.by.role \in M!Roles
      /\ role[b.user] # None /\ M!Allowed(b.by, b.role) /\ b.role \in M!Granted \cup {None}
      /\ b.row \in M!Copy /\ (b.row.role = "ADMIN" => b.user \in raised)
  BY <1>3 DEF Fits, M!Handler, M!Principal
<1>5. r \in M!Roles /\ r # None /\ b.active \in BOOLEAN \cup {None} /\ b.row.active \in BOOLEAN
  BY <1>3, <1>4 DEF M!Copy, M!Granted, M!Handler
<1>6. /\ role' = [role EXCEPT ![b.user] = r]
      /\ member' = [member EXCEPT ![b.user] = IF @ = None THEN None ELSE r]
      /\ mactive' = [mactive EXCEPT ![b.user] = IF b.active = None THEN b.row.active ELSE b.active]
      /\ IF b.role # None THEN M!Grants(b.user, r, b.by.role)
         ELSE /\ restored' = IF r # role[b.user] THEN restored \cup {b.user} ELSE restored
              /\ UNCHANGED <<grantor, raised>>
  BY DEF M!UpdateWrite
<1>7. /\ role' \in [M!User -> M!Roles \cup {None}] /\ member' \in [M!User -> M!Roles \cup {None}]
      /\ grantor' \in [M!User -> M!Roles \cup {None}]
      /\ raised \subseteq raised' /\ raised' \subseteq M!User /\ restored' \subseteq M!User
  BY <1>4, <1>5, <1>6 DEF M!MembersInv, M!TypeOK, M!Grants
<1>8. mactive' \in [M!User -> BOOLEAN]
  BY <1>4, <1>5, <1>6 DEF M!MembersInv, M!TypeOK
<1>9. \A u \in M!User : role[u] # None => role'[u] # None
  BY <1>4, <1>5, <1>6 DEF M!MembersInv, M!TypeOK
<1>10. ASSUME NEW u \in M!User, role'[u] = "ADMIN"
       PROVE  u \in raised' /\ (grantor'[u] = "OWNER" \/ u \in restored')
  <2>1. role[u] = "ADMIN" => u \in raised /\ (grantor[u] = "OWNER" \/ u \in restored)
    BY DEF M!MembersInv, M!AdminByOwner
  <2>2. CASE u # b.user
    BY <1>4, <1>6, <1>10, <2>1, <2>2 DEF M!MembersInv, M!TypeOK, M!Grants
  <2>3. CASE u = b.user /\ b.role # None
    BY <1>4, <1>6, <1>10, <2>3 DEF M!MembersInv, M!TypeOK, M!Grants, M!Allowed
  <2>4. CASE u = b.user /\ b.role = None
    <3>1. r = "ADMIN" /\ u \in raised /\ raised' = raised /\ grantor' = grantor
      BY <1>4, <1>6, <1>10, <2>4 DEF M!MembersInv, M!TypeOK
    <3>2. QED
      BY <1>6, <2>1, <2>4, <3>1
  <2>5. QED
    BY <2>2, <2>3, <2>4
<1>11. QED
  BY <1>1, <1>2, <1>7, <1>8, <1>9, <1>10, HandlerMoves DEF M!UpdateWrite, M!MembersInv, M!TypeOK

\* An account is added with a role its grantor may give.
LEMMA CreateUserKeeps ==
    ASSUME M!MembersInv, NEW q \in Requests, NEW u \in M!User, NEW r \in M!Roles,
           NEW by \in M!Roles \cup {None}, M!CreateUser(q, u, r, by),
           r = "ADMIN" => by = "OWNER",
           mreq[q].at \in {"idle", "bootstrap", "create"},
           mreq[q].invite # None => mreq[q].at = "create" /\ mreq[q].role = r
    PROVE  M!MembersInv'
<1> USE MembersAssumption
<1> DEFINE e == [mreq[q] EXCEPT !.at = "ensure", !.user = u, !.role = r]
<1>1. Fits(mreq[q]) /\ mreq[q] \in M!Handler
  BY HandlersHave DEF Fits
<1>2. mreq' = [mreq EXCEPT ![q] = e]
  BY <1>1 DEF M!CreateUser, M!MembersInv, M!TypeOK
<1>3. /\ e \in M!Handler /\ e.at = "ensure" /\ e.user = u /\ e.role = r /\ e.by = mreq[q].by
      /\ e.via = mreq[q].via /\ e.invite = mreq[q].invite
  BY <1>1 DEF M!Handler
<1> HIDE DEF e
<1>4. Fits(e)
  BY <1>1, <1>3 DEF Fits
<1>5. /\ role' \in [M!User -> M!Roles \cup {None}] /\ grantor' \in [M!User -> M!Roles \cup {None}]
      /\ \A v \in M!User : role[v] # None => role'[v] # None
      /\ raised \subseteq raised' /\ raised' \subseteq M!User /\ restored' \subseteq M!User
      /\ \A v \in M!User : role'[v] = "ADMIN" =>
            v \in raised' /\ (grantor'[v] = "OWNER" \/ v \in restored')
  BY DEF M!CreateUser, M!Grants, M!MembersInv, M!TypeOK, M!AdminByOwner
<1>6. mactive' \in [M!User -> BOOLEAN]
  BY DEF M!CreateUser, M!MembersInv, M!TypeOK
<1>7. primary' \in Workspaces \cup {None}
  BY DEF M!CreateUser, M!MembersInv, M!TypeOK, M!User
<1>8. UNCHANGED <<invite, token, minted>> /\ member' \in [M!User -> M!Roles \cup {None}]
  BY DEF M!CreateUser, M!MembersInv, M!TypeOK
<1>9. e.invite # None => mreq[q].invite = e.invite /\ mreq[q].at = "create"
  BY <1>3
<1>10. QED
  BY <1>2, <1>4, <1>5, <1>6, <1>7, <1>8, <1>9, HandlerMoves

LEMMA CreateKeeps ==
    ASSUME M!MembersInv, NEW q \in Requests, M!Create(q)
    PROVE  M!MembersInv'
<1> USE MembersAssumption
<1> DEFINE b == mreq[q]
           by == IF b.invite # None THEN invite[b.invite].by
                 ELSE IF b.by # None THEN b.by.role ELSE None
<1>1. b.at = "create" /\ Fits(b) /\ b \in M!Handler
  BY HandlersHave DEF M!Create, Fits
<1>2. CASE M!CreateUser(q, b.user, b.role, by) /\ (b.by # None => M!Allowed(b.by, b.role))
  <2>1. b.user \in M!User /\ b.role \in M!Roles
    BY <1>1 DEF Fits, M!Granted
  <2>2. by \in M!Roles \cup {None} /\ (b.role = "ADMIN" => by = "OWNER")
    <3>1. CASE b.invite # None
      <4>1. b.invite \in Invites /\ invite[b.invite].state # "none" /\ b.role = invite[b.invite].role
        BY <1>1, <3>1 DEF Fits, M!Handler
      <4>2. QED
        BY <3>1, <4>1 DEF M!MembersInv, M!RowsFit
    <3>2. CASE b.invite = None
      BY <1>1, <1>2, <3>2 DEF Fits, M!Handler, M!Principal, M!Allowed
    <3>3. QED
      BY <3>1, <3>2
  <2> HIDE DEF by
  <2>3. QED
    BY <1>1, <1>2, <2>1, <2>2, CreateUserKeeps
<1>3. CASE M!Refused(q)
  BY <1>3, RefusedKeeps
<1>4. QED
  BY <1>2, <1>3 DEF M!Create

LEMMA FoundKeeps ==
    ASSUME M!MembersInv, NEW q \in Requests, NEW u \in M!User, M!Found(q, u)
    PROVE  M!MembersInv'
<1>1. mreq[q].at \in {"bootstrap", "idle"} /\ M!CreateUser(q, u, "OWNER", None)
  BY DEF M!Found
<1>2. mreq[q].invite = None
  BY <1>1 DEF M!MembersInv, M!InvitesFit
<1>3. QED
  BY <1>1, <1>2, CreateUserKeeps DEF M!Roles

-----------------------------------------------------------------------------
(* Steps that write invitations.                                            *)

\* Invitations are written once and then only used up; a request that uses up an open one
\* goes on to its account.
LEMMA InvitesMove ==
    ASSUME M!MembersInv,
           UNCHANGED <<role, mactive, member, primary, token, grantor, raised, restored, minted>>,
           invite' \in [Invites -> M!InviteRow], mreq' \in [Requests -> M!Handler],
           \A i \in Invites : invite[i].state # "none" =>
               /\ invite'[i].user = invite[i].user /\ invite'[i].role = invite[i].role
               /\ invite'[i].by = invite[i].by /\ invite'[i].state # "none"
               /\ invite[i].state = "used" => invite'[i].state = "used",
           \A i \in Invites : invite[i].state = "none" /\ invite'[i].state # "none" =>
               /\ invite'[i].user \in M!User /\ invite'[i].role \in M!Granted
               /\ invite'[i].by \in M!Roles
               /\ invite'[i].role = "ADMIN" => invite'[i].by = "OWNER",
           \A p \in Requests :
               \/ mreq'[p] = mreq[p]
               \/ mreq'[p] = [M!NoBody EXCEPT !.at = "done"]
               \/ /\ mreq[p].at = "activate" /\ mreq'[p] = [mreq[p] EXCEPT !.at = "create"]
                  /\ mreq[p].invite # None /\ invite[mreq[p].invite].state = "open"
                  /\ invite'[mreq[p].invite].state = "used"
                  /\ \A r \in Requests : r # p => mreq'[r] = mreq[r]
    PROVE  M!MembersInv'
<1> USE MembersAssumption
<1> DEFINE Moved(p) == /\ mreq[p].at = "activate" /\ mreq'[p] = [mreq[p] EXCEPT !.at = "create"]
                       /\ mreq[p].invite # None /\ invite[mreq[p].invite].state = "open"
                       /\ invite'[mreq[p].invite].state = "used"
                       /\ \A r \in Requests : r # p => mreq'[r] = mreq[r]
           Over == [M!NoBody EXCEPT !.at = "done"]
<1>1. M!TypeOK'
  BY DEF M!MembersInv, M!TypeOK
<1>2. M!RowsFit' /\ M!TokenChain' /\ M!AdminByOwner'
  <2>1. M!TokenChain' /\ M!AdminByOwner'
    BY DEF M!MembersInv, M!TokenChain, M!AdminByOwner
  <2>2. ASSUME NEW i \in Invites, invite'[i].state # "none"
        PROVE  /\ invite'[i].user \in M!User /\ invite'[i].role \in M!Granted
               /\ invite'[i].by \in M!Roles
               /\ invite'[i].role = "ADMIN" => invite'[i].by = "OWNER"
    <3>1. CASE invite[i].state = "none"
      BY <2>2, <3>1
    <3>2. CASE invite[i].state # "none"
      BY <3>2 DEF M!MembersInv, M!RowsFit
    <3>3. QED
      BY <3>1, <3>2
  <2>3. /\ \A k \in Tokens : token[k].state # "none" =>
             token[k].user \in M!User /\ token[k].role \in M!Roles /\ role[token[k].user] # None
        /\ \A k \in Tokens : minted[k] # None =>
             token[k].state # "none" /\ token[minted[k]].state # "none"
    BY DEF M!MembersInv, M!RowsFit
  <2>4. M!RowsFit'
    BY <2>2, <2>3 DEF M!RowsFit
  <2>5. QED
    BY <2>1, <2>4
<1>3. /\ Over.at = "done" /\ Over.by = None /\ Over.via = None /\ Over.invite = None
  BY DEF M!NoBody
<1>4. ASSUME NEW p \in Requests, Moved(p)
      PROVE  /\ mreq'[p].at = "create" /\ mreq'[p].user = mreq[p].user
             /\ mreq'[p].role = mreq[p].role /\ mreq'[p].by = mreq[p].by
             /\ mreq'[p].via = mreq[p].via /\ mreq'[p].invite = mreq[p].invite
             /\ Fits(mreq[p])
  <2>1. mreq[p] \in M!Handler
    BY DEF M!MembersInv, M!TypeOK
  <2>2. QED
    BY <1>4, <2>1, HandlersHave DEF M!Handler
<1> HIDE DEF Over
<1>5. ASSUME NEW p \in Requests PROVE mreq'[p] = mreq[p] \/ mreq'[p] = Over \/ Moved(p)
  BY DEF Over
<1> HIDE DEF Moved
<1>6. M!HandlersFit'
  <2> SUFFICES ASSUME NEW p \in Requests
               PROVE  /\ mreq'[p].at = "idle" => mreq'[p] = M!NoBody
                      /\ mreq'[p].at \in {"create", "ensure", "invite", "named", "issuing", "activate",
                                          "update", "checked", "read"} => mreq'[p].user \in M!User
                      /\ mreq'[p].at \in {"create", "invite", "named", "issuing", "activate"} =>
                            mreq'[p].role \in M!Granted
                      /\ mreq'[p].at = "ensure" => mreq'[p].role \in M!Roles
                      /\ mreq'[p].at \in {"update", "checked", "read"} =>
                            mreq'[p].role \in M!Granted \cup {None}
                      /\ mreq'[p].at \in {"invite", "named", "issuing", "update", "checked", "read",
                                          "token"} => mreq'[p].by # None
                      /\ mreq'[p].at = "activate" => mreq'[p].invite # None
                      /\ mreq'[p].at \in {"named", "issuing", "checked", "read"} =>
                            M!Allowed(mreq'[p].by, mreq'[p].role)
                      /\ mreq'[p].at \in {"checked", "read"} => role[mreq'[p].user] # None
                      /\ mreq'[p].at = "create" /\ mreq'[p].by = None /\ mreq'[p].invite = None =>
                            mreq'[p].role = "REVIEWER"
    BY DEF M!HandlersFit, M!Allowed
  <2>1. CASE mreq'[p] = mreq[p]
    BY <2>1, HandlersHave DEF Fits
  <2>2. CASE mreq'[p] = Over
    BY <2>2, <1>3
  <2>3. CASE Moved(p)
    <3>1. mreq[p].at = "activate" /\ mreq[p].invite # None
      BY <2>3 DEF Moved
    <3>2. QED
      BY <2>3, <1>4, <3>1 DEF Fits
  <2>4. QED
    BY <2>1, <2>2, <2>3, <1>5
<1>7. M!PrincipalsFit'
  <2> SUFFICES ASSUME NEW p \in Requests
               PROVE  /\ mreq'[p].by # None => role[mreq'[p].by.user] # None
                      /\ mreq'[p].via # None =>
                            /\ mreq'[p].by # None /\ token[mreq'[p].via].state # "none"
                            /\ mreq'[p].by.scope \subseteq token[mreq'[p].via].scope
                            /\ M!PermissionsFor(mreq'[p].by.role)
                                  \subseteq M!PermissionsFor(token[mreq'[p].via].role)
    BY DEF M!PrincipalsFit
  <2>1. Fits(mreq[p])
    BY HandlersHave
  <2>2. CASE mreq'[p] = mreq[p] \/ Moved(p)
    <3>1. mreq'[p].by = mreq[p].by /\ mreq'[p].via = mreq[p].via
      BY <1>4, <2>2
    <3>2. QED
      BY <2>1, <3>1 DEF Fits
  <2>3. CASE mreq'[p] = Over
    BY <1>3, <2>3
  <2>4. QED
    BY <1>5, <2>2, <2>3
<1>8. M!InvitesFit'
  <2> SUFFICES ASSUME NEW p \in Requests, mreq'[p].invite # None
               PROVE  /\ mreq'[p].at \in {"activate", "create", "ensure"} /\ mreq'[p].by = None
                      /\ mreq'[p].role = invite'[mreq'[p].invite].role
                      /\ \/ invite'[mreq'[p].invite].state = "used"
                         \/ mreq'[p].at = "activate" /\ invite'[mreq'[p].invite].state = "open"
    BY DEF M!InvitesFit
  <2>1. Fits(mreq[p])
    BY HandlersHave
  <2>2. mreq[p].invite # None => mreq[p].invite \in Invites
    BY <2>1 DEF Fits, M!Handler
  <2>3. \A i \in Invites : invite'[i].state \in {"none", "open", "used"}
    BY DEF M!InviteRow
  <2>4. CASE mreq'[p] = mreq[p]
    BY <2>1, <2>2, <2>3, <2>4 DEF Fits
  <2>5. CASE Moved(p)
    BY <1>4, <2>1, <2>2, <2>5 DEF Fits, Moved
  <2>6. QED
    BY <1>3, <1>5, <2>4, <2>5
<1>9. M!OneActivation'
  <2> SUFFICES ASSUME NEW p \in Requests, NEW r \in Requests, p # r,
                      mreq'[p].invite # None, mreq'[p].invite = mreq'[r].invite,
                      mreq'[p].at \in {"create", "ensure"}, mreq'[r].at \in {"create", "ensure"}
               PROVE  FALSE
    BY DEF M!OneActivation
  <2>1. ASSUME NEW x \in Requests, NEW y \in Requests, x # y, Moved(x),
               mreq'[x].invite = mreq'[y].invite, mreq'[y].at \in {"create", "ensure"}
        PROVE  FALSE
    <3>1. mreq'[y] = mreq[y] /\ invite[mreq[x].invite].state = "open" /\ mreq[x].invite # None
      BY <2>1 DEF Moved
    <3>2. mreq[y].invite = mreq[x].invite
      BY <1>4, <2>1, <3>1
    <3>3. QED
      BY <2>1, <3>1, <3>2, HandlersHave DEF Fits
  <2>2. QED
    BY <1>3, <1>5, <2>1 DEF M!MembersInv, M!OneActivation
<1>10. M!CopiesFit'
  <2>1. ASSUME NEW p \in Requests, mreq'[p].at = "read"
        PROVE  mreq'[p] = mreq[p]
    BY <1>3, <1>4, <1>5, <2>1
  <2>2. QED
    BY <2>1 DEF M!MembersInv, M!CopiesFit
<1>11. QED
  BY <1>1, <1>2, <1>6, <1>7, <1>8, <1>9, <1>10 DEF M!MembersInv

LEMMA FinishedIsHandler == [M!NoBody EXCEPT !.at = "done"] \in M!Handler
  BY FinishedFits DEF Fits

\* create_invitation goes on if the principal of the request may give the role.
LEMMA InviteCheckKeeps ==
    ASSUME M!MembersInv, NEW q \in Requests, M!InviteCheck(q)
    PROVE  M!MembersInv'
<1> USE MembersAssumption
<1> DEFINE e == [mreq[q] EXCEPT !.at = "named"]
<1>1. mreq[q].at = "invite" /\ Fits(mreq[q]) /\ mreq[q] \in M!Handler
  BY HandlersHave DEF M!InviteCheck, Fits
<1>2. CASE mreq' = [mreq EXCEPT ![q] = e] /\ M!Allowed(mreq[q].by, mreq[q].role)
  <2>1. /\ e \in M!Handler /\ e.at = "named" /\ e.user = mreq[q].user /\ e.role = mreq[q].role
        /\ e.by = mreq[q].by /\ e.via = mreq[q].via /\ e.invite = mreq[q].invite
    BY <1>1 DEF M!Handler
  <2> HIDE DEF e
  <2>2. Fits(e) /\ e.invite = None
    BY <1>1, <1>2, <2>1 DEF Fits
  <2>3. QED
    BY <1>2, <2>2, OnlyHandler DEF M!InviteCheck, M!MembersInv, M!TypeOK
<1>3. CASE M!Done(q)
  BY <1>3, RefusedKeeps DEF M!InviteCheck, M!Refused
<1>4. QED
  BY <1>2, <1>3 DEF M!InviteCheck, M!Goto

LEMMA InviteIssueKeeps ==
    ASSUME M!MembersInv, NEW q \in Requests, M!InviteIssue(q)
    PROVE  M!MembersInv'
<1> USE MembersAssumption
<1> DEFINE b == mreq[q]
           e == [b EXCEPT !.at = "issuing", !.closes = M!Superseded(b.user)]
<1>1. b.at = "named" /\ Fits(b) /\ b \in M!Handler
  BY HandlersHave DEF M!InviteIssue, Fits
<1>2. mreq' = [mreq EXCEPT ![q] = e]
  BY <1>1 DEF M!InviteIssue, M!MembersInv, M!TypeOK
<1>3. M!Superseded(b.user) \in SUBSET Invites
  BY DEF M!Superseded
<1>4. /\ e \in M!Handler /\ e.at = "issuing" /\ e.user = b.user /\ e.role = b.role /\ e.by = b.by
      /\ e.via = b.via /\ e.invite = b.invite
  BY <1>1, <1>3 DEF M!Handler
<1> HIDE DEF e
<1>5. Fits(e) /\ e.invite = None
  BY <1>1, <1>4 DEF Fits
<1>6. QED
  BY <1>2, <1>5, OnlyHandler DEF M!InviteIssue, M!MembersInv, M!TypeOK

\* The new invitation names a role its principal may give; the outstanding ones are closed.
LEMMA InviteCommitKeeps ==
    ASSUME M!MembersInv, NEW q \in Requests, NEW i \in Invites, M!InviteCommit(q, i)
    PROVE  M!MembersInv'
<1> USE MembersAssumption
<1> DEFINE b == mreq[q]
           row == [user |-> b.user, role |-> b.role, by |-> b.by.role, state |-> "open"]
<1>1. b.at = "issuing" /\ Fits(b) /\ b \in M!Handler /\ invite[i].state = "none"
  BY HandlersHave DEF M!InviteCommit, Fits
<1>2. CASE /\ invite' = [k \in Invites |->
                 IF k = i THEN row
                 ELSE IF k \in b.closes /\ invite[k].state = "open"
                 THEN [invite[k] EXCEPT !.state = "used"]
                 ELSE invite[k]]
           /\ M!Done(q) /\ M!Allowed(b.by, b.role)
           /\ UNCHANGED <<role, mactive, member, primary, token, grantor, raised, restored, minted>>
  <2>1. b.user \in M!User /\ b.role \in M!Granted /\ b.by \in M!Principal /\ b.by.role \in M!Roles
    BY <1>1 DEF Fits, M!Handler, M!Principal
  <2>2. /\ row \in M!InviteRow /\ row.user = b.user /\ row.role = b.role /\ row.by = b.by.role
        /\ b.role = "ADMIN" => row.by = "OWNER"
    BY <1>2, <2>1 DEF M!InviteRow, M!Allowed
  <2> HIDE DEF row
  <2>3. ASSUME NEW k \in Invites
        PROVE  /\ [invite[k] EXCEPT !.state = "used"] \in M!InviteRow
               /\ [invite[k] EXCEPT !.state = "used"].user = invite[k].user
               /\ [invite[k] EXCEPT !.state = "used"].role = invite[k].role
               /\ [invite[k] EXCEPT !.state = "used"].by = invite[k].by
               /\ [invite[k] EXCEPT !.state = "used"].state = "used"
               /\ invite[k] \in M!InviteRow
    <3>1. invite[k] \in M!InviteRow
      BY DEF M!MembersInv, M!TypeOK
    <3>2. QED
      BY <3>1 DEF M!InviteRow
  <2>4. invite' \in [Invites -> M!InviteRow]
    BY <1>2, <2>2, <2>3
  <2>5. mreq' \in [Requests -> M!Handler]
    BY <1>2, FinishedIsHandler DEF M!Done, M!Body, M!MembersInv, M!TypeOK
  <2>6. \A p \in Requests : mreq'[p] = mreq[p] \/ mreq'[p] = [M!NoBody EXCEPT !.at = "done"]
    BY <1>2 DEF M!Done, M!Body, M!MembersInv, M!TypeOK
  <2>7. \A k \in Invites : invite[k].state # "none" =>
            /\ invite'[k].user = invite[k].user /\ invite'[k].role = invite[k].role
            /\ invite'[k].by = invite[k].by /\ invite'[k].state # "none"
            /\ invite[k].state = "used" => invite'[k].state = "used"
    BY <1>1, <1>2, <2>3
  <2>8. \A k \in Invites : invite[k].state = "none" /\ k # i => invite'[k].state = "none"
    BY <1>2
  <2>9. \A k \in Invites : invite[k].state = "none" /\ invite'[k].state # "none" =>
               /\ invite'[k].user \in M!User /\ invite'[k].role \in M!Granted
               /\ invite'[k].by \in M!Roles
               /\ invite'[k].role = "ADMIN" => invite'[k].by = "OWNER"
    BY <1>2, <2>1, <2>2, <2>8
  <2>10. QED
    BY <1>2, <2>4, <2>5, <2>6, <2>7, <2>9, InvitesMove
<1>3. QED
  BY <1>1, <1>2 DEF M!InviteCommit, Fits

LEMMA UseUp ==
    ASSUME M!MembersInv, NEW i \in Invites, invite[i].state # "none",
           invite' = [invite EXCEPT ![i].state = "used"]
    PROVE  /\ invite' \in [Invites -> M!InviteRow] /\ invite'[i].state = "used"
           /\ \A k \in Invites :
                /\ invite'[k].user = invite[k].user /\ invite'[k].role = invite[k].role
                /\ invite'[k].by = invite[k].by
                /\ invite[k].state # "none" => invite'[k].state # "none"
                /\ invite[k].state = "used" => invite'[k].state = "used"
                /\ invite[k].state = "none" => invite'[k].state = "none"
<1> DEFINE row == [invite[i] EXCEPT !.state = "used"]
<1>1. invite[i] \in M!InviteRow /\ invite \in [Invites -> M!InviteRow]
  BY DEF M!MembersInv, M!TypeOK
<1>2. /\ row \in M!InviteRow /\ row.user = invite[i].user /\ row.role = invite[i].role
      /\ row.by = invite[i].by /\ row.state = "used"
  BY <1>1 DEF M!InviteRow
<1>3. invite' = [invite EXCEPT ![i] = row]
  BY <1>1
<1> HIDE DEF row
<1>4. QED
  BY <1>1, <1>2, <1>3

LEMMA InviteExpiresKeeps ==
    ASSUME M!MembersInv, NEW i \in Invites, M!InviteExpires(i)
    PROVE  M!MembersInv'
<1>1. invite[i].state # "none" /\ invite' = [invite EXCEPT ![i].state = "used"]
  BY DEF M!InviteExpires
<1>2. mreq' = mreq /\ mreq' \in [Requests -> M!Handler]
  BY DEF M!InviteExpires, M!MembersInv, M!TypeOK
<1>3. UNCHANGED <<role, mactive, member, primary, token, grantor, raised, restored, minted>>
  BY DEF M!InviteExpires
<1>4. QED
  BY <1>1, <1>2, <1>3, UseUp, InvitesMove

\* The conditional UPDATE lets one of several requests go on to the account.
LEMMA ActivateConsumeKeeps ==
    ASSUME M!MembersInv, NEW q \in Requests, M!ActivateConsume(q)
    PROVE  M!MembersInv'
<1> USE MembersAssumption
<1> DEFINE i == mreq[q].invite
<1>1. mreq[q].at = "activate" /\ Fits(mreq[q]) /\ mreq[q] \in M!Handler
  BY HandlersHave DEF M!ActivateConsume, Fits
<1>2. UNCHANGED <<role, mactive, member, primary, token, grantor, raised, restored, minted>>
      /\ invite' = [invite EXCEPT ![i].state = "used"]
  BY DEF M!ActivateConsume
<1>3. i \in Invites
  BY <1>1 DEF Fits, M!Handler
<1>4. QED
  <2>1. invite[i].state \in {"open", "used"} /\ i # None
    BY <1>1, <1>3 DEF Fits
  <2>2. [mreq[q] EXCEPT !.at = "create"] \in M!Handler
    BY <1>1 DEF M!Handler
  <2>3. \/ /\ mreq' = [mreq EXCEPT ![q] = [mreq[q] EXCEPT !.at = "create"]]
           /\ invite[i].state = "open"
        \/ mreq' = [mreq EXCEPT ![q] = [M!NoBody EXCEPT !.at = "done"]]
    BY DEF M!ActivateConsume, M!Goto, M!Done, M!Body
  <2>4. mreq' \in [Requests -> M!Handler]
    BY <2>2, <2>3, FinishedIsHandler DEF M!MembersInv, M!TypeOK
  <2>5. invite[i].state # "none"
    BY <2>1
  <2>6. \A p \in Requests :
               \/ mreq'[p] = mreq[p]
               \/ mreq'[p] = [M!NoBody EXCEPT !.at = "done"]
               \/ /\ mreq[p].at = "activate" /\ mreq'[p] = [mreq[p] EXCEPT !.at = "create"]
                  /\ mreq[p].invite # None /\ invite[mreq[p].invite].state = "open"
                  /\ invite'[mreq[p].invite].state = "used"
                  /\ \A r \in Requests : r # p => mreq'[r] = mreq[r]
    <3>1. invite'[i].state = "used"
      BY <1>2, <1>3, <2>5, UseUp
    <3>2. mreq \in [Requests -> M!Handler]
      BY DEF M!MembersInv, M!TypeOK
    <3>3. QED
      BY <1>1, <2>1, <2>3, <3>1, <3>2
  <2>7. QED
    BY <1>2, <1>3, <2>4, <2>5, <2>6, UseUp, InvitesMove

-----------------------------------------------------------------------------
(* Steps that write API tokens.                                             *)

\* A row is written once and then only revoked: what handlers and later tokens rely on stays.
LEMMA TokensMove ==
    ASSUME M!MembersInv,
           UNCHANGED <<role, mactive, member, primary, invite, grantor, raised, restored>>,
           token' \in [Tokens -> M!ApiToken], minted' \in [Tokens -> Tokens \cup {None}],
           mreq' \in [Requests -> M!Handler],
           \A k \in Tokens : token[k].state # "none" =>
               /\ token'[k].user = token[k].user /\ token'[k].role = token[k].role
               /\ token'[k].scope = token[k].scope /\ token'[k].state # "none"
               /\ minted'[k] = minted[k],
           \A k \in Tokens : token[k].state = "none" /\ token'[k].state # "none" =>
               /\ token'[k].user \in M!User /\ token'[k].role \in M!Roles
               /\ role[token'[k].user] # None
               /\ minted'[k] # None =>
                    /\ token[minted'[k]].state # "none"
                    /\ token'[k].scope \subseteq token[minted'[k]].scope
                    /\ M!PermissionsFor(token'[k].role)
                          \subseteq M!PermissionsFor(token[minted'[k]].role),
           \A k \in Tokens : token'[k].state = "none" => minted'[k] = None,
           \A p \in Requests :
               mreq'[p] = mreq[p] \/ mreq'[p] = [M!NoBody EXCEPT !.at = "done"]
    PROVE  M!MembersInv'
<1> USE MembersAssumption
<1> DEFINE Over == [M!NoBody EXCEPT !.at = "done"]
<1>1. M!TypeOK'
  BY DEF M!MembersInv, M!TypeOK
<1>2. M!AdminByOwner'
  BY DEF M!MembersInv, M!AdminByOwner
<1>3. ASSUME NEW k \in Tokens, minted'[k] # None
      PROVE  /\ token'[k].state # "none" /\ minted'[k] \in Tokens /\ token[minted'[k]].state # "none"
             /\ token'[k].scope \subseteq token[minted'[k]].scope
             /\ M!PermissionsFor(token'[k].role) \subseteq M!PermissionsFor(token[minted'[k]].role)
  <2>1. token'[k].state # "none" /\ minted'[k] \in Tokens
    BY <1>3
  <2>2. CASE token[k].state = "none"
    BY <1>3, <2>1, <2>2
  <2>3. CASE token[k].state # "none"
    <3>1. /\ minted'[k] = minted[k] /\ token'[k].scope = token[k].scope
          /\ token'[k].role = token[k].role
      BY <2>3
    <3>2. QED
      BY <1>3, <2>1, <3>1 DEF M!MembersInv, M!RowsFit, M!TokenChain
  <2>4. QED
    BY <2>2, <2>3
<1>4. M!TokenChain'
  <2> SUFFICES ASSUME NEW k \in Tokens, minted'[k] # None
               PROVE  /\ token'[k].scope \subseteq token'[minted'[k]].scope
                      /\ M!PermissionsFor(token'[k].role)
                            \subseteq M!PermissionsFor(token'[minted'[k]].role)
    BY DEF M!TokenChain
  <2>1. /\ token'[minted'[k]].scope = token[minted'[k]].scope
        /\ token'[minted'[k]].role = token[minted'[k]].role
    BY <1>3
  <2>2. QED
    BY <1>3, <2>1
<1>5. M!RowsFit'
  <2>1. ASSUME NEW k \in Tokens, token'[k].state # "none"
        PROVE  token'[k].user \in M!User /\ token'[k].role \in M!Roles /\ role[token'[k].user] # None
    <3>1. CASE token[k].state = "none"
      BY <2>1, <3>1
    <3>2. CASE token[k].state # "none"
      BY <3>2 DEF M!MembersInv, M!RowsFit
    <3>3. QED
      BY <3>1, <3>2
  <2>2. \A k \in Tokens : minted'[k] # None =>
             token'[k].state # "none" /\ token'[minted'[k]].state # "none"
    BY <1>3
  <2>3. \A i \in Invites : invite[i].state # "none" =>
          /\ invite[i].user \in M!User /\ invite[i].role \in M!Granted /\ invite[i].by \in M!Roles
          /\ invite[i].role = "ADMIN" => invite[i].by = "OWNER"
    BY DEF M!MembersInv, M!RowsFit
  <2>4. QED
    BY <2>1, <2>2, <2>3 DEF M!RowsFit
<1>6. /\ Over.at = "done" /\ Over.by = None /\ Over.via = None /\ Over.invite = None
  BY DEF M!NoBody
<1> HIDE DEF Over
<1>7. ASSUME NEW p \in Requests PROVE mreq'[p] = mreq[p] \/ mreq'[p] = Over
  BY DEF Over
<1>8. M!HandlersFit'
  BY <1>6, <1>7 DEF M!MembersInv, M!HandlersFit, M!Allowed
<1>9. M!PrincipalsFit'
  <2> SUFFICES ASSUME NEW p \in Requests
               PROVE  /\ mreq'[p].by # None => role[mreq'[p].by.user] # None
                      /\ mreq'[p].via # None =>
                            /\ mreq'[p].by # None /\ token'[mreq'[p].via].state # "none"
                            /\ mreq'[p].by.scope \subseteq token'[mreq'[p].via].scope
                            /\ M!PermissionsFor(mreq'[p].by.role)
                                  \subseteq M!PermissionsFor(token'[mreq'[p].via].role)
    BY DEF M!PrincipalsFit
  <2>1. CASE mreq'[p] = Over
    BY <1>6, <2>1
  <2>2. CASE mreq'[p] = mreq[p]
    <3>1. Fits(mreq[p]) /\ (mreq[p].via # None => mreq[p].via \in Tokens)
      BY HandlersHave DEF Fits, M!Handler
    <3>2. mreq[p].via # None => /\ token'[mreq[p].via].role = token[mreq[p].via].role
                                /\ token'[mreq[p].via].scope = token[mreq[p].via].scope
                                /\ token'[mreq[p].via].state # "none"
      BY <3>1 DEF Fits
    <3>3. QED
      BY <2>2, <3>1, <3>2 DEF Fits
  <2>3. QED
    BY <1>7, <2>1, <2>2
<1>10. M!InvitesFit' /\ M!OneActivation' /\ M!CopiesFit'
  BY <1>6, <1>7 DEF M!MembersInv, M!InvitesFit, M!OneActivation, M!CopiesFit
<1>11. QED
  BY <1>1, <1>2, <1>4, <1>5, <1>8, <1>9, <1>10 DEF M!MembersInv

\* create_token: the scope is part of what the principal holds, and so of the token it showed.
LEMMA TokenCreateKeeps ==
    ASSUME M!MembersInv, NEW q \in Requests, NEW k \in Tokens, NEW scope, M!TokenCreate(q, k, scope)
    PROVE  M!MembersInv'
<1> USE MembersAssumption
<1> DEFINE b == mreq[q]
           row == M!TokenRow(b.by, scope)
<1>1. b.at = "token" /\ Fits(b) /\ b \in M!Handler /\ token[k].state = "none"
  BY HandlersHave DEF M!TokenCreate, Fits
<1>2. CASE /\ token' = [token EXCEPT ![k] = row] /\ minted' = [minted EXCEPT ![k] = b.via]
           /\ M!Done(q) /\ scope \subseteq M!Grantable(b.by)
           /\ UNCHANGED <<role, mactive, member, primary, invite, grantor, raised, restored>>
  <2>1. /\ b.by \in M!Principal /\ b.by.user \in M!User /\ b.by.role \in M!Roles
        /\ b.by.scope \subseteq M!Permission /\ role[b.by.user] # None
        /\ b.via \in Tokens \cup {None}
    BY <1>1 DEF Fits, M!Handler, M!Principal
  <2>2. scope \subseteq b.by.scope
    BY <1>2 DEF M!Grantable
  <2>3. /\ row \in M!ApiToken /\ row.user = b.by.user /\ row.role = b.by.role
        /\ row.scope = scope /\ row.state = "open"
    BY <2>1, <2>2 DEF M!TokenRow, M!ApiToken
  <2> HIDE DEF row
  <2>4. /\ token' \in [Tokens -> M!ApiToken] /\ minted' \in [Tokens -> Tokens \cup {None}]
        /\ token'[k] = row /\ minted'[k] = b.via
        /\ \A j \in Tokens : j # k => token'[j] = token[j] /\ minted'[j] = minted[j]
    BY <1>2, <2>1, <2>3 DEF M!MembersInv, M!TypeOK
  <2>5. b.via # None =>
                    /\ token[b.via].state # "none"
                    /\ scope \subseteq token[b.via].scope
                    /\ M!PermissionsFor(b.by.role) \subseteq M!PermissionsFor(token[b.via].role)
    BY <1>1, <2>2 DEF Fits
  <2>6. \A j \in Tokens : token[j].state = "none" => minted[j] = None
    BY DEF M!MembersInv, M!RowsFit
  <2>7. mreq' \in [Requests -> M!Handler]
    BY <1>2, FinishedIsHandler DEF M!Done, M!Body, M!MembersInv, M!TypeOK
  <2>8. \A p \in Requests : mreq'[p] = mreq[p] \/ mreq'[p] = [M!NoBody EXCEPT !.at = "done"]
    BY <1>2 DEF M!Done, M!Body, M!MembersInv, M!TypeOK
  <2>9. \A j \in Tokens : token[j].state # "none" =>
               /\ token'[j].user = token[j].user /\ token'[j].role = token[j].role
               /\ token'[j].scope = token[j].scope /\ token'[j].state # "none"
               /\ minted'[j] = minted[j]
    BY <1>1, <2>4
  <2>10. \A j \in Tokens : token[j].state = "none" /\ token'[j].state # "none" =>
               /\ token'[j].user \in M!User /\ token'[j].role \in M!Roles
               /\ role[token'[j].user] # None
               /\ minted'[j] # None =>
                    /\ token[minted'[j]].state # "none"
                    /\ token'[j].scope \subseteq token[minted'[j]].scope
                    /\ M!PermissionsFor(token'[j].role)
                          \subseteq M!PermissionsFor(token[minted'[j]].role)
    BY <2>1, <2>3, <2>4, <2>5
  <2>11. \A j \in Tokens : token'[j].state = "none" => minted'[j] = None
    BY <2>3, <2>4, <2>6
  <2>12. QED
    BY <1>2, <2>4, <2>7, <2>8, <2>9, <2>10, <2>11, TokensMove
<1>3. CASE M!Refused(q)
  BY <1>3, RefusedKeeps
<1>4. QED
  BY <1>2, <1>3 DEF M!TokenCreate

LEMMA TokenRevokeKeeps ==
    ASSUME M!MembersInv, NEW k \in Tokens, M!TokenRevoke(k)
    PROVE  M!MembersInv'
<1> DEFINE row == [token[k] EXCEPT !.state = "revoked"]
<1>1. token[k] \in M!ApiToken /\ token \in [Tokens -> M!ApiToken] /\ token[k].state = "open"
  BY DEF M!MembersInv, M!TypeOK, M!TokenRevoke
<1>2. /\ row \in M!ApiToken /\ row.user = token[k].user /\ row.role = token[k].role
      /\ row.scope = token[k].scope /\ row.state = "revoked"
  BY <1>1 DEF M!ApiToken
<1>3. token' = [token EXCEPT ![k] = row]
  BY <1>1 DEF M!TokenRevoke
<1> HIDE DEF row
<1>4. token' \in [Tokens -> M!ApiToken] /\ token'[k] = row
      /\ \A j \in Tokens : j # k => token'[j] = token[j]
  BY <1>1, <1>2, <1>3
<1>5. \A j \in Tokens :
               /\ token'[j].user = token[j].user /\ token'[j].role = token[j].role
               /\ token'[j].scope = token[j].scope
               /\ token'[j].state = "none" <=> token[j].state = "none"
  BY <1>1, <1>2, <1>4
<1>6. \A j \in Tokens : token[j].state = "none" => minted[j] = None
  BY DEF M!MembersInv, M!RowsFit
<1>7. /\ UNCHANGED <<role, mactive, member, primary, invite, mreq, grantor, raised, restored, minted>>
      /\ minted' \in [Tokens -> Tokens \cup {None}] /\ mreq' \in [Requests -> M!Handler]
  BY DEF M!TokenRevoke, M!MembersInv, M!TypeOK
<1>8. QED
  BY <1>4, <1>5, <1>6, <1>7, TokensMove

-----------------------------------------------------------------------------

LEMMA MembersStep == M!MembersInv /\ [M!Next]_(M!vars) => M!MembersInv'
<1> SUFFICES ASSUME M!MembersInv, [M!Next]_(M!vars) PROVE M!MembersInv'
  OBVIOUS
<1>1. CASE UNCHANGED M!vars
  BY <1>1 DEF M!vars, M!MembersInv, M!TypeOK, M!RowsFit, M!HandlersFit, M!CopiesFit, M!PrincipalsFit,
     M!InvitesFit, M!OneActivation, M!AdminByOwner, M!TokenChain, M!Copy
<1>2. ASSUME NEW q \in Requests, NEW a \in M!Principals, NEW u \in M!User, NEW r \in M!Granted,
             \/ M!Admit(q, a, M!MemberRoutes.create_member, "create", u, r, None)
             \/ M!Admit(q, a, M!AuthRoutes.create_invitation, "invite", u, r, None)
      PROVE  M!MembersInv'
  BY <1>2, AdmitKeeps
<1>3. ASSUME NEW q \in Requests, NEW a \in M!Principals, NEW u \in M!User,
             NEW r \in M!Granted \cup {None}, NEW act \in BOOLEAN \cup {None},
             M!Admit(q, a, M!MemberRoutes.update_member, "update", u, r, act)
      PROVE  M!MembersInv'
  BY <1>3, AdmitKeeps
<1>4. ASSUME NEW q \in Requests, NEW a \in M!Principals,
             M!Admit(q, a, M!AuthRoutes.create_token, "token", None, None, None)
      PROVE  M!MembersInv'
  BY <1>4, AdmitKeeps
<1>5. ASSUME NEW q \in Requests,
             \/ M!BootstrapCount(q) \/ M!Create(q) \/ M!Ensure(q) \/ M!ActivateConsume(q)
             \/ M!UpdateCheck(q) \/ M!UpdateRead(q) \/ M!UpdateWrite(q)
             \/ M!InviteCheck(q) \/ M!InviteIssue(q)
             \/ \E u \in M!User : M!Found(q, u)
             \/ \E n \in Names : M!TrialJoin(q, n)
             \/ \E i \in Invites : M!InviteCommit(q, i) \/ M!Activate(q, i)
             \/ \E k \in Tokens, scope \in Scopes : M!TokenCreate(q, k, scope)
      PROVE  M!MembersInv'
  BY <1>5, BootstrapCountKeeps, CreateKeeps, EnsureKeeps, ActivateConsumeKeeps, UpdateCheckKeeps,
     UpdateReadKeeps, UpdateWriteKeeps, FoundKeeps, TrialJoinKeeps, InviteCheckKeeps,
     InviteIssueKeeps, InviteCommitKeeps, ActivateKeeps, TokenCreateKeeps
<1>6. QED
  BY <1>1, <1>2, <1>3, <1>4, <1>5, InviteExpiresKeeps, TokenRevokeKeeps DEF M!Next

\* The composition takes steps of Members or leaves its variables alone.
LEMMA MembersComposed == Spec => M!Spec
<1>1. Init => M!Init
  BY DEF Init
<1>2. [Next]_vars => [M!Next]_(M!vars)
  BY DEF Next, vars, mvars, M!vars
<1>3. QED
  BY <1>1, <1>2, PTL DEF Spec, M!Spec

\* What a token may call, its account may call: now, and with the role that signed it.
LEMMA TokensNarrow == M!MembersInv => M!TokenNotWider
<1> USE MembersAssumption
<1> SUFFICES ASSUME M!MembersInv, NEW a \in M!Principals, a.via # None, NEW r \in M!Routes,
                    NEW ms \in {{}, {None}, {a.p.user}}, M!MayCall(a.p, r, ms)
             PROVE  /\ M!MayCall(M!SessionPrincipal(a.p.user, role[a.p.user]), r, ms)
                    /\ M!MayCall(M!SessionPrincipal(a.p.user, token[a.via].role), r, ms)
                    /\ r.needs \in token[a.via].scope
  BY DEF M!TokenNotWider
<1> DEFINE t == token[a.via]
           c == role[a.p.user]
<1>1. /\ c \in M!Roles /\ t.role \in M!Roles /\ a.p.user = t.user
      /\ a.p.scope = t.scope \cap M!PermissionsFor(t.role) \cap M!PermissionsFor(c)
      /\ a.p.role = IF M!Cardinality(M!PermissionsFor(c)) < M!Cardinality(M!PermissionsFor(t.role))
                    THEN c ELSE t.role
  BY PrincipalsHold
<1>2. /\ r.needs \in t.scope /\ r.needs \in M!PermissionsFor(c) /\ r.needs \in M!PermissionsFor(t.role)
      /\ r.needs \in M!Permission
  BY <1>1, FewerIsWeaker DEF M!MayCall, M!HasPermission
<1>3. a.p.role \in {"OWNER", "ADMIN"} => c \in {"OWNER", "ADMIN"} /\ t.role \in {"OWNER", "ADMIN"}
  BY <1>1, FewerIsWeaker
<1>4. r.scope = "run" => ms = {} \/ a.p.role \in {"OWNER", "ADMIN"} \/ a.p.user \in ms
  BY DEF M!MayCall, M!CanAccessProject
<1> HIDE DEF t, c
<1>5. ASSUME NEW x \in M!Roles, r.needs \in M!PermissionsFor(x),
             a.p.role \in {"OWNER", "ADMIN"} => x \in {"OWNER", "ADMIN"}
      PROVE  M!MayCall(M!SessionPrincipal(a.p.user, x), r, ms)
  BY <1>2, <1>4, <1>5 DEF M!MayCall, M!HasPermission, M!CanAccessProject, M!SessionPrincipal
<1>6. QED
  BY <1>1, <1>2, <1>3, <1>5 DEF t, c

\* A set whose elements are all equal has at most one.
LEMMA AtMostOne ==
    ASSUME NEW X, \A x, y \in X : x = y
    PROVE  Cardinality(X) <= 1
<1>1. CASE X = {}
  BY <1>1, FS_EmptySet
<1>2. CASE X # {}
  <2>1. PICK x \in X : TRUE
    BY <1>2
  <2>2. X = {x}
    BY <2>1
  <2>3. Cardinality({x}) = 1
    BY FS_Singleton
  <2>4. QED
    BY <2>2, <2>3
<1>3. QED
  BY <1>1, <1>2

LEMMA ActivationsCounted == M!MembersInv => M!InviteOnce
<1> USE MembersAssumption
<1> SUFFICES ASSUME M!MembersInv, NEW i \in Invites
             PROVE  M!Cardinality({q \in Requests : mreq[q].invite = i
                                       /\ mreq[q].at \in {"create", "ensure"}}) <= 1
  BY DEF M!InviteOnce
<1> DEFINE A == {q \in Requests : mreq[q].invite = i /\ mreq[q].at \in {"create", "ensure"}}
<1>1. \A q, p \in A : q = p
  BY DEF M!MembersInv, M!OneActivation
<1> HIDE DEF A
<1>2. Cardinality(A) <= 1
  BY <1>1, AtMostOne
<1>3. QED
  BY <1>2, SameSize DEF A

\* Nobody acts with a right that was not given: an administrator was made one by an owner, and the
\* role it was given last is that one unless an overlapping update has written an older role back;
\* a token is within the token it was created with and within its account, an invitation makes one
\* account, for any interleaving of requests that carry the principal of their admission and of
\* updates that write a row they read before (members.py, auth.py, update_workspace_member,
\* _principal_from_api_token).
THEOREM RightsAreSafe == Spec => []RightsAreGranted
<1>1. M!MembersInv => M!RightsAreGranted
  BY TokensNarrow, ActivationsCounted DEF M!MembersInv, M!RightsAreGranted
<1>2. QED
  BY <1>1, MembersComposed, MembersStart, MembersStep, PTL DEF M!Spec, RightsAreGranted

=============================================================================
