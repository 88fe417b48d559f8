---------------------------- MODULE SignInProofs ----------------------------
(* Passwords, sessions and reset links, and sign-in by code and by identity   *)
(* provider, for any number of requests, links, sessions, challenges, flows   *)
(* and accounts: Credentials and SignIn as MCAccounts composes them.          *)
EXTENDS MCAccounts, Sequences, FiniteSetTheorems, TLAPS

-----------------------------------------------------------------------------
(* Facts about finite sets and about OFFSET.                                *)

\* The operators of FiniteSets are the same wherever the module is instantiated.
LEMMA SameSize ==
    \A X : C!Cardinality(X) = Cardinality(X) /\ (C!IsFiniteSet(X) <=> IsFiniteSet(X))
  BY DEF C!Cardinality, Cardinality, C!IsFiniteSet, IsFiniteSet

\* A set whose elements are all equal has at most one.
LEMMA AtMostOne ==
    ASSUME NEW X, \A x, y \in X : x = y
    PROVE  Cardinality(X) <= 1
<1>1. CASE X = {}
  BY <1>1, FS_EmptySet
<1>2. CASE X # {}
  <2>1. PICK x \in X : TRUE
    BY <1>2
  <2>2. X = {x}
    BY <2>1
  <2>3. Cardinality({x}) = 1
    BY FS_Singleton
  <2>4. QED
    BY <2>2, <2>3
<1>3. QED
  BY <1>1, <1>2

\* A nonempty set of positions has a first one.
LEMMA FirstPosition ==
    ASSUME NEW T, T \subseteq Nat, T # {}
    PROVE  \E i \in T : \A j \in T : i <= j
<1>1. PICK i \in T : \A j \in T : ~(<<j, i>> \in OpToRel(<, Nat))
  BY NatLessThanWellFounded, WFMin
<1>2. \A j \in T : ~(j < i)
  BY <1>1 DEF OpToRel
<1>3. QED
  BY <1>2

\* The delete of create_auth_session leaves at most Cap of the rows it was selected from:
\* all that are left are newer than the oldest of them, which has fewer than Cap newer ones.
LEMMA CapKept ==
    ASSUME NEW ages \in Seq(Requests), NEW rows, IsFiniteSet(rows),
           \A i, j \in DOMAIN ages : ages[i] = ages[j] => i = j,
           \A s \in rows : \E i \in DOMAIN ages : ages[i] = s
    PROVE  Cardinality(rows \ C!BeyondCap(ages, rows)) <= Cap
<1> DEFINE kept == rows \ C!BeyondCap(ages, rows)
           places == {i \in DOMAIN ages : ages[i] \in kept}
<1>1. CASE kept = {}
  <2>1. Cardinality(kept) = 0
    BY <1>1, FS_EmptySet
  <2>2. QED
    BY <2>1, AccountsAssumption
<1>2. CASE kept # {}
  <2>1. places # {} /\ places \subseteq Nat
    BY <1>2 DEF C!BeyondCap
  <2>2. PICK i \in places : \A j \in places : i <= j
    BY <2>1, FirstPosition
  <2> DEFINE newer == C!Newer(ages, rows, ages[i])
  <2>3. kept \subseteq newer \cup {ages[i]}
    <3> SUFFICES ASSUME NEW s \in kept, s # ages[i] PROVE s \in newer
      OBVIOUS
    <3>1. s \in rows
      OBVIOUS
    <3>2. PICK j \in DOMAIN ages : ages[j] = s
      BY <3>1
    <3>3. i < j
      BY <2>1, <2>2, <3>2
    <3>4. QED
      BY <3>1, <3>2, <3>3, <2>2 DEF C!Newer
  <2>4. IsFiniteSet(newer) /\ Cardinality(newer) \in Nat
    BY FS_Subset, FS_CardinalityType DEF C!Newer
  <2>5. ~(Cardinality(newer) >= Cap)
    <3>1. ages[i] \in rows /\ ages[i] \notin C!BeyondCap(ages, rows)
      BY <2>2
    <3>2. QED
      BY <3>1, SameSize DEF C!BeyondCap
  <2>6. /\ IsFiniteSet(newer \cup {ages[i]})
        /\ Cardinality(newer \cup {ages[i]}) <= Cardinality(newer) + 1
    <3>1. Cardinality(newer \cup {ages[i]}) =
            IF ages[i] \in newer THEN Cardinality(newer) ELSE Cardinality(newer) + 1
      BY <2>4, FS_AddElement
    <3>2. QED
      BY <2>4, <3>1, FS_AddElement
  <2>7. IsFiniteSet(kept) /\ Cardinality(kept) <= Cardinality(newer \cup {ages[i]})
    BY <2>3, <2>6, FS_Subset
  <2>8. Cardinality(kept) \in Nat /\ Cardinality(newer \cup {ages[i]}) \in Nat
    BY <2>6, <2>7, FS_CardinalityType
  <2>9. QED
    BY <2>4, <2>5, <2>6, <2>7, <2>8, AccountsAssumption
<1>3. QED
  BY <1>1, <1>2

-----------------------------------------------------------------------------
(* Each step keeps the invariant.                                           *)

LEMMA CredentialsStart == C!Init => C!CredentialsInv
<1> SUFFICES ASSUME C!Init PROVE C!CredentialsInv
  OBVIOUS
<1>1. C!TypeOK
  <2>1. account \in C!Account /\ account.pwd \in Passwords
    BY DEF C!Init, C!Account
  <2>2. creq \in [Requests -> C!Request]
    BY <2>1, AccountsAssumption DEF C!Init, C!Request
  <2>3. order \in Seq(Requests)
    BY DEF C!Init
  <2>4. /\ link \in [Links -> {"none", "issuing", "open", "used"}] /\ epoch \in 0 .. MaxEpoch
        /\ issue \in [Links -> [closes : SUBSET Links, crossed : BOOLEAN]] /\ cserial \in BOOLEAN
    BY AccountsAssumption DEF C!Init
  <2>5. undone \in BOOLEAN /\ lastSet \in Passwords /\ sessions = {} /\ crowded = {}
    BY <2>1, Zenon DEF C!Init
  <2>6. QED
    BY <2>1, <2>2, <2>3, <2>4, <2>5 DEF C!TypeOK
<1>2. order = <<>> /\ DOMAIN order = {}
  BY DEF C!Init
<1>3. \A q \in Requests : creq[q].at = "idle" /\ creq[q].link = "none"
  BY DEF C!Init
<1>4. C!OrderIsHistory
  BY <1>2, <1>3, FS_EmptySet, SameSize DEF C!Init, C!OrderIsHistory
<1>5. C!LinksSpentOnce
  BY <1>2, <1>3 DEF C!Init, C!LinksSpentOnce, C!HasSpent
<1>6. C!IssuesCross
  BY DEF C!Init, C!IssuesCross
<1>7. QED
  BY <1>1, <1>3, <1>4, <1>5, <1>6 DEF C!Init, C!CredentialsInv, C!RevokedForGood,
     C!PasswordStands, C!RehashesCompared, C!CutSuffices

\* Most steps leave the links alone.
LEMMA IssuesStand ==
    ASSUME C!CredentialsInv, UNCHANGED <<cserial, link, issue>>
    PROVE  C!IssuesCross'
  BY DEF C!CredentialsInv, C!IssuesCross

\* A handler starts: login, change_password or complete_password_reset has looked at the
\* account and holds what it needs later.
LEMMA EnterKeeps ==
    ASSUME C!CredentialsInv, NEW q \in Requests, NEW p \in Passwords, NEW l \in Links \cup {"none"},
           NEW at \in {"verified", "cleared", "linked"},
           C!Enter(q, at, p, l),
           at = "verified" => account.pwd = p,
           at = "linked" => l \in Links,
           at # "linked" => l = "none",
           UNCHANGED <<account, sessions, order, cserial, link, issue, epoch, lastSet, crowded,
                       undone>>
    PROVE  C!CredentialsInv'
<1> USE AccountsAssumption
<1>1. C!TypeOK'
  <2>1. creq[q] \in C!Request /\ account.pwd \in Passwords /\ account.old \in BOOLEAN
        /\ epoch \in 0 .. MaxEpoch
    BY DEF C!CredentialsInv, C!TypeOK, C!Account
  <2>2. [creq[q] EXCEPT !.at = at, !.pwd = p, !.was = account.pwd, !.old = account.old,
                        !.link = l, !.seen = epoch] \in C!Request
    BY <2>1 DEF C!Request
  <2>3. creq' \in [Requests -> C!Request]
    BY <2>2 DEF C!Enter, C!CredentialsInv, C!TypeOK
  <2>4. QED
    BY <2>3 DEF C!CredentialsInv, C!TypeOK
<1>2. creq[q].at = "idle" /\ ~\E i \in DOMAIN order : order[i] = q
  BY DEF C!CredentialsInv, C!OrderIsHistory, C!Enter
<1>3. \A r \in Requests : r # q => creq'[r] = creq[r]
  BY DEF C!Enter, C!CredentialsInv, C!TypeOK
<1>4. /\ creq'[q].at = at /\ creq'[q].pwd = p /\ creq'[q].was = account.pwd
      /\ creq'[q].link = l /\ creq'[q].born = creq[q].born
  BY DEF C!Enter, C!CredentialsInv, C!TypeOK, C!Request
<1>5. q \notin sessions
  BY <1>2 DEF C!CredentialsInv, C!OrderIsHistory
<1>6. C!RevokedForGood' /\ C!PasswordStands' /\ C!RehashesCompared'
  BY <1>3, <1>4, <1>5 DEF C!CredentialsInv, C!RevokedForGood, C!PasswordStands,
     C!RehashesCompared, C!TypeOK
<1>7. C!OrderIsHistory'
  <2>1. \A i \in DOMAIN order : order[i] \in Requests \ {q}
    BY <1>2 DEF C!CredentialsInv, C!TypeOK
  <2>2. QED
    BY <1>3, <1>4, <2>1 DEF C!CredentialsInv, C!OrderIsHistory
<1>8. C!LinksSpentOnce'
  BY <1>2, <1>3, <1>4 DEF C!CredentialsInv, C!LinksSpentOnce, C!HasSpent
<1>9. C!CutSuffices'
  BY <1>3, <1>4 DEF C!CredentialsInv, C!CutSuffices
<1>10. QED
  BY <1>1, <1>6, <1>7, <1>8, <1>9, IssuesStand DEF C!CredentialsInv

\* A rehash writes the password that was compared: either it is still the one last set,
\* or undone records that it was not.
LEMMA RehashKeeps ==
    ASSUME C!CredentialsInv, NEW q \in Requests, C!Rehash(q)
    PROVE  C!CredentialsInv'
<1>1. C!TypeOK'
  <2>1. creq[q] \in C!Request /\ account \in C!Account
    BY DEF C!CredentialsInv, C!TypeOK
  <2>2. [creq[q] EXCEPT !.old = FALSE] \in C!Request /\ account' \in C!Account
    BY <2>1 DEF C!Request, C!Account, C!Rehash
  <2>3. creq' = [creq EXCEPT ![q] = [creq[q] EXCEPT !.old = FALSE]]
    BY DEF C!Rehash
  <2>4. creq' \in [Requests -> C!Request]
    BY <2>2, <2>3 DEF C!CredentialsInv, C!TypeOK
  <2>5. undone' \in BOOLEAN
    BY Zenon DEF C!Rehash, C!CredentialsInv, C!TypeOK
  <2>6. QED
    BY <2>2, <2>4, <2>5 DEF C!CredentialsInv, C!TypeOK, C!Rehash
<1>2. \A r \in Requests : /\ creq'[r].at = creq[r].at /\ creq'[r].link = creq[r].link
                          /\ creq'[r].born = creq[r].born /\ creq'[r].cut = creq[r].cut
                          /\ creq'[r].pwd = creq[r].pwd /\ creq'[r].was = creq[r].was
                          /\ creq'[r].old => creq[r].old
  BY DEF C!CredentialsInv, C!TypeOK, C!Request, C!Rehash
<1>3. C!PasswordStands'
  <2>1. creq[q].pwd = creq[q].was /\ account'.pwd = creq[q].pwd
    BY DEF C!CredentialsInv, C!RehashesCompared, C!Rehash, C!TypeOK, C!Account
  <2>2. QED
    BY <2>1 DEF C!CredentialsInv, C!PasswordStands, C!Rehash
<1>4. UNCHANGED <<sessions, order, cserial, link, issue, epoch, crowded>>
  BY DEF C!Rehash
<1>5. C!RevokedForGood' /\ C!RehashesCompared'
  BY <1>2, <1>4 DEF C!CredentialsInv, C!TypeOK, C!RevokedForGood, C!RehashesCompared
<1>6. C!OrderIsHistory'
  BY <1>2, <1>4 DEF C!CredentialsInv, C!TypeOK, C!OrderIsHistory
<1>7. C!LinksSpentOnce'
  BY <1>2, <1>4 DEF C!CredentialsInv, C!LinksSpentOnce, C!HasSpent
<1>8. C!CutSuffices'
  BY <1>2, <1>4 DEF C!CredentialsInv, C!CutSuffices
<1>9. QED
  BY <1>1, <1>3, <1>4, <1>5, <1>6, <1>7, <1>8, IssuesStand DEF C!CredentialsInv

\* An insertion finds every session among the earlier insertions, so that its cut leaves
\* no more than Cap; where another one is open, both are crowded.
LEMMA InsertKeeps ==
    ASSUME C!CredentialsInv, NEW q \in Requests, C!IssueInsert(q)
    PROVE  C!CredentialsInv'
<1>1. /\ creq[q].at = "verified" /\ order' = Append(order, q)
      /\ UNCHANGED <<account, sessions, cserial, link, issue, epoch, lastSet, undone>>
  BY DEF C!IssueInsert
<1>2. /\ order \in Seq(Requests) /\ order' \in Seq(Requests) /\ Len(order') = Len(order) + 1
      /\ DOMAIN order' = 1 .. (Len(order) + 1) /\ DOMAIN order = 1 .. Len(order)
      /\ order'[Len(order) + 1] = q
      /\ \A i \in DOMAIN order : order'[i] = order[i]
  BY <1>1 DEF C!CredentialsInv, C!TypeOK
<1>3. ~\E i \in DOMAIN order : order[i] = q
  BY <1>1 DEF C!CredentialsInv, C!OrderIsHistory
<1>4. \A i \in DOMAIN order' : i \in DOMAIN order \/ order'[i] = q
  BY <1>2
<1>5. \A r \in Requests : r # q => creq'[r] = creq[r]
  BY DEF C!IssueInsert, C!CredentialsInv, C!TypeOK
<1>6. /\ creq'[q].at = "inserted" /\ creq'[q].cut = C!BeyondCap(order', sessions \cup {q})
      /\ creq'[q].link = creq[q].link
  BY DEF C!IssueInsert, C!CredentialsInv, C!TypeOK, C!Request
<1>7. /\ crowded' \subseteq Requests /\ crowded \subseteq crowded'
      /\ C!Inserting # {} => C!Inserting \cup {q} \subseteq crowded'
  BY DEF C!IssueInsert, C!Inserting, C!CredentialsInv, C!TypeOK
<1>8. C!TypeOK'
  <2>1. creq' \in [Requests -> C!Request]
    <3>1. C!BeyondCap(order', sessions \cup {q}) \subseteq Requests
      BY DEF C!BeyondCap, C!CredentialsInv, C!TypeOK
    <3> creq[q] \in C!Request
      BY DEF C!CredentialsInv, C!TypeOK
    <3>2. [creq[q] EXCEPT !.at = "inserted", !.cut = C!BeyondCap(order', sessions \cup {q})]
            \in C!Request
      BY <3>1 DEF C!Request
    <3>3. creq' = [creq EXCEPT ![q] = [creq[q] EXCEPT !.at = "inserted",
                                 !.cut = C!BeyondCap(order', sessions \cup {q})]]
      BY DEF C!IssueInsert, C!CredentialsInv, C!TypeOK, C!Request
    <3>4. QED
      BY <3>2, <3>3 DEF C!CredentialsInv, C!TypeOK
  <2>2. QED
    BY <1>1, <1>2, <1>7, <2>1 DEF C!CredentialsInv, C!TypeOK
<1>9. q \notin sessions
  BY <1>3 DEF C!CredentialsInv, C!OrderIsHistory
<1>10. C!RevokedForGood' /\ C!PasswordStands' /\ C!RehashesCompared'
  BY <1>1, <1>5, <1>6, <1>9 DEF C!CredentialsInv, C!RevokedForGood, C!PasswordStands,
     C!RehashesCompared, C!TypeOK
<1>11. C!OrderIsHistory'
  <2>1. \A i \in DOMAIN order' : creq'[order'[i]].at \in {"inserted", "done"}
    BY <1>2, <1>3, <1>4, <1>5, <1>6 DEF C!CredentialsInv, C!OrderIsHistory, C!TypeOK
  <2>2. \A i, j \in DOMAIN order' : order'[i] = order'[j] => i = j
    BY <1>2, <1>3 DEF C!CredentialsInv, C!OrderIsHistory
  <2>3. \A s \in sessions' : \E i \in DOMAIN order' : order'[i] = s
    BY <1>1, <1>2 DEF C!CredentialsInv, C!OrderIsHistory
  <2>4. \A r \in Requests : creq'[r].at = "inserted" => \E i \in DOMAIN order' : order'[i] = r
    BY <1>2, <1>5 DEF C!CredentialsInv, C!OrderIsHistory
  <2>5. C!IsFiniteSet(sessions)'
    BY <1>1 DEF C!CredentialsInv, C!OrderIsHistory
  <2>6. QED
    BY <2>1, <2>2, <2>3, <2>4, <2>5 DEF C!OrderIsHistory
<1>12. C!LinksSpentOnce'
  <2>1. \A r \in Requests : C!HasSpent(r)' => C!HasSpent(r)
    BY <1>1, <1>2, <1>4, <1>5 DEF C!HasSpent
  <2>2. \A r \in Requests : creq'[r].link = creq[r].link
    BY <1>5, <1>6
  <2>3. QED
    BY <1>1, <1>5, <1>6, <2>1, <2>2 DEF C!CredentialsInv, C!LinksSpentOnce
<1>13. C!CutSuffices'
  <2>1. ASSUME NEW r \in Requests, NEW t \in Requests, r # t,
               creq'[r].at = "inserted", creq'[t].at = "inserted"
        PROVE  r \in crowded'
    BY <1>5, <1>7, <2>1 DEF C!CredentialsInv, C!CutSuffices, C!Inserting
  <2>2. ASSUME NEW r \in Requests, creq'[r].at = "inserted", r \notin crowded'
        PROVE  C!Cardinality((sessions' \cup {r}) \ creq'[r].cut) <= Cap
    <3>1. CASE r = q
      <4>1. IsFiniteSet(sessions \cup {q})
        BY SameSize, FS_AddElement DEF C!CredentialsInv, C!OrderIsHistory
      <4>2. \A s \in sessions \cup {q} : \E i \in DOMAIN order' : order'[i] = s
        BY <1>2 DEF C!CredentialsInv, C!OrderIsHistory
      <4>3. \A i, j \in DOMAIN order' : order'[i] = order'[j] => i = j
        BY <1>11 DEF C!OrderIsHistory
      <4>4. Cardinality((sessions \cup {q}) \ C!BeyondCap(order', sessions \cup {q})) <= Cap
        BY <1>2, <4>1, <4>2, <4>3, CapKept
      <4>5. QED
        BY <1>1, <1>6, <3>1, <4>4, SameSize
    <3>2. CASE r # q
      BY <1>1, <1>5, <1>7, <2>2, <3>2 DEF C!CredentialsInv, C!CutSuffices
    <3>3. QED
      BY <3>1, <3>2
  <2>3. QED
    BY <2>1, <2>2 DEF C!CutSuffices
<1>14. QED
  BY <1>1, <1>8, <1>10, <1>11, <1>12, <1>13, IssuesStand DEF C!CredentialsInv

\* The commit of an insertion: the new session is of this epoch, and no insertion that
\* does not overlap it is under way.
LEMMA CommitKeeps ==
    ASSUME C!CredentialsInv, NEW q \in Requests, C!IssueCommit(q)
    PROVE  C!CredentialsInv'
<1>1. /\ creq[q].at = "inserted" /\ sessions' = (sessions \cup {q}) \ creq[q].cut
      /\ UNCHANGED <<account, order, cserial, link, issue, epoch, lastSet, crowded, undone>>
  BY DEF C!IssueCommit
<1>2. \A r \in Requests : r # q => creq'[r] = creq[r]
  BY DEF C!IssueCommit, C!CredentialsInv, C!TypeOK
<1>3. creq'[q].at = "done" /\ creq'[q].born = epoch /\ creq'[q].link = creq[q].link
  BY DEF C!IssueCommit, C!CredentialsInv, C!TypeOK, C!Request
<1>4. C!TypeOK'
  <2> creq[q] \in C!Request /\ epoch \in 0 .. MaxEpoch
    BY DEF C!CredentialsInv, C!TypeOK
  <2>1. [creq[q] EXCEPT !.at = "done", !.born = epoch] \in C!Request
    BY DEF C!Request
  <2>2. creq' = [creq EXCEPT ![q] = [creq[q] EXCEPT !.at = "done", !.born = epoch]]
    BY DEF C!IssueCommit, C!CredentialsInv, C!TypeOK, C!Request
  <2>3. QED
    BY <1>1, <2>1, <2>2 DEF C!CredentialsInv, C!TypeOK
<1>5. C!RevokedForGood' /\ C!PasswordStands' /\ C!RehashesCompared'
  BY <1>1, <1>2, <1>3 DEF C!CredentialsInv, C!RevokedForGood, C!PasswordStands,
     C!RehashesCompared, C!TypeOK
<1>6. C!OrderIsHistory'
  <2>1. \A i \in DOMAIN order : order[i] \in Requests
    BY DEF C!CredentialsInv, C!TypeOK
  <2>2. C!IsFiniteSet(sessions)'
    BY <1>1, SameSize, FS_AddElement, FS_Difference DEF C!CredentialsInv, C!OrderIsHistory
  <2>3. QED
    BY <1>1, <1>2, <1>3, <2>1, <2>2 DEF C!CredentialsInv, C!OrderIsHistory
<1>7. C!LinksSpentOnce'
  <2>1. \A r \in Requests : C!HasSpent(r)' => C!HasSpent(r)
    BY <1>1, <1>2, <1>3 DEF C!HasSpent
  <2>2. QED
    BY <1>1, <1>2, <1>3, <2>1 DEF C!CredentialsInv, C!LinksSpentOnce
<1>8. C!CutSuffices'
  BY <1>1, <1>2, <1>3 DEF C!CredentialsInv, C!CutSuffices
<1>9. QED
  BY <1>1, <1>4, <1>5, <1>6, <1>7, <1>8, IssuesStand DEF C!CredentialsInv

\* Reset links are issued and expire: a spent one stays used.
LEMMA LinkKeeps ==
    ASSUME C!CredentialsInv, C!IssuesCross',
           UNCHANGED <<account, sessions, order, cserial, creq, epoch, lastSet, crowded, undone>>,
           link' \in [Links -> {"none", "issuing", "open", "used"}],
           issue' \in [Links -> [closes : SUBSET Links, crossed : BOOLEAN]],
           \A k \in Links : link[k] = "used" => link'[k] = "used"
    PROVE  C!CredentialsInv'
<1>1. C!LinksSpentOnce'
  BY DEF C!CredentialsInv, C!LinksSpentOnce, C!HasSpent
<1>2. C!TypeOK'
  BY DEF C!CredentialsInv, C!TypeOK
<1>3. QED
  BY <1>1, <1>2 DEF C!CredentialsInv, C!RevokedForGood, C!PasswordStands,
     C!RehashesCompared, C!OrderIsHistory, C!CutSuffices

\* An issue that begins while another is open marks both; what it does not find to close was
\* being issued, and is marked as well.
LEMMA IssueResetKeeps ==
    ASSUME C!CredentialsInv, NEW l \in Links, C!IssueReset(l)
    PROVE  C!CredentialsInv'
<1>1. /\ link[l] = "none" /\ C!Free /\ link' = [link EXCEPT ![l] = "issuing"]
      /\ UNCHANGED <<account, sessions, order, cserial, creq, epoch, lastSet, crowded, undone>>
  BY DEF C!IssueReset
<1>2. /\ link \in [Links -> {"none", "issuing", "open", "used"}]
      /\ issue \in [Links -> [closes : SUBSET Links, crossed : BOOLEAN]]
  BY DEF C!CredentialsInv, C!TypeOK
<1>3. \A k \in Links : link'[k] = IF k = l THEN "issuing" ELSE link[k]
  BY <1>1, <1>2
<1>4. \A k \in Links :
         /\ issue'[k].closes = IF k = l THEN {m \in Links : link[m] = "open"} ELSE issue[k].closes
         /\ issue'[k].crossed \in BOOLEAN
         /\ issue'[k].crossed <=> issue[k].crossed \/ (C!Issuing # {} /\ k \in C!Issuing \cup {l})
  BY <1>2 DEF C!IssueReset
<1>5. issue' \in [Links -> [closes : SUBSET Links, crossed : BOOLEAN]]
  BY <1>2, Zenon DEF C!IssueReset
<1>6. C!IssuesCross'
  <2>1. cserial => C!Issuing = {}
    BY <1>1 DEF C!Free
  <2>2. \A k \in Links : k \in C!Issuing <=> link[k] = "issuing"
    BY DEF C!Issuing
  <2>3. \A k \in Links : cserial' => ~issue'[k].crossed
    BY <1>1, <1>4, <2>1 DEF C!CredentialsInv, C!IssuesCross
  <2>4. ASSUME NEW k \in Links, link'[k] = "issuing", NEW m \in issue'[k].closes
        PROVE  link'[m] \in {"open", "used"}
    <3>1. CASE k = l
      BY <1>1, <1>3, <1>4, <2>4, <3>1
    <3>2. CASE k # l
      BY <1>1, <1>2, <1>3, <1>4, <2>4, <3>2 DEF C!CredentialsInv, C!IssuesCross
    <3>3. QED
      BY <3>1, <3>2
  <2>5. ASSUME NEW k \in Links, NEW m \in Links, k # m,
               link'[k] \in {"open", "issuing"}, link'[m] \in {"open", "issuing"},
               link'[m] = "issuing" => k \notin issue'[m].closes,
               link'[k] = "issuing" => m \notin issue'[k].closes
        PROVE  issue'[k].crossed /\ issue'[m].crossed
    <3>1. CASE k # l /\ m # l
      BY <1>3, <1>4, <2>5, <3>1 DEF C!CredentialsInv, C!IssuesCross
    <3>2. CASE k = l
      <4>1. m # l /\ link'[m] = link[m] /\ link'[l] = "issuing"
        BY <1>3, <2>5, <3>2
      <4>2. link[m] # "open"
        BY <1>4, <2>5, <3>2, <4>1
      <4>3. m \in C!Issuing /\ l \in C!Issuing \cup {l}
        BY <2>2, <2>5, <4>1, <4>2
      <4>4. QED
        BY <1>4, <3>2, <4>3, Zenon
    <3>3. CASE m = l
      <4>1. k # l /\ link'[k] = link[k] /\ link'[l] = "issuing"
        BY <1>3, <2>5, <3>3
      <4>2. link[k] # "open"
        BY <1>4, <2>5, <3>3, <4>1
      <4>3. k \in C!Issuing /\ l \in C!Issuing \cup {l}
        BY <2>2, <2>5, <4>1, <4>2
      <4>4. QED
        BY <1>4, <3>3, <4>3, Zenon
    <3>4. QED
      BY <3>1, <3>2, <3>3
  <2>6. QED
    BY <2>3, <2>4, <2>5 DEF C!IssuesCross
<1>7. QED
  BY <1>1, <1>2, <1>5, <1>6, LinkKeeps

\* A commit opens the new link and closes those its issue found.
LEMMA IssueResetCommitKeeps ==
    ASSUME C!CredentialsInv, NEW l \in Links, C!IssueResetCommit(l)
    PROVE  C!CredentialsInv'
<1>1. /\ link[l] = "issuing"
      /\ link' = [k \in Links |-> IF k = l THEN "open"
                                 ELSE IF k \in issue[l].closes THEN "used" ELSE link[k]]
      /\ UNCHANGED <<account, sessions, order, cserial, issue, creq, epoch, lastSet, crowded, undone>>
  BY DEF C!IssueResetCommit
<1>2. /\ link \in [Links -> {"none", "issuing", "open", "used"}]
      /\ issue \in [Links -> [closes : SUBSET Links, crossed : BOOLEAN]]
  BY DEF C!CredentialsInv, C!TypeOK
<1>3. C!IssuesCross'
  <2>1. \A k \in issue[l].closes : link[k] \in {"open", "used"}
    BY <1>1 DEF C!CredentialsInv, C!IssuesCross
  <2>2. ASSUME NEW k \in Links, link'[k] = "issuing", NEW m \in issue'[k].closes
        PROVE  link'[m] \in {"open", "used"}
    BY <1>1, <1>2, <2>2 DEF C!CredentialsInv, C!IssuesCross
  <2>3. ASSUME NEW k \in Links, NEW m \in Links, k # m,
               link'[k] \in {"open", "issuing"}, link'[m] \in {"open", "issuing"},
               link'[m] = "issuing" => k \notin issue'[m].closes,
               link'[k] = "issuing" => m \notin issue'[k].closes
        PROVE  issue'[k].crossed /\ issue'[m].crossed
    <3>1. CASE k # l /\ m # l
      BY <1>1, <1>2, <2>3, <3>1 DEF C!CredentialsInv, C!IssuesCross
    <3>2. CASE k = l
      <4>1. link[m] \in {"open", "issuing"} /\ m \notin issue[l].closes
        BY <1>1, <2>3, <3>2
      <4>2. link[m] = "issuing" => l \notin issue[m].closes
        BY <1>1, <2>3, <3>2 DEF C!CredentialsInv, C!IssuesCross
      <4>3. QED
        BY <1>1, <2>3, <3>2, <4>1, <4>2 DEF C!CredentialsInv, C!IssuesCross
    <3>3. CASE m = l
      <4>1. link[k] \in {"open", "issuing"} /\ k \notin issue[l].closes
        BY <1>1, <2>3, <3>3
      <4>2. link[k] = "issuing" => l \notin issue[k].closes
        BY <1>1, <2>3, <3>3 DEF C!CredentialsInv, C!IssuesCross
      <4>3. QED
        BY <1>1, <2>3, <3>3, <4>1, <4>2 DEF C!CredentialsInv, C!IssuesCross
    <3>4. QED
      BY <3>1, <3>2, <3>3
  <2>4. \A k \in Links : cserial' => ~issue'[k].crossed
    BY <1>1 DEF C!CredentialsInv, C!IssuesCross
  <2>5. QED
    BY <2>2, <2>3, <2>4 DEF C!IssuesCross
<1>4. link' \in [Links -> {"none", "issuing", "open", "used"}]
  BY <1>1, <1>2
<1>5. \A k \in Links : link[k] = "used" => link'[k] = "used"
  BY <1>1
<1>6. QED
  BY <1>1, <1>2, <1>3, <1>4, <1>5, LinkKeeps

LEMMA LinkExpiresKeeps ==
    ASSUME C!CredentialsInv, NEW l \in Links, C!LinkExpires(l)
    PROVE  C!CredentialsInv'
<1>1. /\ link[l] = "open" /\ link' = [link EXCEPT ![l] = "used"]
      /\ UNCHANGED <<account, sessions, order, cserial, issue, creq, epoch, lastSet, crowded, undone>>
  BY DEF C!LinkExpires
<1>2. /\ link \in [Links -> {"none", "issuing", "open", "used"}]
      /\ issue \in [Links -> [closes : SUBSET Links, crossed : BOOLEAN]]
  BY DEF C!CredentialsInv, C!TypeOK
<1>3. C!IssuesCross'
  BY <1>1, <1>2 DEF C!CredentialsInv, C!IssuesCross
<1>4. QED
  BY <1>1, <1>2, <1>3, LinkKeeps

\* The conditional UPDATE lets one request through per link.
LEMMA ConsumeKeeps ==
    ASSUME C!CredentialsInv, NEW q \in Requests, C!ResetConsume(q)
    PROVE  C!CredentialsInv'
<1> DEFINE l == creq[q].link
<1>1. creq[q].at = "linked" /\ l \in Links /\ link' = [link EXCEPT ![l] = "used"]
  BY DEF C!ResetConsume, C!CredentialsInv, C!LinksSpentOnce
<1>2. UNCHANGED <<account, sessions, order, cserial, issue, epoch, lastSet, crowded, undone>>
  BY DEF C!ResetConsume
<1>3. ~\E i \in DOMAIN order : order[i] = q
  BY <1>1 DEF C!CredentialsInv, C!OrderIsHistory
<1>4. \A r \in Requests : r # q => creq'[r] = creq[r]
  BY DEF C!ResetConsume, C!Goto, C!CredentialsInv, C!TypeOK
<1>5. /\ creq'[q].at = IF link[l] = "open" THEN "cleared" ELSE "done"
      /\ creq'[q].link = l
  BY DEF C!ResetConsume, C!Goto, C!CredentialsInv, C!TypeOK, C!Request
<1>6. C!TypeOK'
  <2> creq[q] \in C!Request
    BY DEF C!CredentialsInv, C!TypeOK
  <2>1. \A at \in {"cleared", "done"} : [creq[q] EXCEPT !.at = at] \in C!Request
    BY DEF C!Request
  <2>2. creq' \in [Requests -> C!Request]
    BY <2>1 DEF C!ResetConsume, C!Goto, C!CredentialsInv, C!TypeOK
  <2>3. QED
    BY <1>1, <1>2, <2>2 DEF C!CredentialsInv, C!TypeOK
<1>7. q \notin sessions
  BY <1>3 DEF C!CredentialsInv, C!OrderIsHistory
<1>8. C!RevokedForGood' /\ C!PasswordStands' /\ C!RehashesCompared' /\ C!CutSuffices'
  BY <1>2, <1>4, <1>5, <1>7 DEF C!CredentialsInv, C!RevokedForGood, C!PasswordStands,
     C!RehashesCompared, C!CutSuffices, C!TypeOK
<1>9. C!OrderIsHistory'
  <2>1. \A i \in DOMAIN order : order[i] \in Requests \ {q}
    BY <1>3 DEF C!CredentialsInv, C!TypeOK
  <2>2. QED
    BY <1>2, <1>4, <1>5, <2>1 DEF C!CredentialsInv, C!OrderIsHistory
<1>10. C!LinksSpentOnce'
  <2>1. \A k \in Links : link'[k] = IF k = l THEN "used" ELSE link[k]
    BY <1>1 DEF C!CredentialsInv, C!TypeOK
  <2>2. \A r \in Requests : r # q => (C!HasSpent(r)' <=> C!HasSpent(r))
    BY <1>2, <1>4 DEF C!HasSpent
  <2>3. C!HasSpent(q)' => link[l] = "open"
    BY <1>2, <1>3, <1>5 DEF C!HasSpent
  <2>4. \A r \in Requests : r # q /\ C!HasSpent(r) /\ creq[r].link = l => link[l] = "used"
    BY <1>1 DEF C!CredentialsInv, C!LinksSpentOnce
  <2>5. QED
    BY <1>1, <1>4, <1>5, <2>1, <2>2, <2>3, <2>4 DEF C!CredentialsInv, C!LinksSpentOnce
<1>11. C!IssuesCross'
  BY <1>1, <1>2 DEF C!CredentialsInv, C!IssuesCross, C!TypeOK
<1>12. QED
  BY <1>6, <1>8, <1>9, <1>10, <1>11 DEF C!CredentialsInv

\* What fits under the cap still does when sessions have ended meanwhile.
LEMMA FewerFit ==
    ASSUME C!CredentialsInv, NEW r \in Requests, creq[r].at = "inserted", r \notin crowded,
           NEW left, left \subseteq sessions
    PROVE  C!Cardinality((left \cup {r}) \ creq[r].cut) <= Cap
<1>1. IsFiniteSet((sessions \cup {r}) \ creq[r].cut)
  BY SameSize, FS_AddElement, FS_Difference DEF C!CredentialsInv, C!OrderIsHistory
<1>2. /\ Cardinality((left \cup {r}) \ creq[r].cut) <= Cardinality((sessions \cup {r}) \ creq[r].cut)
      /\ IsFiniteSet((left \cup {r}) \ creq[r].cut)
  BY <1>1, FS_Subset
<1>3. Cardinality((sessions \cup {r}) \ creq[r].cut) <= Cap
  BY SameSize DEF C!CredentialsInv, C!CutSuffices
<1>4. QED
  BY <1>1, <1>2, <1>3, FS_CardinalityType, SameSize, AccountsAssumption

\* The new password is the one last set, and no session is left of an earlier epoch.
LEMMA SetPasswordKeeps ==
    ASSUME C!CredentialsInv, NEW q \in Requests, C!SetPassword(q)
    PROVE  C!CredentialsInv'
<1>1. /\ creq[q].at = "cleared" /\ sessions' = {} /\ epoch' = epoch + 1 /\ epoch < MaxEpoch
      /\ lastSet' = creq[q].pwd
      /\ UNCHANGED <<order, cserial, link, issue, crowded, undone>>
  BY DEF C!SetPassword
<1>2. \A r \in Requests : r # q => creq'[r] = creq[r]
  BY DEF C!SetPassword, C!CredentialsInv, C!TypeOK
<1>3. creq'[q].at = "verified" /\ ~creq'[q].old /\ creq'[q].link = creq[q].link
  BY DEF C!SetPassword, C!CredentialsInv, C!TypeOK, C!Request
<1>4. account' \in C!Account /\ account'.pwd = lastSet'
  BY <1>1 DEF C!SetPassword, C!CredentialsInv, C!TypeOK, C!Account, C!Request
<1>5. C!TypeOK'
  <2>1. epoch + 1 \in 0 .. MaxEpoch /\ lastSet' \in Passwords
    BY <1>1, AccountsAssumption DEF C!CredentialsInv, C!TypeOK, C!Request
  <2> creq[q] \in C!Request
    BY DEF C!CredentialsInv, C!TypeOK
  <2>2. [creq[q] EXCEPT !.at = "verified", !.old = FALSE, !.seen = epoch + 1] \in C!Request
    BY <2>1 DEF C!Request
  <2>3. creq' = [creq EXCEPT ![q] = [creq[q] EXCEPT !.at = "verified", !.old = FALSE,
                                                    !.seen = epoch + 1]]
    BY DEF C!SetPassword, C!CredentialsInv, C!TypeOK, C!Request
  <2>4. QED
    BY <1>1, <1>4, <2>1, <2>2, <2>3 DEF C!CredentialsInv, C!TypeOK
<1>6. C!RevokedForGood' /\ C!PasswordStands' /\ C!RehashesCompared'
  BY <1>1, <1>2, <1>3, <1>4 DEF C!CredentialsInv, C!RevokedForGood, C!PasswordStands,
     C!RehashesCompared
<1>7. C!OrderIsHistory'
  <2>1. \A i \in DOMAIN order : order[i] \in Requests \ {q}
    BY <1>1 DEF C!CredentialsInv, C!TypeOK, C!OrderIsHistory
  <2>2. QED
    BY <1>1, <1>2, <1>3, <2>1, FS_EmptySet, SameSize DEF C!CredentialsInv, C!OrderIsHistory
<1>8. C!LinksSpentOnce'
  <2>1. \A r \in Requests : C!HasSpent(r)' => C!HasSpent(r)
    BY <1>1, <1>2 DEF C!HasSpent
  <2>2. QED
    BY <1>1, <1>2, <1>3, <2>1 DEF C!CredentialsInv, C!LinksSpentOnce
<1>9. C!CutSuffices'
  <2>1. \A r \in Requests : creq'[r].at = "inserted" => r # q
    BY <1>3
  <2>2. QED
    BY <1>1, <1>2, <2>1, FewerFit DEF C!CredentialsInv, C!CutSuffices
<1>10. QED
  BY <1>1, <1>5, <1>6, <1>7, <1>8, <1>9, IssuesStand DEF C!CredentialsInv

\* Sessions end by deactivation, log-out or revocation.
LEMMA EndKeeps ==
    ASSUME C!CredentialsInv, sessions' \subseteq sessions,
           UNCHANGED <<order, cserial, link, issue, creq, lastSet, crowded, undone>>,
           account' \in C!Account, account'.pwd = account.pwd,
           epoch' \in 0 .. MaxEpoch, epoch' = epoch \/ sessions' = {}
    PROVE  C!CredentialsInv'
<1>1. C!TypeOK'
  BY DEF C!CredentialsInv, C!TypeOK
<1>2. C!RevokedForGood' /\ C!PasswordStands' /\ C!RehashesCompared'
  BY DEF C!CredentialsInv, C!RevokedForGood, C!PasswordStands, C!RehashesCompared
<1>3. C!OrderIsHistory'
  <2>1. C!IsFiniteSet(sessions')
    BY SameSize, FS_Subset DEF C!CredentialsInv, C!OrderIsHistory
  <2>2. QED
    BY <2>1 DEF C!CredentialsInv, C!OrderIsHistory
<1>4. C!LinksSpentOnce'
  BY DEF C!CredentialsInv, C!LinksSpentOnce, C!HasSpent
<1>5. C!CutSuffices'
  BY FewerFit DEF C!CredentialsInv, C!CutSuffices
<1>6. QED
  BY <1>1, <1>2, <1>3, <1>4, <1>5, IssuesStand DEF C!CredentialsInv

LEMMA CredentialsStep == C!CredentialsInv /\ [C!Next]_(C!vars) => C!CredentialsInv'
<1> SUFFICES ASSUME C!CredentialsInv, [C!Next]_(C!vars) PROVE C!CredentialsInv'
  OBVIOUS
<1>1. ASSUME NEW q \in Requests, NEW p \in Passwords, C!Login(q, p) PROVE C!CredentialsInv'
  BY <1>1, EnterKeeps DEF C!Login
<1>2. ASSUME NEW q \in Requests, NEW s \in Requests, NEW p \in Passwords, NEW n \in Passwords,
             C!Change(q, s, p, n)
      PROVE  C!CredentialsInv'
  BY <1>2, EnterKeeps DEF C!Change
<1>3. ASSUME NEW q \in Requests, NEW l \in Links, NEW n \in Passwords, C!Reset(q, l, n)
      PROVE  C!CredentialsInv'
  BY <1>3, EnterKeeps DEF C!Reset
<1>4. ASSUME NEW q \in Requests,
             C!Rehash(q) \/ C!IssueInsert(q) \/ C!IssueCommit(q) \/ C!ResetConsume(q)
             \/ C!SetPassword(q)
      PROVE  C!CredentialsInv'
  BY <1>4, RehashKeeps, InsertKeeps, CommitKeeps, ConsumeKeeps, SetPasswordKeeps
<1>5. ASSUME NEW l \in Links, C!IssueReset(l) \/ C!IssueResetCommit(l) \/ C!LinkExpires(l)
      PROVE  C!CredentialsInv'
  BY <1>5, IssueResetKeeps, IssueResetCommitKeeps, LinkExpiresKeeps
<1>6. account \in C!Account /\ epoch \in 0 .. MaxEpoch
  BY DEF C!CredentialsInv, C!TypeOK
<1>7. ASSUME NEW b \in BOOLEAN, C!SetActive(b) PROVE C!CredentialsInv'
  <2>1. account' \in C!Account /\ account'.pwd = account.pwd
    BY <1>6, <1>7 DEF C!SetActive, C!Account
  <2>2. /\ sessions' \subseteq sessions /\ epoch' \in 0 .. MaxEpoch
        /\ epoch' = epoch \/ sessions' = {}
    BY <1>6, <1>7, AccountsAssumption DEF C!SetActive
  <2>3. QED
    BY <1>7, <2>1, <2>2, EndKeeps DEF C!SetActive
<1>8. ASSUME NEW s, C!Logout(s) PROVE C!CredentialsInv'
  BY <1>6, <1>8, EndKeeps DEF C!Logout
<1>9. ASSUME NEW s, NEW gone, C!Revoke(s, gone) PROVE C!CredentialsInv'
  BY <1>6, <1>9, EndKeeps DEF C!Revoke
<1>10. CASE UNCHANGED C!vars
  BY <1>6, <1>10, EndKeeps DEF C!vars
<1>11. QED
  BY <1>1, <1>2, <1>3, <1>4, <1>5, <1>7, <1>8, <1>9, <1>10 DEF C!Next

-----------------------------------------------------------------------------
(* What follows from the invariant.                                         *)

LEMMA CredentialsFollow == C!CredentialsInv => C!CredentialsHold
<1> SUFFICES ASSUME C!CredentialsInv PROVE C!LinkOnce
  BY DEF C!CredentialsInv, C!CredentialsHold
<1>1. ASSUME NEW l \in Links
      PROVE  C!Cardinality({q \in Requests : creq[q].link = l
                               /\ creq[q].at \in {"cleared", "verified", "inserted"}}
                           \cup {q \in Requests : creq[q].link = l /\ C!Contains(order, q)}) <= 1
  <2> DEFINE spenders == {q \in Requests : creq[q].link = l
                              /\ creq[q].at \in {"cleared", "verified", "inserted"}}
                         \cup {q \in Requests : creq[q].link = l /\ C!Contains(order, q)}
  <2>1. \A q \in spenders : q \in Requests /\ creq[q].link = l /\ C!HasSpent(q)
    BY DEF C!HasSpent, C!Contains, C!CredentialsInv, C!TypeOK
  <2>2. \A q, r \in spenders : q = r
    BY <2>1 DEF C!CredentialsInv, C!LinksSpentOnce
  <2>3. Cardinality(spenders) <= 1
    BY <2>2, AtMostOne
  <2>4. QED
    BY <2>3, SameSize
<1>2. \A k, l \in Links : link[k] = "open" /\ link[l] = "open" /\ k # l =>
         ~cserial /\ issue[k].crossed /\ issue[l].crossed
  BY DEF C!CredentialsInv, C!IssuesCross
<1>3. QED
  BY <1>1, <1>2 DEF C!LinkOnce

\* The composition takes steps of Credentials or leaves its variables alone.
LEMMA CredentialsComposed == Spec => C!Spec
<1>1. Init => C!Init
  BY DEF Init
<1>2. [Next]_vars => [C!Next]_(C!vars)
  BY DEF Next, vars, cvars, C!vars
<1>3. QED
  BY <1>1, <1>2, PTL DEF Spec, C!Spec

\* Revoked sessions are gone for good, the password is the one last set and a reset link
\* works once (update_user_password, consume_auth_action_token), for any number of
\* overlapping requests, links and revocations: two links are open only if their issues overlapped.
THEOREM CredentialsSafe == Spec => []CredentialsHold
<1>1. C!Spec => []C!CredentialsInv
  BY CredentialsStart, CredentialsStep, PTL DEF C!Spec
<1>2. QED
  BY <1>1, CredentialsComposed, CredentialsFollow, PTL DEF CredentialsHold

\* A sign-in that overlaps no other insertion leaves at most Cap sessions
\* (create_auth_session), whatever ended while it was under way.
THEOREM CapIsRestored == Spec => CapRestored
<1>1. C!Spec => []C!CredentialsInv
  BY CredentialsStart, CredentialsStep, PTL DEF C!Spec
<1> DEFINE Kept == \A q \in Requests :
                      creq[q].at = "inserted" /\ creq'[q].at = "done" /\ q \notin crowded
                      => C!Cardinality(sessions') <= Cap
<1>2. C!CredentialsInv /\ [C!Next]_(C!vars) => [Kept]_(C!vars)
  <2> SUFFICES ASSUME C!CredentialsInv, C!Next, NEW q \in Requests,
                      creq[q].at = "inserted", creq'[q].at = "done", q \notin crowded
               PROVE  C!Cardinality(sessions') <= Cap
    OBVIOUS
  <2>1. C!IssueCommit(q)
    BY DEF C!Next, C!Login, C!Rehash, C!IssueInsert, C!IssueCommit, C!ResetConsume, C!SetPassword,
       C!Change, C!IssueReset, C!IssueResetCommit, C!LinkExpires, C!Reset, C!SetActive, C!Logout, C!Revoke,
       C!Enter, C!Goto, C!CredentialsInv, C!TypeOK, C!Request
  <2>2. QED
    BY <2>1 DEF C!IssueCommit, C!CredentialsInv, C!CutSuffices
<1>3. QED
  BY <1>1, <1>2, CredentialsComposed, PTL DEF CapRestored, C!CapRestored, C!Spec

-----------------------------------------------------------------------------
(* SignIn: codes, links and the flows of the identity providers.             *)

LEMMA SignInStart == S!Init => S!SignInInv
<1> SUFFICES ASSUME S!Init PROVE S!SignInInv
  OBVIOUS
<1> USE AccountsAssumption
<1>1. S!NoRow \in S!Row /\ S!Idle \in S!Request
  BY DEF S!NoRow, S!Row, S!Idle, S!Request
<1>2. \A q \in Requests : sreq[q] = S!Idle /\ session[q] = None
  BY DEF S!Init
<1>3. \A c \in Challenges : challenge[c] = S!NoRow /\ guesses[c] = 0
  BY DEF S!Init
<1>4. S!TypeOK
  <2>1. challenge \in [Challenges -> S!Row] /\ sreq \in [Requests -> S!Request]
    BY <1>1 DEF S!Init
  <2>2. sactive \in [Accounts -> BOOLEAN]
    BY DEF S!Init
  <2>3. QED
    BY <2>1, <2>2 DEF S!Init, S!TypeOK
<1>5. S!HandlersFit /\ S!ProofsSpent /\ S!SessionOfSubject /\ S!ProofOnce
  BY <1>2 DEF S!HandlersFit, S!ProofsSpent, S!SessionOfSubject, S!ProofOnce, S!Idle
<1>6. S!OpenIsNewest /\ S!CountersAgree
  BY <1>3 DEF S!Init, S!OpenIsNewest, S!CountersAgree, S!NoRow
<1>7. QED
  BY <1>4, <1>5, <1>6 DEF S!SignInInv

-----------------------------------------------------------------------------
(* Time and other requests: nothing a handler holds is touched.             *)

\* Codes and flows only close by themselves, cooldowns and windows end, names are taken
\* and accounts deactivated.
LEMMA SurroundingsKeep ==
    ASSUME S!SignInInv,
           UNCHANGED <<binding, sreq, session, guesses, newest>>,
           challenge' \in [Challenges -> S!Row], cooling' \subseteq Addresses,
           taken' \subseteq S!Subjects, sactive' \in [Accounts -> BOOLEAN],
           hits' \in [Addresses -> 0 .. SendLimit + 1], sent' \in [Addresses -> Nat],
           flow' \in [Flows -> {"none", "open", "used"}],
           \A c \in Challenges : /\ challenge'[c].address = challenge[c].address
                                 /\ challenge'[c].attempts = challenge[c].attempts
                                 /\ challenge'[c].open => challenge[c].open,
           \A f \in Flows : flow[f] = "used" => flow'[f] = "used",
           \A a \in Addresses : sent'[a] <= hits'[a] /\ sent'[a] <= SendLimit
    PROVE  S!SignInInv'
<1>1. S!TypeOK'
  BY DEF S!SignInInv, S!TypeOK
<1>2. S!HandlersFit' /\ S!OpenIsNewest' /\ S!CountersAgree'
  BY DEF S!SignInInv, S!TypeOK, S!HandlersFit, S!OpenIsNewest, S!CountersAgree
<1>3. S!ProofsSpent'
  BY DEF S!SignInInv, S!TypeOK, S!ProofsSpent
<1>4. S!SessionOfSubject' /\ S!ProofOnce'
  BY DEF S!SignInInv, S!SessionOfSubject, S!ProofOnce
<1>5. QED
  BY <1>1, <1>2, <1>3, <1>4 DEF S!SignInInv

LEMMA TimePasses ==
    ASSUME S!SignInInv,
           \/ \E a \in Addresses : S!CooldownEnds(a) \/ S!WindowEnds(a)
           \/ \E f \in Flows : S!FlowStart(f) \/ S!FlowExpires(f)
           \/ \E c \in Challenges : S!CodeExpires(c)
           \/ \E s \in S!Subjects : S!TakeName(s)
           \/ \E u \in Accounts : S!Deactivate(u)
           \/ UNCHANGED S!vars
    PROVE  S!SignInInv'
<1> USE AccountsAssumption
<1>1. ASSUME NEW a \in Addresses, S!CooldownEnds(a) PROVE S!SignInInv'
  BY <1>1, SurroundingsKeep DEF S!CooldownEnds, S!SignInInv, S!TypeOK, S!CountersAgree
<1>2. ASSUME NEW a \in Addresses, S!WindowEnds(a) PROVE S!SignInInv'
  <2>1. hits' \in [Addresses -> 0 .. SendLimit + 1] /\ sent' \in [Addresses -> Nat]
    BY <1>2 DEF S!WindowEnds, S!SignInInv, S!TypeOK
  <2>2. \A b \in Addresses : sent'[b] <= hits'[b] /\ sent'[b] <= SendLimit
    BY <1>2 DEF S!WindowEnds, S!SignInInv, S!TypeOK, S!CountersAgree
  <2>3. QED
    BY <1>2, <2>1, <2>2, SurroundingsKeep DEF S!WindowEnds, S!SignInInv, S!TypeOK
<1>3. ASSUME NEW f \in Flows, S!FlowStart(f) \/ S!FlowExpires(f) PROVE S!SignInInv'
  <2>1. flow' \in [Flows -> {"none", "open", "used"}]
        /\ \A g \in Flows : flow[g] = "used" => flow'[g] = "used"
    BY <1>3 DEF S!FlowStart, S!FlowExpires, S!SignInInv, S!TypeOK
  <2>2. QED
    BY <1>3, <2>1, SurroundingsKeep DEF S!FlowStart, S!FlowExpires, S!SignInInv, S!TypeOK,
       S!CountersAgree
<1>4. ASSUME NEW c \in Challenges, S!CodeExpires(c) PROVE S!SignInInv'
  <2>1. challenge[c] \in S!Row
    BY DEF S!SignInInv, S!TypeOK
  <2>2. [challenge[c] EXCEPT !.open = FALSE] \in S!Row
    BY <2>1 DEF S!Row
  <2>3. challenge' = [challenge EXCEPT ![c] = [challenge[c] EXCEPT !.open = FALSE]]
    BY <1>4 DEF S!CodeExpires
  <2>4. challenge' \in [Challenges -> S!Row]
    BY <2>2, <2>3 DEF S!SignInInv, S!TypeOK
  <2>5. \A d \in Challenges : /\ challenge'[d].address = challenge[d].address
                              /\ challenge'[d].attempts = challenge[d].attempts
                              /\ challenge'[d].open => challenge[d].open
    BY <2>1, <2>3 DEF S!SignInInv, S!TypeOK, S!Row
  <2>6. QED
    BY <1>4, <2>4, <2>5, SurroundingsKeep DEF S!CodeExpires, S!SignInInv, S!TypeOK, S!CountersAgree
<1>5. ASSUME NEW s \in S!Subjects, S!TakeName(s) PROVE S!SignInInv'
  BY <1>5, SurroundingsKeep DEF S!TakeName, S!SignInInv, S!TypeOK, S!CountersAgree
<1>6. ASSUME NEW u \in Accounts, S!Deactivate(u) PROVE S!SignInInv'
  <2>1. sactive' \in [Accounts -> BOOLEAN]
    BY <1>6 DEF S!Deactivate, S!SignInInv, S!TypeOK
  <2>2. QED
    BY <1>6, <2>1, SurroundingsKeep DEF S!Deactivate, S!SignInInv, S!TypeOK, S!CountersAgree
<1>7. CASE UNCHANGED S!vars
  BY <1>7, SurroundingsKeep DEF S!vars, S!SignInInv, S!TypeOK, S!CountersAgree
<1>8. QED
  BY <1>1, <1>2, <1>3, <1>4, <1>5, <1>6, <1>7

-----------------------------------------------------------------------------
(* A handler on its way.                                                    *)

\* What the record e of a handler has to hold, in the present state.
Fits(e) ==
    /\ e.at # "idle"
    /\ e.at \in {"reserved", "sending", "accepted", "failed"} =>
          /\ e.row \in Challenges /\ challenge[e.row].address \in Addresses
          /\ e.subject = None
    /\ e.at \in {"proved", "signup", "known"} => e.subject \in S!Subjects
    /\ e.at = "known" => e.account \in Accounts /\ binding[e.subject] = e.account

\* A handler that keeps its proof, or has none, goes on; nothing else changes.
LEMMA HandlerMoves ==
    ASSUME S!SignInInv, NEW q \in Requests, NEW e \in S!Request,
           sreq' = [sreq EXCEPT ![q] = e], Fits(e), session[q] = None,
           \/ e.subject = None
           \/ e.row = None
           \/ e.subject = sreq[q].subject /\ e.row = sreq[q].row,
           UNCHANGED <<challenge, flow, binding, session, guesses, newest, cooling, taken, sactive>>,
           hits' \in [Addresses -> 0 .. SendLimit + 1], sent' \in [Addresses -> Nat],
           \A a \in Addresses : sent'[a] <= hits'[a] /\ sent'[a] <= SendLimit
    PROVE  S!SignInInv'
<1>1. S!TypeOK'
  BY DEF S!SignInInv, S!TypeOK
<1>2. sreq'[q] = e /\ \A p \in Requests : p # q => sreq'[p] = sreq[p]
  BY DEF S!SignInInv, S!TypeOK
<1>3. S!HandlersFit'
  BY <1>2 DEF S!SignInInv, S!HandlersFit, Fits
<1>4. S!OpenIsNewest' /\ S!CountersAgree'
  BY DEF S!SignInInv, S!OpenIsNewest, S!CountersAgree
<1>5. S!ProofsSpent' /\ S!ProofOnce'
  BY <1>2 DEF S!SignInInv, S!ProofsSpent, S!ProofOnce
<1>6. S!SessionOfSubject'
  BY <1>2 DEF S!SignInInv, S!SessionOfSubject
<1>7. QED
  BY <1>1, <1>3, <1>4, <1>5, <1>6 DEF S!SignInInv

\* A handler that is not at its end has given no session.
LEMMA NoSessionYet ==
    ASSUME S!SignInInv, NEW q \in Requests, sreq[q].at # "done"
    PROVE  session[q] = None /\ sreq[q] \in S!Request
  BY DEF S!SignInInv, S!HandlersFit, S!TypeOK

LEMMA SendKeeps ==
    ASSUME S!SignInInv, NEW q \in Requests, NEW ok \in BOOLEAN, S!Send(q, ok)
    PROVE  S!SignInInv'
<1> DEFINE e == [sreq[q] EXCEPT !.at = IF ok THEN "accepted" ELSE "failed"]
<1>1. sreq[q].at = "sending" /\ sreq[q] \in S!Request /\ session[q] = None
  BY NoSessionYet DEF S!Send
<1>2. e \in S!Request
  BY <1>1 DEF S!Request
<1>3. sreq' = [sreq EXCEPT ![q] = e]
  BY DEF S!Send, S!Goto
<1>4. e.row = sreq[q].row /\ e.subject = sreq[q].subject /\ e.at \in {"accepted", "failed"}
  BY <1>1 DEF S!Request
<1>5. Fits(e)
  BY <1>1, <1>4 DEF Fits, S!SignInInv, S!HandlersFit
<1>6. QED
  BY <1>1, <1>2, <1>3, <1>4, <1>5, HandlerMoves DEF S!Send, S!SignInInv, S!TypeOK, S!CountersAgree

\* The upsert of consume_limit: what it lets through stays within the hits it has counted.
LEMMA CountKeeps ==
    ASSUME S!SignInInv, NEW q \in Requests, S!Count(q)
    PROVE  S!SignInInv'
<1> USE AccountsAssumption
<1> DEFINE a == challenge[sreq[q].row].address
           at == IF hits'[a] <= SendLimit THEN "sending" ELSE "failed"
           e == [sreq[q] EXCEPT !.at = at]
<1>1. sreq[q].at = "reserved" /\ sreq[q] \in S!Request /\ session[q] = None
  BY NoSessionYet DEF S!Count
<1>2. a \in Addresses /\ sreq[q].row \in Challenges /\ sreq[q].subject = None
  BY <1>1 DEF S!SignInInv, S!HandlersFit
<1>3. hits' \in [Addresses -> 0 .. SendLimit + 1]
  BY <1>2 DEF S!Count, S!SignInInv, S!TypeOK
<1>4. hits'[a] = IF hits[a] <= SendLimit THEN hits[a] + 1 ELSE hits[a]
  BY <1>2 DEF S!Count, S!SignInInv, S!TypeOK
<1>5. sent' \in [Addresses -> Nat] /\ \A b \in Addresses : sent'[b] <= hits'[b] /\ sent'[b] <= SendLimit
  <2>1. sent' = IF hits'[a] <= SendLimit THEN [sent EXCEPT ![a] = @ + 1] ELSE sent
    BY DEF S!Count
  <2>2. \A b \in Addresses : b # a => hits'[b] = hits[b]
    BY DEF S!Count, S!SignInInv, S!TypeOK
  <2>3. /\ hits \in [Addresses -> 0 .. SendLimit + 1] /\ sent \in [Addresses -> Nat]
        /\ \A b \in Addresses : sent[b] <= hits[b] /\ sent[b] <= SendLimit
    BY DEF S!SignInInv, S!TypeOK, S!CountersAgree
  <2>4. CASE hits'[a] <= SendLimit
    <3>1. sent'[a] = sent[a] + 1 /\ sent' \in [Addresses -> Nat]
          /\ \A b \in Addresses : b # a => sent'[b] = sent[b]
      BY <1>2, <2>1, <2>3, <2>4
    <3>2. hits'[a] = hits[a] + 1
      BY <1>2, <1>4, <2>3, <2>4
    <3>3. QED
      BY <1>2, <2>2, <2>3, <2>4, <3>1, <3>2
  <2>5. CASE ~(hits'[a] <= SendLimit)
    <3>1. sent' = sent /\ hits'[a] >= hits[a]
      BY <1>2, <1>4, <2>1, <2>3, <2>5
    <3>2. QED
      BY <1>2, <1>3, <2>2, <2>3, <3>1
  <2>6. QED
    BY <2>4, <2>5
<1>6. e \in S!Request /\ e.row = sreq[q].row /\ e.subject = None /\ e.at \in {"sending", "failed"}
  BY <1>1, <1>2 DEF S!Request
<1>7. sreq' = [sreq EXCEPT ![q] = e]
  BY DEF S!Count, S!Goto
<1>8. Fits(e)
  BY <1>2, <1>6 DEF Fits
<1>9. QED
  BY <1>1, <1>3, <1>5, <1>6, <1>7, <1>8, HandlerMoves DEF S!Count

\* Lookup and the loser of a sign-up find the account the subject is bound to.
LEMMA LookupKeeps ==
    ASSUME S!SignInInv, NEW q \in Requests, S!Lookup(q) \/ S!SignUpLost(q)
    PROVE  S!SignInInv'
<1> USE AccountsAssumption
<1>1. sreq[q].at \in {"proved", "signup"} /\ sreq[q] \in S!Request /\ session[q] = None
      /\ sreq[q].subject \in S!Subjects
  BY NoSessionYet DEF S!Lookup, S!SignUpLost, S!SignInInv, S!HandlersFit
<1> DEFINE u == binding[sreq[q].subject]
<1>2. \/ sreq' = [sreq EXCEPT ![q] = [sreq[q] EXCEPT !.at = "known", !.account = u]] /\ u # None
      \/ sreq' = [sreq EXCEPT ![q] = [sreq[q] EXCEPT !.at = "signup"]]
      \/ sreq' = [sreq EXCEPT ![q] = [sreq[q] EXCEPT !.at = "done"]]
  <2>1. \/ sreq' = [sreq EXCEPT ![q].at = "known", ![q].account = u] /\ u # None
        \/ sreq' = [sreq EXCEPT ![q].at = "signup"]
        \/ sreq' = [sreq EXCEPT ![q].at = "done"]
    BY DEF S!Lookup, S!SignUpLost, S!Goto
  <2>2. sreq \in [Requests -> S!Request]
    BY DEF S!SignInInv, S!TypeOK
  <2>3. [sreq EXCEPT ![q].at = "known", ![q].account = u]
          = [sreq EXCEPT ![q] = [sreq[q] EXCEPT !.at = "known", !.account = u]]
    BY <2>2 DEF S!Request
  <2>4. QED
    BY <2>1, <2>3
<1>3. u \in Accounts \cup {None}
  BY <1>1 DEF S!SignInInv, S!TypeOK
<1>4. PICK e \in S!Request : /\ sreq' = [sreq EXCEPT ![q] = e]
                             /\ e.row = sreq[q].row /\ e.subject = sreq[q].subject
                             /\ \/ e.at = "known" /\ e.account = u /\ u # None
                                \/ e.at \in {"signup", "done"}
  <2>1. \A v \in Accounts \cup {None}, at \in {"known", "signup", "done"} :
          /\ [sreq[q] EXCEPT !.at = at] \in S!Request
          /\ [sreq[q] EXCEPT !.at = at, !.account = v] \in S!Request
    BY <1>1 DEF S!Request
  <2>2. CASE sreq' = [sreq EXCEPT ![q] = [sreq[q] EXCEPT !.at = "known", !.account = u]] /\ u # None
    <3>1. /\ [sreq[q] EXCEPT !.at = "known", !.account = u].at = "known"
          /\ [sreq[q] EXCEPT !.at = "known", !.account = u].account = u
          /\ [sreq[q] EXCEPT !.at = "known", !.account = u].row = sreq[q].row
          /\ [sreq[q] EXCEPT !.at = "known", !.account = u].subject = sreq[q].subject
      BY <1>1 DEF S!Request
    <3>2. QED
      BY <1>3, <2>1, <2>2, <3>1
  <2>3. ASSUME NEW at \in {"signup", "done"}, sreq' = [sreq EXCEPT ![q] = [sreq[q] EXCEPT !.at = at]]
        PROVE  \E e \in S!Request : /\ sreq' = [sreq EXCEPT ![q] = e]
                                    /\ e.row = sreq[q].row /\ e.subject = sreq[q].subject
                                    /\ e.at \in {"signup", "done"}
    <3>1. /\ [sreq[q] EXCEPT !.at = at].at = at
          /\ [sreq[q] EXCEPT !.at = at].row = sreq[q].row
          /\ [sreq[q] EXCEPT !.at = at].subject = sreq[q].subject
      BY <1>1 DEF S!Request
    <3>2. QED
      BY <2>1, <2>3, <3>1
  <2>4. QED
    BY <1>2, <2>2, <2>3
<1>5. Fits(e)
  BY <1>1, <1>3, <1>4 DEF Fits
<1>6. UNCHANGED <<challenge, cooling, hits, flow, binding, taken, sactive, session, guesses, newest, sent>>
  BY DEF S!Lookup, S!SignUpLost
<1>7. QED
  BY <1>1, <1>4, <1>5, <1>6, HandlerMoves DEF S!SignInInv, S!TypeOK, S!CountersAgree

\* The transaction of a sign-up binds a subject that had no account.
LEMMA SignUpKeeps ==
    ASSUME S!SignInInv, NEW q \in Requests, NEW u \in Accounts, S!SignUp(q, u)
    PROVE  S!SignInInv'
<1> USE AccountsAssumption
<1> DEFINE e == [sreq[q] EXCEPT !.at = "known", !.account = u]
<1>1. /\ sreq[q].at = "signup" /\ sreq[q] \in S!Request /\ session[q] = None
      /\ sreq[q].subject \in S!Subjects /\ binding[sreq[q].subject] = None
  BY NoSessionYet DEF S!SignUp, S!SignInInv, S!HandlersFit
<1>2. binding' = [binding EXCEPT ![sreq[q].subject] = u]
      /\ UNCHANGED <<challenge, cooling, hits, flow, taken, sactive, session, guesses, newest, sent>>
  BY DEF S!SignUp
<1>3. /\ e \in S!Request /\ e.row = sreq[q].row /\ e.subject = sreq[q].subject
      /\ e.at = "known" /\ e.account = u
  BY <1>1 DEF S!Request
<1>4. sreq' = [sreq EXCEPT ![q] = e]
  <2>1. sreq \in [Requests -> S!Request]
    BY DEF S!SignInInv, S!TypeOK
  <2>2. QED
    BY <2>1 DEF S!SignUp, S!Request
<1> HIDE DEF e
<1>5. sreq'[q] = e /\ \A p \in Requests : p # q => sreq'[p] = sreq[p]
  BY <1>4 DEF S!SignInInv, S!TypeOK
<1>6. \A s \in S!Subjects : binding'[s] = IF s = sreq[q].subject THEN u ELSE binding[s]
  BY <1>1, <1>2 DEF S!SignInInv, S!TypeOK
<1>7. S!TypeOK'
  BY <1>1, <1>2, <1>3, <1>4 DEF S!SignInInv, S!TypeOK
<1>8. S!HandlersFit'
  BY <1>1, <1>2, <1>3, <1>5, <1>6 DEF S!SignInInv, S!HandlersFit
<1>9. S!OpenIsNewest' /\ S!CountersAgree'
  BY <1>2 DEF S!SignInInv, S!OpenIsNewest, S!CountersAgree
<1>10. S!ProofsSpent' /\ S!ProofOnce'
  BY <1>2, <1>3, <1>5 DEF S!SignInInv, S!ProofsSpent, S!ProofOnce
<1>11. S!SessionOfSubject'
  BY <1>1, <1>2, <1>5, <1>6 DEF S!SignInInv, S!SessionOfSubject, S!HandlersFit
<1>12. QED
  BY <1>7, <1>8, <1>9, <1>10, <1>11 DEF S!SignInInv

\* The session is for the account the subject is bound to.
LEMMA CompleteKeeps ==
    ASSUME S!SignInInv, NEW q \in Requests, S!Complete(q)
    PROVE  S!SignInInv'
<1> USE AccountsAssumption
<1> DEFINE e == [sreq[q] EXCEPT !.at = "done"]
<1>1. /\ sreq[q].at = "known" /\ sreq[q] \in S!Request
      /\ sreq[q].subject \in S!Subjects /\ sreq[q].account \in Accounts
      /\ binding[sreq[q].subject] = sreq[q].account
  BY NoSessionYet DEF S!Complete, S!SignInInv, S!HandlersFit
<1>2. session' = [session EXCEPT ![q] = sreq[q].account]
      /\ UNCHANGED <<challenge, cooling, hits, flow, binding, taken, sactive, guesses, newest, sent>>
  BY DEF S!Complete
<1>3. e \in S!Request /\ e.row = sreq[q].row /\ e.subject = sreq[q].subject /\ e.at = "done"
  BY <1>1 DEF S!Request
<1>4. sreq' = [sreq EXCEPT ![q] = e]
  BY DEF S!Complete, S!Goto
<1> HIDE DEF e
<1>5. sreq'[q] = e /\ \A p \in Requests : p # q => sreq'[p] = sreq[p]
  BY <1>4 DEF S!SignInInv, S!TypeOK
<1>6. session'[q] = sreq[q].account /\ \A p \in Requests : p # q => session'[p] = session[p]
  BY <1>2 DEF S!SignInInv, S!TypeOK
<1>7. S!TypeOK'
  BY <1>1, <1>2, <1>3, <1>4 DEF S!SignInInv, S!TypeOK
<1>8. S!HandlersFit'
  BY <1>1, <1>2, <1>3, <1>5, <1>6 DEF S!SignInInv, S!HandlersFit
<1>9. S!OpenIsNewest' /\ S!CountersAgree'
  BY <1>2 DEF S!SignInInv, S!OpenIsNewest, S!CountersAgree
<1>10. S!ProofsSpent' /\ S!ProofOnce'
  BY <1>2, <1>3, <1>5 DEF S!SignInInv, S!ProofsSpent, S!ProofOnce
<1>11. S!SessionOfSubject'
  BY <1>1, <1>2, <1>3, <1>5, <1>6 DEF S!SignInInv, S!SessionOfSubject
<1>12. QED
  BY <1>7, <1>8, <1>9, <1>10, <1>11 DEF S!SignInInv

-----------------------------------------------------------------------------
(* Codes and proofs.                                                        *)

\* A new code closes the earlier ones of its address and becomes the newest.
LEMMA ReserveKeeps ==
    ASSUME S!SignInInv, NEW q \in Requests, NEW c \in Challenges, NEW a \in Addresses,
           S!Reserve(q, c, a)
    PROVE  S!SignInInv'
<1> USE AccountsAssumption
<1> DEFINE e == [sreq[q] EXCEPT !.at = "reserved", !.row = c]
           new == [S!NoRow EXCEPT !.address = a, !.open = TRUE]
<1>1. /\ sreq[q].at = "idle" /\ sreq[q] = S!Idle /\ sreq[q] \in S!Request /\ session[q] = None
      /\ challenge[c] = S!NoRow
  BY NoSessionYet DEF S!Reserve, S!SignInInv, S!HandlersFit
<1>2. /\ UNCHANGED <<hits, flow, binding, taken, sactive, session, guesses, sent>>
      /\ newest' = [newest EXCEPT ![a] = c]
      /\ cooling' = cooling \cup {a}
      /\ sreq' = [sreq EXCEPT ![q] = e]
  BY DEF S!Reserve
<1>3. e \in S!Request /\ e.row = c /\ e.subject = None /\ e.at = "reserved"
  <2>1. sreq[q].subject = None
    BY <1>1 DEF S!Idle
  <2>2. QED
    BY <1>1, <2>1 DEF S!Request
<1>4. new \in S!Row /\ new.address = a /\ new.open = TRUE /\ new.attempts = 0
  <2>1. S!NoRow \in S!Row /\ S!NoRow.attempts = 0
    BY DEF S!NoRow, S!Row
  <2>2. QED
    BY <2>1 DEF S!Row
<1>5. \A d \in Challenges : challenge[d] \in S!Row
  BY DEF S!SignInInv, S!TypeOK
<1>6. \A d \in Challenges : [challenge[d] EXCEPT !.open = FALSE] \in S!Row
                            /\ [challenge[d] EXCEPT !.open = FALSE].address = challenge[d].address
                            /\ [challenge[d] EXCEPT !.open = FALSE].attempts = challenge[d].attempts
                            /\ ~[challenge[d] EXCEPT !.open = FALSE].open
  BY <1>5 DEF S!Row
<1>7. challenge' = [d \in Challenges |->
          IF d = c THEN new
          ELSE IF challenge[d].address = a THEN [challenge[d] EXCEPT !.open = FALSE]
          ELSE challenge[d]]
  BY DEF S!Reserve
<1> HIDE DEF e, new
<1>8. challenge' \in [Challenges -> S!Row]
  BY <1>4, <1>5, <1>6, <1>7
<1>9. \A d \in Challenges : d # c =>
          /\ challenge'[d].address = challenge[d].address
          /\ challenge'[d].attempts = challenge[d].attempts
          /\ challenge'[d].open => challenge[d].open /\ challenge[d].address # a
  BY <1>6, <1>7
<1>10. challenge'[c] = new /\ challenge[c].address = None /\ challenge[c].attempts = 0
  BY <1>1, <1>7 DEF S!NoRow
<1>11. sreq'[q] = e /\ \A p \in Requests : p # q => sreq'[p] = sreq[p]
  BY <1>2 DEF S!SignInInv, S!TypeOK
<1>12. newest'[a] = c /\ \A b \in Addresses : b # a => newest'[b] = newest[b]
  BY <1>2 DEF S!SignInInv, S!TypeOK
<1>13. S!TypeOK'
  BY <1>2, <1>3, <1>8 DEF S!SignInInv, S!TypeOK
<1>14. S!HandlersFit'
  BY <1>1, <1>2, <1>3, <1>4, <1>9, <1>10, <1>11 DEF S!SignInInv, S!HandlersFit
<1>15. S!OpenIsNewest' /\ S!CountersAgree'
  BY <1>2, <1>4, <1>9, <1>10, <1>12 DEF S!SignInInv, S!OpenIsNewest, S!CountersAgree
<1>16. S!ProofsSpent' /\ S!ProofOnce'
  BY <1>2, <1>3, <1>9, <1>10, <1>11 DEF S!SignInInv, S!ProofsSpent, S!ProofOnce
<1>17. S!SessionOfSubject'
  BY <1>1, <1>2, <1>11 DEF S!SignInInv, S!SessionOfSubject
<1>18. QED
  BY <1>13, <1>14, <1>15, <1>16, <1>17 DEF S!SignInInv

\* mark_delivery touches its own row only, and never opens one.
LEMMA MarkDeliveryKeeps ==
    ASSUME S!SignInInv, NEW q \in Requests, S!MarkDelivery(q)
    PROVE  S!SignInInv'
<1> USE AccountsAssumption
<1> DEFINE e == [S!Idle EXCEPT !.at = "done"]
           c == sreq[q].row
<1>1. sreq[q].at \in {"accepted", "failed"} /\ c \in Challenges /\ session[q] = None
  BY NoSessionYet DEF S!MarkDelivery, S!SignInInv, S!HandlersFit
<1>2. challenge' = [challenge EXCEPT ![c] = [challenge[c] EXCEPT !.delivered = TRUE]]
      \/ challenge' = [challenge EXCEPT ![c] = [challenge[c] EXCEPT !.open = FALSE]]
  BY DEF S!MarkDelivery
<1>3. /\ UNCHANGED <<cooling, hits, flow, binding, taken, sactive, session, guesses, newest, sent>>
      /\ sreq' = [sreq EXCEPT ![q] = e]
  BY DEF S!MarkDelivery, S!Done
<1>4. e \in S!Request /\ e.row = None /\ e.subject = None /\ e.at = "done"
  <2>1. S!Idle \in S!Request /\ S!Idle.row = None /\ S!Idle.subject = None
    BY DEF S!Idle, S!Request
  <2>2. QED
    BY <2>1 DEF S!Request
<1>5. challenge[c] \in S!Row
  BY <1>1 DEF S!SignInInv, S!TypeOK
<1>6. /\ [challenge[c] EXCEPT !.delivered = TRUE] \in S!Row
      /\ [challenge[c] EXCEPT !.open = FALSE] \in S!Row
      /\ [challenge[c] EXCEPT !.delivered = TRUE].address = challenge[c].address
      /\ [challenge[c] EXCEPT !.open = FALSE].address = challenge[c].address
      /\ [challenge[c] EXCEPT !.delivered = TRUE].attempts = challenge[c].attempts
      /\ [challenge[c] EXCEPT !.open = FALSE].attempts = challenge[c].attempts
      /\ [challenge[c] EXCEPT !.delivered = TRUE].open = challenge[c].open
      /\ ~[challenge[c] EXCEPT !.open = FALSE].open
  BY <1>5 DEF S!Row
<1> HIDE DEF e
<1>7. challenge' \in [Challenges -> S!Row]
  BY <1>1, <1>2, <1>6 DEF S!SignInInv, S!TypeOK
<1>8. \A d \in Challenges : /\ challenge'[d].address = challenge[d].address
                            /\ challenge'[d].attempts = challenge[d].attempts
                            /\ challenge'[d].open => challenge[d].open
  BY <1>1, <1>2, <1>6 DEF S!SignInInv, S!TypeOK
<1>9. sreq'[q] = e /\ \A p \in Requests : p # q => sreq'[p] = sreq[p]
  BY <1>3 DEF S!SignInInv, S!TypeOK
<1>10. S!TypeOK'
  BY <1>3, <1>4, <1>7 DEF S!SignInInv, S!TypeOK
<1>11. S!HandlersFit'
  BY <1>1, <1>3, <1>4, <1>8, <1>9 DEF S!SignInInv, S!HandlersFit
<1>12. S!OpenIsNewest' /\ S!CountersAgree'
  BY <1>3, <1>8 DEF S!SignInInv, S!OpenIsNewest, S!CountersAgree
<1>13. S!ProofsSpent' /\ S!ProofOnce'
  BY <1>3, <1>4, <1>8, <1>9 DEF S!SignInInv, S!ProofsSpent, S!ProofOnce
<1>14. S!SessionOfSubject'
  BY <1>1, <1>3, <1>9 DEF S!SignInInv, S!SessionOfSubject
<1>15. QED
  BY <1>10, <1>11, <1>12, <1>13, <1>14 DEF S!SignInInv

\* A comparison is counted first; a right code closes its row, so that no other request
\* has spent it or ever will.
LEMMA VerifyKeeps ==
    ASSUME S!SignInInv, NEW q \in Requests, NEW c \in Challenges, NEW right \in BOOLEAN,
           S!Verify(q, c, right)
    PROVE  S!SignInInv'
<1> USE AccountsAssumption
<1> DEFINE a == challenge[c].address
           row == [challenge[c] EXCEPT !.attempts = challenge[c].attempts + 1, !.open = ~right]
           e == IF right THEN [sreq[q] EXCEPT !.at = "proved", !.row = c, !.subject = a]
                         ELSE [sreq[q] EXCEPT !.at = "done"]
<1>1. /\ sreq[q].at = "idle" /\ sreq[q] = S!Idle /\ sreq[q] \in S!Request /\ session[q] = None
      /\ challenge[c].open /\ challenge[c].attempts < MaxAttempts
  BY NoSessionYet DEF S!Verify, S!Usable, S!SignInInv, S!HandlersFit
<1>2. challenge[c] \in S!Row /\ a \in Addresses
  BY <1>1 DEF S!SignInInv, S!TypeOK, S!OpenIsNewest
<1>3. /\ row \in S!Row /\ row.address = a /\ row.attempts = challenge[c].attempts + 1
      /\ row.open = ~right
  <2>1. challenge[c].attempts + 1 \in 0 .. MaxAttempts
    BY <1>1, <1>2 DEF S!Row
  <2>2. (~right) \in BOOLEAN
    BY Zenon
  <2> DEFINE n == challenge[c].attempts + 1
             w == ~right
  <2> HIDE DEF n, w
  <2>3. /\ [challenge[c] EXCEPT !.attempts = n, !.open = w] \in S!Row
        /\ [challenge[c] EXCEPT !.attempts = n, !.open = w].address = a
        /\ [challenge[c] EXCEPT !.attempts = n, !.open = w].attempts = n
        /\ [challenge[c] EXCEPT !.attempts = n, !.open = w].open = w
    <3>1. n \in 0 .. MaxAttempts /\ w \in BOOLEAN
      BY <2>1, <2>2 DEF n, w
    <3>2. QED
      BY <1>2, <3>1 DEF S!Row
  <2>4. QED
    BY <2>3, Zenon DEF n, w
<1>4. challenge' = [challenge EXCEPT ![c] = row]
  <2>1. challenge \in [Challenges -> S!Row]
    BY DEF S!SignInInv, S!TypeOK
  <2>2. QED
    BY <1>1, <2>1 DEF S!Verify, S!Row
<1>5. /\ UNCHANGED <<cooling, hits, flow, binding, taken, sactive, session, newest, sent>>
      /\ guesses' = [guesses EXCEPT ![c] = @ + 1]
      /\ sreq' = [sreq EXCEPT ![q] = e]
  BY DEF S!Verify
<1>6. e \in S!Request
  BY <1>1, <1>2 DEF S!Request, S!Subjects
<1>7. right => e.at = "proved" /\ e.row = c /\ e.subject = a
  BY <1>1 DEF S!Request
<1>8. ~right => e.at = "done" /\ e.row = None /\ e.subject = None
  <2>1. sreq[q].row = None /\ sreq[q].subject = None
    BY <1>1 DEF S!Idle
  <2>2. QED
    BY <1>1, <2>1 DEF S!Request
<1> HIDE DEF e, row
<1>9. challenge'[c] = row /\ \A d \in Challenges : d # c => challenge'[d] = challenge[d]
  BY <1>4 DEF S!SignInInv, S!TypeOK
<1>10. sreq'[q] = e /\ \A p \in Requests : p # q => sreq'[p] = sreq[p]
  BY <1>5 DEF S!SignInInv, S!TypeOK
<1>11. \A p \in Requests : sreq[p].subject # None /\ sreq[p].row # None => sreq[p].row # c
  <2> SUFFICES ASSUME NEW p \in Requests, sreq[p].subject # None, sreq[p].row # None, sreq[p].row = c
               PROVE  FALSE
    OBVIOUS
  <2>1. c \in Flows
    BY <1>1 DEF S!SignInInv, S!ProofsSpent
  <2>2. QED
    BY <2>1
<1>12. S!TypeOK'
  BY <1>3, <1>4, <1>5, <1>6 DEF S!SignInInv, S!TypeOK
<1>13. S!HandlersFit'
  <2>1. a \in S!Subjects
    BY <1>2 DEF S!Subjects
  <2>2. \A d \in Challenges : challenge'[d].address = challenge[d].address
    BY <1>3, <1>9
  <2>3. sreq'[q].at \in {"proved", "done"} /\ (sreq'[q].at = "proved" => sreq'[q].subject \in S!Subjects)
    BY <1>7, <1>8, <1>10, <2>1
  <2>4. QED
    BY <1>1, <1>5, <1>10, <2>2, <2>3 DEF S!SignInInv, S!HandlersFit
<1>14. S!OpenIsNewest'
  BY <1>1, <1>3, <1>5, <1>9 DEF S!SignInInv, S!OpenIsNewest
<1>15. S!CountersAgree'
  BY <1>1, <1>3, <1>5, <1>9 DEF S!SignInInv, S!CountersAgree, S!TypeOK
<1>16. S!ProofsSpent'
  <2> SUFFICES ASSUME NEW p \in Requests, sreq'[p].subject # None, sreq'[p].row # None
               PROVE  \/ /\ sreq'[p].row \in Challenges /\ ~challenge'[sreq'[p].row].open
                         /\ challenge'[sreq'[p].row].address \in Addresses
                      \/ sreq'[p].row \in Flows /\ flow'[sreq'[p].row] = "used"
    BY DEF S!ProofsSpent
  <2>1. CASE p = q
    <3>1. right /\ sreq'[p].row = c
      BY <1>7, <1>8, <1>10, <2>1
    <3>2. ~challenge'[c].open /\ challenge'[c].address \in Addresses
      BY <1>2, <1>3, <1>9, <3>1
    <3>3. QED
      BY <3>1, <3>2
  <2>2. CASE p # q
    <3>1. sreq'[p] = sreq[p] /\ sreq[p].row # c
      BY <1>10, <1>11, <2>2
    <3>2. QED
      BY <1>5, <1>9, <3>1 DEF S!SignInInv, S!ProofsSpent
  <2>3. QED
    BY <2>1, <2>2
<1>17. S!ProofOnce'
  BY <1>7, <1>8, <1>10, <1>11 DEF S!SignInInv, S!ProofOnce
<1>18. S!SessionOfSubject'
  BY <1>1, <1>5, <1>10 DEF S!SignInInv, S!SessionOfSubject
<1>19. QED
  BY <1>12, <1>13, <1>14, <1>15, <1>16, <1>17, <1>18 DEF S!SignInInv

\* A callback consumes its flow before it proves anything.
LEMMA CallbackKeeps ==
    ASSUME S!SignInInv, NEW q \in Requests, NEW f \in Flows,
           NEW s \in Social \cup Enterprise \cup {None}, S!Callback(q, f, s)
    PROVE  S!SignInInv'
<1> USE AccountsAssumption
<1> DEFINE at == IF s = None THEN "done" ELSE "proved"
           e == [sreq[q] EXCEPT !.at = at, !.row = f, !.subject = s]
<1>1. /\ sreq[q].at = "idle" /\ sreq[q] \in S!Request /\ session[q] = None
      /\ flow[f] = "open" /\ flow' = [flow EXCEPT ![f] = "used"]
  BY NoSessionYet DEF S!Callback
<1>2. /\ UNCHANGED <<challenge, cooling, hits, binding, taken, sactive, session, guesses, newest, sent>>
      /\ sreq' = [sreq EXCEPT ![q] = e]
  BY DEF S!Callback
<1>3. e \in S!Request /\ e.row = f /\ e.subject = s /\ e.at = at
  BY <1>1 DEF S!Request, S!Subjects
<1> HIDE DEF e
<1>4. sreq'[q] = e /\ \A p \in Requests : p # q => sreq'[p] = sreq[p]
  BY <1>2 DEF S!SignInInv, S!TypeOK
<1>5. flow'[f] = "used" /\ \A g \in Flows : flow[g] = "used" => flow'[g] = "used"
  BY <1>1 DEF S!SignInInv, S!TypeOK
<1>6. \A p \in Requests : sreq[p].subject # None => sreq[p].row # f \/ sreq[p].row = None
  BY <1>1 DEF S!SignInInv, S!ProofsSpent
<1>7. S!TypeOK'
  BY <1>1, <1>2, <1>3 DEF S!SignInInv, S!TypeOK
<1>8. S!HandlersFit'
  <2>1. sreq'[q].at \in {"proved", "done"} /\ (sreq'[q].at = "proved" => sreq'[q].subject \in S!Subjects)
    BY <1>3, <1>4 DEF S!Subjects
  <2>2. QED
    BY <1>1, <1>2, <1>4, <2>1 DEF S!SignInInv, S!HandlersFit
<1>9. S!OpenIsNewest' /\ S!CountersAgree'
  BY <1>2 DEF S!SignInInv, S!OpenIsNewest, S!CountersAgree
<1>10. S!ProofsSpent'
  BY <1>2, <1>3, <1>4, <1>5 DEF S!SignInInv, S!ProofsSpent
<1>11. S!ProofOnce'
  BY <1>3, <1>4, <1>6 DEF S!SignInInv, S!ProofOnce
<1>12. S!SessionOfSubject'
  BY <1>1, <1>2, <1>4 DEF S!SignInInv, S!SessionOfSubject
<1>13. QED
  BY <1>7, <1>8, <1>9, <1>10, <1>11, <1>12 DEF S!SignInInv

LEMMA DirectoryLoginKeeps ==
    ASSUME S!SignInInv, NEW q \in Requests, NEW s \in Enterprise, S!DirectoryLogin(q, s)
    PROVE  S!SignInInv'
<1> DEFINE e == [sreq[q] EXCEPT !.at = "proved", !.subject = s]
<1>1. sreq[q].at = "idle" /\ sreq[q] = S!Idle /\ sreq[q] \in S!Request /\ session[q] = None
  BY NoSessionYet DEF S!DirectoryLogin, S!SignInInv, S!HandlersFit
<1>2. /\ UNCHANGED <<challenge, cooling, hits, flow, binding, taken, sactive, session, guesses, newest, sent>>
      /\ sreq' = [sreq EXCEPT ![q] = e]
  BY DEF S!DirectoryLogin
<1>3. e \in S!Request /\ e.row = None /\ e.subject \in S!Subjects /\ e.at = "proved"
  <2>1. sreq[q].row = None /\ s \in S!Subjects
    BY <1>1 DEF S!Idle, S!Subjects
  <2>2. QED
    BY <1>1, <2>1 DEF S!Request
<1> HIDE DEF e
<1>4. Fits(e)
  BY <1>3 DEF Fits
<1>5. QED
  BY <1>1, <1>2, <1>3, <1>4, HandlerMoves DEF S!SignInInv, S!TypeOK, S!CountersAgree

-----------------------------------------------------------------------------

LEMMA SignInStep == S!SignInInv /\ [S!Next]_(S!vars) => S!SignInInv'
<1> SUFFICES ASSUME S!SignInInv, [S!Next]_(S!vars) PROVE S!SignInInv'
  OBVIOUS
<1>1. ASSUME NEW q \in Requests,
             \/ \E c \in Challenges, a \in Addresses : S!Reserve(q, c, a)
             \/ S!Count(q) \/ S!MarkDelivery(q) \/ \E b \in BOOLEAN : S!Send(q, b)
      PROVE  S!SignInInv'
  BY <1>1, ReserveKeeps, CountKeeps, MarkDeliveryKeeps, SendKeeps
<1>2. ASSUME NEW q \in Requests,
             \/ \E c \in Challenges, b \in BOOLEAN : S!Verify(q, c, b)
             \/ \E f \in Flows, s \in Social \cup Enterprise \cup {None} : S!Callback(q, f, s)
             \/ \E s \in Enterprise : S!DirectoryLogin(q, s)
      PROVE  S!SignInInv'
  BY <1>2, VerifyKeeps, CallbackKeeps, DirectoryLoginKeeps
<1>3. ASSUME NEW q \in Requests,
             \/ S!Lookup(q) \/ S!SignUpLost(q) \/ S!Complete(q)
             \/ \E u \in Accounts : S!SignUp(q, u)
      PROVE  S!SignInInv'
  BY <1>3, LookupKeeps, CompleteKeeps, SignUpKeeps
<1>4. QED
  BY <1>1, <1>2, <1>3, TimePasses DEF S!Next

\* The composition takes steps of SignIn or leaves its variables alone.
LEMMA SignInComposed == Spec => S!Spec
<1>1. Init => S!Init
  BY DEF Init
<1>2. [Next]_vars => [S!Next]_(S!vars)
  BY DEF Next, vars, svars, S!vars
<1>3. QED
  BY <1>1, <1>2, PTL DEF Spec, S!Spec

LEMMA SignInInvariance == Spec => [](S!SignInInv)
  BY SignInComposed, SignInStart, SignInStep, PTL DEF S!Spec

\* A proof of identity leads once to the account of its subject, a code is compared at
\* most MaxAttempts times and no more than SendLimit are sent in a window, for any number
\* of overlapping requests (challenges.py, social_auth_service.complete, consume_limit).
THEOREM ProofsAreSafe == Spec => []ProofsHold
<1>1. S!SignInInv => S!ProofsHold
  BY DEF S!SignInInv, S!ProofsHold, S!CountersAgree, S!GuessesBounded, S!SendsBounded, S!TypeOK, S!Row
<1>2. QED
  BY <1>1, SignInInvariance, PTL DEF ProofsHold

\* A code proves its address only while it is the newest one sent there, and the account
\* a subject is bound to is never replaced (challenges.reserve, identity_bindings).
THEOREM SignInStepsAreSafe == Spec => SignInSteps
<1> USE AccountsAssumption
<1> DEFINE Newest == \A q \in Requests, a \in Addresses :
               sreq[q].at = "idle" /\ sreq'[q].at = "proved" /\ sreq'[q].subject = a
               => sreq'[q].row = newest[a]
           Stays == \A s \in S!Subjects : binding[s] # None => binding'[s] = binding[s]
<1>1. S!SignInInv /\ [S!Next]_(S!vars) => [Newest]_(S!vars)
  <2> SUFFICES ASSUME S!SignInInv, S!Next, NEW q \in Requests, NEW a \in Addresses,
                      sreq[q].at = "idle", sreq'[q].at = "proved", sreq'[q].subject = a
               PROVE  sreq'[q].row = newest[a]
    OBVIOUS
  <2>1. PICK c \in Challenges, b \in BOOLEAN : S!Verify(q, c, b)
    <3>1. sreq \in [Requests -> S!Request]
      BY DEF S!SignInInv, S!TypeOK
    <3>2. ASSUME NEW f \in Flows, NEW s \in Social \cup Enterprise \cup {None}, S!Callback(q, f, s)
          PROVE  FALSE
      BY <3>1, <3>2 DEF S!Callback, S!Request
    <3>3. ASSUME NEW s \in Enterprise, S!DirectoryLogin(q, s) PROVE FALSE
      BY <3>1, <3>3 DEF S!DirectoryLogin, S!Request
    <3>4. ASSUME NEW p \in Requests,
                 \/ \E c \in Challenges, b \in Addresses : S!Reserve(p, c, b)
                 \/ S!Count(p) \/ S!MarkDelivery(p) \/ \E b \in BOOLEAN : S!Send(p, b)
          PROVE  FALSE
      <4>1. CASE p # q
        BY <3>1, <3>4, <4>1 DEF S!Reserve, S!Count, S!MarkDelivery, S!Send, S!Goto, S!Done
      <4>2. CASE p = q
        <5>1. PICK c \in Challenges, b \in Addresses : S!Reserve(q, c, b)
          BY <3>4, <4>2 DEF S!Count, S!MarkDelivery, S!Send
        <5>2. /\ sreq[q] \in S!Request
              /\ sreq'[q] = [sreq[q] EXCEPT !.at = "reserved", !.row = c]
          BY <3>1, <5>1 DEF S!Reserve
        <5>3. QED
          BY <5>2 DEF S!Request
      <4>3. QED
        BY <4>1, <4>2
    <3>5. ASSUME NEW p \in Requests,
                 \/ S!Lookup(p) \/ S!SignUpLost(p) \/ S!Complete(p)
                 \/ \E u \in Accounts : S!SignUp(p, u)
          PROVE  FALSE
      <4>1. CASE p # q
        BY <3>1, <3>5, <4>1 DEF S!Lookup, S!SignUpLost, S!Complete, S!SignUp, S!Goto
      <4>2. CASE p = q
        BY <3>5, <4>2 DEF S!Lookup, S!SignUpLost, S!Complete, S!SignUp
      <4>3. QED
        BY <4>1, <4>2
    <3>6. ASSUME NEW p \in Requests, p # q,
                 \/ \E c \in Challenges, b \in BOOLEAN : S!Verify(p, c, b)
                 \/ \E f \in Flows, s \in Social \cup Enterprise \cup {None} : S!Callback(p, f, s)
                 \/ \E s \in Enterprise : S!DirectoryLogin(p, s)
          PROVE  FALSE
      BY <3>1, <3>6 DEF S!Verify, S!Callback, S!DirectoryLogin
    <3>7. sreq' # sreq
      OBVIOUS
    <3>8. ~ \/ \E b \in Addresses : S!CooldownEnds(b) \/ S!WindowEnds(b)
            \/ \E f \in Flows : S!FlowStart(f) \/ S!FlowExpires(f)
            \/ \E c \in Challenges : S!CodeExpires(c)
            \/ \E s \in S!Subjects : S!TakeName(s)
            \/ \E u \in Accounts : S!Deactivate(u)
      BY <3>7 DEF S!CooldownEnds, S!WindowEnds, S!FlowStart, S!FlowExpires, S!CodeExpires,
         S!TakeName, S!Deactivate
    <3>9. QED
      BY <3>2, <3>3, <3>4, <3>5, <3>6, <3>8 DEF S!Next
  <2>2. sreq'[q].row = c /\ sreq'[q].subject = challenge[c].address /\ challenge[c].open
    BY <2>1 DEF S!Verify, S!Usable, S!SignInInv, S!TypeOK, S!Request
  <2>3. QED
    BY <2>2 DEF S!SignInInv, S!OpenIsNewest
<1>2. S!SignInInv /\ [S!Next]_(S!vars) => [Stays]_(S!vars)
  BY DEF S!SignInInv, S!TypeOK, S!Next, S!Reserve, S!Count, S!MarkDelivery, S!Lookup, S!SignUpLost,
     S!Complete, S!Send, S!Callback, S!DirectoryLogin, S!SignUp, S!CooldownEnds, S!WindowEnds,
     S!FlowStart, S!FlowExpires, S!CodeExpires, S!TakeName, S!Deactivate, S!Verify
<1>3. QED
  BY <1>1, <1>2, SignInComposed, SignInInvariance, PTL
  DEF SignInSteps, S!SignInSteps, S!NewestCodeOnly, S!BindingStays, S!Spec

-----------------------------------------------------------------------------
(* What a provider or a directory vouches for: Federated.                   *)

\* verify_id_token: what is accepted is the provider's, under its own key, and for this client
\* and this attempt; a token for several parties names this one as the authorised one.
LEMMA VerifiedIsOurs ==
    ASSUME NEW t \in IdTokens, NEW keys, NEW doc \in F!Documents, F!VerifyIdToken(t, keys, doc)
    PROVE  /\ doc = [issuer |-> F!Provider, https |-> TRUE]
           /\ \E i \in DOMAIN keys : keys[i].id = t.signer /\ keys[i].kid = t.kid /\ keys[i].use # "enc"
           /\ t.iss = F!Provider /\ t.nonce = F!Nonce /\ t.sub # ""
           /\ t.aud = {F!Client} \/ (F!Client \in t.aud /\ t.azp = F!Client)
           /\ t.azp \in {"absent", F!Client}
           /\ Now < t.exp + Skew /\ t.iat <= Now + Skew
<1> USE AccountsAssumption, FederatedAssumption
<1>1. doc = [issuer |-> F!Provider, https |-> TRUE]
  BY DEF F!VerifyIdToken, F!DocumentAccepted, F!Documents
<1>2. PICK key \in F!SigningKeys(t, keys) : F!Decoded(t, key)
  BY DEF F!VerifyIdToken
<1>3. \E i \in DOMAIN keys : keys[i].id = t.signer /\ keys[i].kid = t.kid /\ keys[i].use # "enc"
  BY <1>2 DEF F!SigningKeys, F!Decoded
<1>4. Now < t.exp + Skew /\ t.iat <= Now + Skew
  BY <1>2 DEF F!Decoded
<1>5. /\ t.iss = F!Provider /\ t.nonce = F!Nonce /\ t.sub # "" /\ F!Client \in t.aud
      /\ F!Cardinality(t.aud) > 1 \/ t.azp # "absent" => t.azp = F!Client
  BY DEF F!VerifyIdToken, F!ValidateClaims
<1>6. t.aud # {F!Client} => F!Cardinality(t.aud) > 1
  <2> SUFFICES ASSUME t.aud # {F!Client} PROVE F!Cardinality(t.aud) > 1
    OBVIOUS
  <2>1. IsFiniteSet(t.aud) /\ F!Cardinality(t.aud) = Cardinality(t.aud)
    BY DEF F!Cardinality, Cardinality, F!IsFiniteSet, IsFiniteSet
  <2>2. Cardinality(t.aud) \in Nat /\ Cardinality(t.aud) # 0
    BY <1>5, <2>1, FS_CardinalityType, FS_EmptySet
  <2>3. ASSUME NEW Z, IsFiniteSet(Z), Cardinality(Z) = 1, F!Client \in Z
        PROVE  Z = {F!Client}
    <3>1. PICK x : Z = {x}
      BY <2>3, FS_Singleton
    <3>2. QED
      BY <2>3, <3>1
  <2>4. Cardinality(t.aud) # 1
    BY <1>5, <2>1, <2>3, Zenon
  <2>5. QED
    BY <2>1, <2>2, <2>4
<1>7. QED
  BY <1>1, <1>3, <1>4, <1>5, <1>6

\* A bind proves the password of the entry that was named, and RoleFromAttributes takes an
\* administrative role only from the directory.
LEMMA BoundIsProved ==
    ASSUME NEW s \in DirectorySettings, NEW l \in Logins, F!Authenticate(s, l) = "bound"
    PROVE  /\ l.password = l.correct /\ l.name.kind = "plain" /\ s.scheme = "ldaps"
           /\ F!RoleFromAttributes(s, l) \in {"OWNER", "ADMIN"} => l.claims = F!RoleFromAttributes(s, l)
<1>1. F!SettingsAccepted(s) /\ l.password # "" /\ F!BindDn(l.name) # "refused" /\ F!DirectoryBinds(l)
  BY DEF F!Authenticate
<1>2. QED
  BY <1>1 DEF F!SettingsAccepted, F!BindDn, F!DirectoryBinds, F!RoleFromAttributes, F!DefaultRoles, F!ROLES

\* What a customer's provider or directory is taken to have vouched for was proved to this
\* system (oidc.verify_id_token, directory.authenticate, role_from_attributes).
THEOREM AcceptedIsSafe == Spec => []AcceptedIsProved
<1> DEFINE Judged ==
      /\ \/ input.kind = "oidc" /\ input.token \in IdTokens /\ input.doc \in F!Documents
            /\ result \in {"pending", "refused", "accepted"}
         \/ input.kind = "directory" /\ input.settings \in DirectorySettings /\ input.login \in Logins
            /\ result # "accepted"
      /\ result = "accepted" => F!VerifyIdToken(input.token, input.keys, input.doc)
      /\ input.kind = "directory" /\ result \in F!ROLES =>
            /\ F!Authenticate(input.settings, input.login) = "bound"
            /\ result = F!RoleFromAttributes(input.settings, input.login)
<1>1. Init => Judged
  BY DEF Init, F!Init, F!ROLES
<1>2. Judged /\ [Next]_vars => Judged'
  <2> SUFFICES ASSUME Judged, [Next]_vars PROVE Judged'
    OBVIOUS
  <2>1. CASE F!SignInWithToken
    BY <2>1 DEF F!SignInWithToken, F!ROLES
  <2>2. CASE F!SignInWithDirectory
    <3>1. F!RoleFromAttributes(input.settings, input.login) # "accepted"
      BY DEF F!RoleFromAttributes, F!ROLES
    <3>2. QED
      BY <2>2, <3>1 DEF F!SignInWithDirectory, F!ROLES
  <2>3. CASE UNCHANGED <<input, result>>
    BY <2>3
  <2>4. QED
    BY <2>1, <2>2, <2>3 DEF Next, vars, fvars, F!Next
<1>3. Judged => AcceptedIsProved
  <2> SUFFICES ASSUME Judged PROVE F!TokenIsOurs /\ F!DirectoryProves
    BY DEF AcceptedIsProved, F!AcceptedIsProved
  <2>1. F!TokenIsOurs
    BY VerifiedIsOurs DEF F!TokenIsOurs
  <2>2. F!DirectoryProves
    BY BoundIsProved DEF F!DirectoryProves, F!ROLES
  <2>3. QED
    BY <2>1, <2>2
<1>4. QED
  BY <1>1, <1>2, <1>3, PTL DEF Spec

=============================================================================
