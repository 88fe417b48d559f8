--------------------------- MODULE PlatformProofs ---------------------------
(* What the platform counts, chains and keeps beside the jobs: the rate       *)
(* limiter, the audit chain, accuracy feedback, the first connections to a    *)
(* database, the HTTP shell, the workbench and backups, for any sizes and     *)
(* numbers of callers: the components as MCPlatform composes them.            *)
EXTENDS MCPlatform, Sequences, FiniteSetTheorems, NaturalsInduction, WellFoundedInduction, TLAPS

LEMMA SameSize ==
    \A Z : L!Cardinality(Z) = Cardinality(Z) /\ (L!IsFiniteSet(Z) <=> IsFiniteSet(Z))
  BY DEF L!Cardinality, Cardinality, L!IsFiniteSet, IsFiniteSet

-----------------------------------------------------------------------------
(* RateLimit.                                                               *)

\* A smaller set stays within a bound.
LEMMA NoMore ==
    ASSUME NEW Z, NEW T, IsFiniteSet(Z), T \subseteq Z
    PROVE  IsFiniteSet(T) /\ Cardinality(T) <= Cardinality(Z) /\ Cardinality(T) \in Nat
  BY FS_Subset, FS_CardinalityType

LEMMA AllowanceIsNat ==
    ASSUME L!TypeOK
    PROVE  L!Allowance \in Nat
<1>1. IsFiniteSet(Clients) /\ Clients # {}
  BY LimitAssumption, SameSize
<1>2. Cardinality(Clients) \in Nat /\ Cardinality(Clients) # 0
  BY <1>1, FS_CardinalityType, FS_EmptySet
<1>3. L!Cardinality(Clients) = Cardinality(Clients)
  BY SameSize
<1>4. QED
  BY <1>2, <1>3, LimitAssumption DEF L!Allowance, L!TypeOK

\* Admitted requests are finitely many rows.
LEMMA AdmittedIsTyped ==
    ASSUME L!TypeOK, L!TransactionsFit
    PROVE  L!Admitted \subseteq L!Row /\ IsFiniteSet(L!Admitted)
<1> DEFINE G == UNION {own[c] : c \in L!Passing}
           f == [h \in G |-> h.by]
<1>1. \A h \in G : h \in L!Row /\ h.by \in L!Passing /\ own[h.by] = {h}
  BY DEF L!TypeOK, L!TransactionsFit, L!Passing
<1>2. IsFiniteSet(L!Passing)
  BY LimitAssumption, SameSize, FS_Subset DEF L!Passing
<1>3. f \in Injection(G, L!Passing)
  BY <1>1 DEF Injection, IsInjective
<1>4. IsFiniteSet(G)
  BY <1>2, <1>3, FS_Injection
<1>5. IsFiniteSet(served)
  BY SameSize DEF L!TypeOK
<1>6. L!Admitted = served \cup G
  BY DEF L!Admitted
<1>7. IsFiniteSet(served \cup G)
  BY <1>4, <1>5, FS_Union
<1>8. QED
  BY <1>1, <1>6, <1>7 DEF L!TypeOK

\* Among finitely many rows the prompt ones are finitely many.
LEMMA PromptIsFinite ==
    ASSUME NEW Z, IsFiniteSet(Z), NEW t
    PROVE  IsFiniteSet(L!Prompt(Z, t)) /\ Cardinality(L!Prompt(Z, t)) \in Nat
  BY FS_Subset, FS_CardinalityType DEF L!Prompt

\* The heart of it: when a client's request of moment m is counted, those admitted promptly in a
\* window that reaches to now are counted rows or requests of clients whose row is still to come.
LEMMA Crowd ==
    ASSUME L!LimitInv, NEW t \in 1..now, now <= t + Window, NEW m \in Nat, m <= now
    PROVE  Cardinality(L!Prompt(L!Admitted, t)) <=
              Cardinality(L!Inside(hits, m)) + Cardinality({c \in Clients : L!Waiting(c)})
<1> DEFINE Z == L!Prompt(L!Admitted, t)
           busy == {c \in Clients : L!Waiting(c)}
           N == L!Inside(hits, m)
           A1 == {s \in Z : L!Pending(s)}
           B1 == Z \ A1
<1>1. L!Admitted \subseteq L!Row /\ IsFiniteSet(L!Admitted)
  BY AdmittedIsTyped DEF L!LimitInv
<1>2. Z \subseteq L!Admitted /\ IsFiniteSet(Z) /\ IsFiniteSet(A1) /\ IsFiniteSet(B1)
  BY <1>1, FS_Subset DEF L!Prompt
<1>3. IsFiniteSet(busy) /\ IsFiniteSet(N)
  BY LimitAssumption, SameSize, FS_Subset DEF L!LimitInv, L!TypeOK, L!Inside
<1>4. Cardinality(A1) <= Cardinality(busy)
  <2> DEFINE f == [s \in A1 |-> s.by]
  <2>1. \A s \in A1 : s \in L!Admitted /\ s.by \in busy /\ s.n = turn[s.by]
    BY <1>1, <1>2 DEF L!Pending, L!Row
  <2>2. \A r, s \in A1 : r.by = s.by => r = s
    BY <2>1 DEF L!LimitInv, L!OneByOne
  <2>3. f \in Injection(A1, busy)
    BY <2>1, <2>2 DEF Injection, IsInjective
  <2>4. QED
    BY <1>3, <2>3, FS_Injection
<1>5. Cardinality(B1) <= Cardinality(N)
  <2> DEFINE g == [s \in B1 |-> CHOOSE h \in hits : L!Covers(h, s)]
  <2>1. ASSUME NEW s \in B1 PROVE g[s] \in N /\ L!Covers(g[s], s) /\ s \in L!Admitted
    <3>1. s \in L!Admitted /\ s \in L!Row /\ s.at > t /\ ~L!Pending(s)
      BY <1>1, <1>2 DEF L!Prompt
    <3>2. now \in Nat /\ t \in Nat /\ s.at \in Nat /\ Window \in Nat
      BY <3>1, LimitAssumption DEF L!Row, L!LimitInv, L!TypeOK
    <3>3. L!Cutoff(now) \in Nat /\ L!Cutoff(m) \in Nat /\ s.at > L!Cutoff(now) /\ s.at > L!Cutoff(m)
      BY <3>1, <3>2 DEF L!Cutoff
    <3>4. \E h \in hits : L!Covers(h, s)
      BY <3>1, <3>3 DEF L!LimitInv, L!AdmittedFit
    <3>5. g[s] \in hits /\ L!Covers(g[s], s)
      BY <3>4
    <3>6. g[s].at \in Nat /\ g[s].at >= s.at
      BY <3>5 DEF L!LimitInv, L!TypeOK, L!Row, L!Covers
    <3>7. g[s].at > L!Cutoff(m)
      BY <3>2, <3>3, <3>6
    <3>8. QED
      BY <3>1, <3>5, <3>7 DEF L!Inside
  <2>2. \A r, s \in B1 : g[r] = g[s] => r = s
    BY <2>1 DEF L!Covers, L!LimitInv, L!OneByOne
  <2>3. g \in Injection(B1, N)
    BY <2>1, <2>2 DEF Injection, IsInjective
  <2>4. QED
    BY <1>3, <2>3, FS_Injection
<1>6. Cardinality(Z) = Cardinality(A1) + Cardinality(B1)
  <2>1. A1 \cap B1 = {} /\ Z = A1 \cup B1
    OBVIOUS
  <2>2. Cardinality(A1 \cap B1) = 0
    BY <2>1, FS_EmptySet
  <2>3. Cardinality(A1 \cup B1) = Cardinality(A1) + Cardinality(B1) - Cardinality(A1 \cap B1)
    BY <1>2, FS_Union
  <2>4. Cardinality(A1) \in Nat /\ Cardinality(B1) \in Nat
    BY <1>2, FS_CardinalityType
  <2> HIDE DEF Z, A1, B1
  <2>5. QED
    BY <2>1, <2>2, <2>3, <2>4
<1>7. /\ Cardinality(A1) \in Nat /\ Cardinality(B1) \in Nat
      /\ Cardinality(busy) \in Nat /\ Cardinality(N) \in Nat
  BY <1>2, <1>3, FS_CardinalityType
<1> HIDE DEF Z, A1, B1, busy, N
<1>8. Cardinality(Z) <= Cardinality(N) + Cardinality(busy)
  BY <1>4, <1>5, <1>6, <1>7
<1>9. QED
  BY <1>8 DEF Z, busy, N

\* Nobody new is admitted.
LEMMA NobodyNew ==
    ASSUME L!LimitInv, now' = now, UNCHANGED <<lserial, use>>, L!Admitted' \subseteq L!Admitted
    PROVE  L!RoomHeld'
<1>1. L!Allowance' = L!Allowance /\ L!Allowance \in Nat
  BY AllowanceIsNat DEF L!Allowance, L!LimitInv
<1>2. SUFFICES ASSUME NEW t \in 1..now
               PROVE  L!Cardinality(L!Prompt(L!Admitted', t)) <= L!Allowance
  BY <1>1 DEF L!RoomHeld, L!Prompt
<1>3. L!Prompt(L!Admitted', t) \subseteq L!Prompt(L!Admitted, t)
  BY DEF L!Prompt
<1>4. IsFiniteSet(L!Prompt(L!Admitted, t))
  BY AdmittedIsTyped, PromptIsFinite DEF L!LimitInv
<1>5. /\ Cardinality(L!Prompt(L!Admitted', t)) <= Cardinality(L!Prompt(L!Admitted, t))
      /\ Cardinality(L!Prompt(L!Admitted', t)) \in Nat /\ Cardinality(L!Prompt(L!Admitted, t)) \in Nat
  BY <1>3, <1>4, NoMore, FS_CardinalityType
<1>6. Cardinality(L!Prompt(L!Admitted, t)) <= L!Allowance
  BY SameSize DEF L!LimitInv, L!RoomHeld
<1>7. L!Cardinality(L!Prompt(L!Admitted', t)) = Cardinality(L!Prompt(L!Admitted', t))
  BY SameSize
<1>8. QED
  BY <1>1, <1>5, <1>6, <1>7

\* One more is admitted where the rows its moment counts leave room for it.
LEMMA OneMore ==
    ASSUME L!LimitInv, NEW c \in Clients, ~L!Waiting(c), now' = now, UNCHANGED <<lserial, use>>,
           NEW h \in L!Row, h.on = now, h.at <= now, L!Admitted' \subseteq L!Admitted \cup {h},
           use = "guess" => Cardinality(L!Inside(hits, h.at)) < MaxHits,
           use = "consume" =>
               /\ Cardinality(L!Inside(hits, h.at)) + 1 < MaxHits
               /\ lserial => \A d \in Clients : lpc[d] # "recorded"
    PROVE  L!RoomHeld'
<1>1. L!Allowance' = L!Allowance /\ L!Allowance \in Nat
  BY AllowanceIsNat DEF L!Allowance, L!LimitInv
<1>2. SUFFICES ASSUME NEW t \in 1..now
               PROVE  L!Cardinality(L!Prompt(L!Admitted', t)) <= L!Allowance
  BY <1>1 DEF L!RoomHeld, L!Prompt
<1>3. now \in Nat /\ t \in Nat /\ Window \in Nat /\ h.at \in Nat
  BY LimitAssumption DEF L!LimitInv, L!TypeOK, L!Row
<1>4. IsFiniteSet(L!Prompt(L!Admitted, t))
  BY AdmittedIsTyped, PromptIsFinite DEF L!LimitInv
<1>5. /\ Cardinality(L!Prompt(L!Admitted, t)) \in Nat
      /\ Cardinality(L!Prompt(L!Admitted, t)) <= L!Allowance
  BY <1>4, FS_CardinalityType, SameSize DEF L!LimitInv, L!RoomHeld
<1>6. L!Cardinality(L!Prompt(L!Admitted', t)) = Cardinality(L!Prompt(L!Admitted', t))
  BY SameSize
<1>7. CASE now > t + Window
  <2>1. L!Prompt(L!Admitted', t) \subseteq L!Prompt(L!Admitted, t)
    BY <1>3, <1>7 DEF L!Prompt
  <2>2. /\ Cardinality(L!Prompt(L!Admitted', t)) <= Cardinality(L!Prompt(L!Admitted, t))
        /\ Cardinality(L!Prompt(L!Admitted', t)) \in Nat
    BY <1>4, <2>1, NoMore
  <2>3. QED
    BY <1>1, <1>5, <1>6, <2>2
<1>8. CASE now <= t + Window
  <2> DEFINE busy == {d \in Clients : L!Waiting(d)}
             N == L!Inside(hits, h.at)
             Z == L!Prompt(L!Admitted, t)
             T == Z \cup {h}
  <2>1. L!Prompt(L!Admitted', t) \subseteq T
    BY DEF L!Prompt
  <2>2. /\ IsFiniteSet(T) /\ Cardinality(T) <= Cardinality(Z) + 1
    <3>1. /\ IsFiniteSet(T)
          /\ Cardinality(T) = IF h \in Z THEN Cardinality(Z) ELSE Cardinality(Z) + 1
      BY <1>4, FS_AddElement
    <3>2. Cardinality(Z) \in Nat
      BY <1>5
    <3> HIDE DEF Z, T
    <3>3. QED
      BY <3>1, <3>2
  <2>3. /\ Cardinality(L!Prompt(L!Admitted', t)) <= Cardinality(T)
        /\ Cardinality(L!Prompt(L!Admitted', t)) \in Nat /\ Cardinality(T) \in Nat
    BY <2>1, <2>2, NoMore, FS_CardinalityType
  <2>4. Cardinality(Z) <= Cardinality(N) + Cardinality(busy)
    BY <1>3, <1>8, Crowd
  <2>5. IsFiniteSet(Clients) /\ IsFiniteSet(Clients \ {c}) /\ IsFiniteSet(N)
    BY LimitAssumption, SameSize, FS_Subset DEF L!LimitInv, L!TypeOK, L!Inside
  <2>6. /\ Cardinality(Clients) \in Nat /\ Cardinality(N) \in Nat
        /\ Cardinality(Clients \ {c}) = Cardinality(Clients) - 1
    BY <2>5, FS_CardinalityType, FS_RemoveElement
  <2>7. Cardinality(busy) <= Cardinality(Clients \ {c}) /\ Cardinality(busy) \in Nat
    <3>1. busy \subseteq Clients \ {c}
      OBVIOUS
    <3>2. QED
      BY <2>5, <3>1, NoMore
  <2>8. use = "consume" /\ lserial => Cardinality(busy) = 0
    <3>1. ASSUME use = "consume", lserial PROVE busy = {}
      BY <3>1 DEF L!Waiting
    <3>2. QED
      BY <3>1, FS_EmptySet
  <2>9. /\ use \in {"guess", "consume"} /\ lserial \in BOOLEAN
        /\ L!Cardinality(Clients) = Cardinality(Clients) /\ MaxHits \in Nat
    BY SameSize, LimitAssumption DEF L!LimitInv, L!TypeOK
  <2> HIDE DEF busy, N, Z, T
  <2>10. Cardinality(Z) + 1 <= L!Allowance
    <3>1. CASE use = "guess"
      BY <1>5, <2>4, <2>6, <2>7, <2>9, <3>1 DEF L!Allowance, N, Z
    <3>2. CASE use = "consume" /\ lserial
      BY <1>5, <2>4, <2>6, <2>8, <2>9, <3>2 DEF L!Allowance, N, Z
    <3>3. CASE use = "consume" /\ ~lserial
      BY <1>5, <2>4, <2>6, <2>7, <2>9, <3>3 DEF L!Allowance, N, Z
    <3>4. QED
      BY <2>9, <3>1, <3>2, <3>3
  <2>11. Cardinality(Z) \in Nat
    BY <1>5 DEF Z
  <2>12. QED
    BY <1>1, <1>6, <2>2, <2>3, <2>10, <2>11
<1>9. QED
  BY <1>3, <1>7, <1>8

LEMMA LimitStart == L!Init => L!LimitInv
<1> SUFFICES ASSUME L!Init PROVE L!LimitInv
  OBVIOUS
<1>1. L!TypeOK
  BY LimitAssumption, FS_EmptySet, SameSize DEF L!Init, L!TypeOK
<1>2. L!Admitted = {}
  BY DEF L!Init, L!Admitted, L!Passing
<1>3. L!TransactionsFit /\ L!RowsFit /\ L!AdmittedFit /\ L!OneByOne
  BY <1>2 DEF L!Init, L!TransactionsFit, L!RowsFit, L!AdmittedFit, L!OneByOne
<1>4. L!RoomHeld
  <2>1. ASSUME NEW t PROVE L!Cardinality(L!Prompt(L!Admitted, t)) = 0
    <3>1. L!Prompt(L!Admitted, t) = {}
      BY <1>2 DEF L!Prompt
    <3>2. QED
      BY <3>1, FS_EmptySet, SameSize
  <2>2. QED
    BY <1>1, <2>1, AllowanceIsNat DEF L!RoomHeld
<1>5. QED
  BY <1>1, <1>3, <1>4 DEF L!LimitInv

LEMMA TickKeeps ==
    ASSUME L!LimitInv, L!Tick
    PROVE  L!LimitInv'
<1>1. /\ now \in Nat /\ now' = now + 1
      /\ UNCHANGED <<lserial, use, hits, lpc, own, cut, count, served, turn>>
  BY DEF L!Tick, L!LimitInv, L!TypeOK
<1>2. /\ L!Admitted' = L!Admitted /\ L!Allowance' = L!Allowance /\ L!Allowance \in Nat
      /\ L!Admitted \subseteq L!Row
  BY <1>1, AllowanceIsNat, AdmittedIsTyped DEF L!Admitted, L!Passing, L!Allowance, L!LimitInv
<1>3. L!Cutoff(now') >= L!Cutoff(now) /\ L!Cutoff(now') \in Nat /\ L!Cutoff(now) \in Nat
  BY <1>1, LimitAssumption DEF L!Cutoff
<1>4. L!TypeOK'
  BY <1>1, LimitAssumption DEF L!LimitInv, L!TypeOK
<1>5. L!TransactionsFit'
  <2>1. ASSUME NEW c \in Clients, NEW h \in own[c], h.on <= now PROVE h.on <= now'
    BY <1>1, <2>1 DEF L!LimitInv, L!TypeOK, L!Row
  <2>2. QED
    BY <1>1, <2>1 DEF L!LimitInv, L!TransactionsFit, L!Cutoff
<1>6. L!RowsFit'
  BY <1>1 DEF L!LimitInv, L!TypeOK, L!RowsFit, L!Row
<1>7. L!AdmittedFit' /\ L!OneByOne'
  <2>1. \A s : L!Pending(s)' <=> L!Pending(s)
    BY <1>1 DEF L!Pending, L!Waiting
  <2>2. ASSUME NEW s \in L!Admitted
        PROVE  s.on <= now' /\ (s.at > L!Cutoff(now') => s.at > L!Cutoff(now))
    <3>1. s.at \in Nat /\ s.on \in Nat /\ s.on <= now
      BY <1>2 DEF L!Row, L!LimitInv, L!AdmittedFit
    <3>2. QED
      BY <1>1, <1>3, <3>1
  <2>3. QED
    BY <1>1, <1>2, <2>1, <2>2 DEF L!LimitInv, L!AdmittedFit, L!OneByOne
<1>8. L!RoomHeld'
  <2>1. SUFFICES ASSUME NEW t \in 1..(now + 1)
                 PROVE  L!Cardinality(L!Prompt(L!Admitted, t)) <= L!Allowance
    BY <1>1, <1>2 DEF L!RoomHeld, L!Prompt
  <2>2. CASE t \in 1..now
    BY <2>2 DEF L!LimitInv, L!RoomHeld
  <2>3. CASE t = now + 1
    <3>1. L!Prompt(L!Admitted, t) = {}
      BY <1>1, <1>2, <2>3 DEF L!Prompt, L!LimitInv, L!AdmittedFit, L!Row
    <3>2. QED
      BY <1>2, <3>1, FS_EmptySet, SameSize
  <2>4. QED
    BY <1>1, <2>2, <2>3
<1>9. QED
  BY <1>4, <1>5, <1>6, <1>7, <1>8 DEF L!LimitInv

\* cleanup_expired takes only rows older than any window.
LEMMA CleanupKeeps ==
    ASSUME L!LimitInv, L!CleanupExpired
    PROVE  L!LimitInv'
<1>1. /\ hits' = {h \in hits : h.at + CleanupAge >= now}
      /\ UNCHANGED <<lserial, now, use, lpc, own, cut, count, served, turn>> /\ now \in Nat
  BY DEF L!CleanupExpired, L!LimitInv, L!TypeOK
<1>2. L!Admitted' = L!Admitted /\ L!Admitted \subseteq L!Row
  BY <1>1, AdmittedIsTyped DEF L!Admitted, L!Passing, L!LimitInv
<1>3. L!TypeOK'
  <2>1. IsFiniteSet(hits) /\ hits' \subseteq hits
    BY <1>1, SameSize DEF L!LimitInv, L!TypeOK
  <2>2. L!IsFiniteSet(hits')
    BY <2>1, SameSize, FS_Subset
  <2>3. QED
    BY <1>1, <2>1, <2>2 DEF L!LimitInv, L!TypeOK
<1>4. L!TransactionsFit' /\ L!RowsFit'
  BY <1>1 DEF L!LimitInv, L!TransactionsFit, L!RowsFit, L!Cutoff
<1>5. L!AdmittedFit' /\ L!OneByOne'
  <2>1. ASSUME NEW s \in L!Admitted, s.at > L!Cutoff(now), NEW h \in hits, L!Covers(h, s)
        PROVE  h \in hits'
    <3>1. h.at \in Nat /\ s.at \in Nat /\ h.at >= s.at
      BY <1>2, <2>1 DEF L!Covers, L!LimitInv, L!TypeOK, L!Row
    <3>2. h.at + CleanupAge >= now
      BY <1>1, <2>1, <3>1, LimitAssumption DEF L!Cutoff
    <3>3. QED
      BY <1>1, <3>2
  <2>2. \A s : L!Pending(s)' <=> L!Pending(s)
    BY <1>1 DEF L!Pending, L!Waiting
  <2>3. L!Cutoff(now)' = L!Cutoff(now)
    BY <1>1
  <2>4. QED
    BY <1>1, <1>2, <2>1, <2>2, <2>3 DEF L!LimitInv, L!AdmittedFit, L!OneByOne
<1>6. L!RoomHeld'
  BY <1>1, <1>2, NobodyNew
<1>7. QED
  BY <1>3, <1>4, <1>5, <1>6 DEF L!LimitInv

\* A stamp: the row to come is of the client's present request, and of this moment.
LEMMA StampKeeps ==
    ASSUME L!LimitInv, NEW c \in Clients, NEW step, L!Stamp(c, step),
           \/ step = "stamped" /\ lpc[c] \in {"idle", "let", "trying"}
           \/ step = "looking" /\ use = "guess" /\ lpc[c] = "idle"
    PROVE  L!LimitInv'
<1>1. /\ own' = [own EXCEPT ![c] = {L!Hit(c)}] /\ lpc' = [lpc EXCEPT ![c] = step]
      /\ UNCHANGED <<lserial, now, use, hits, cut, count, served, turn>>
  BY DEF L!Stamp
<1>2. /\ L!Hit(c) \in L!Row /\ L!Hit(c).by = c /\ L!Hit(c).n = turn[c]
      /\ L!Hit(c).at = now /\ L!Hit(c).on = now /\ now \in Nat /\ now > Window
  BY DEF L!Hit, L!Row, L!LimitInv, L!TypeOK
<1>3. /\ own'[c] = {L!Hit(c)} /\ lpc'[c] = step /\ own[c] = {} /\ cut[c] = {}
      /\ \A d \in Clients : d # c => own'[d] = own[d] /\ lpc'[d] = lpc[d]
  BY <1>1 DEF L!LimitInv, L!TypeOK, L!TransactionsFit
<1>4. L!Admitted' = L!Admitted /\ L!Admitted \subseteq L!Row
  <2>1. L!Passing' = L!Passing /\ c \notin L!Passing
    BY <1>1, <1>3 DEF L!Passing
  <2>2. \A d \in L!Passing : own'[d] = own[d]
    BY <1>3, <2>1 DEF L!Passing
  <2>3. L!Admitted' = L!Admitted
    BY <1>1, <2>1, <2>2 DEF L!Admitted
  <2>4. QED
    BY <2>3, AdmittedIsTyped DEF L!LimitInv
<1>5. L!TypeOK'
  BY <1>1, <1>2 DEF L!LimitInv, L!TypeOK
<1>6. L!TransactionsFit' /\ L!RowsFit'
  <2>1. ASSUME NEW d \in Clients
        PROVE  /\ IF lpc'[d] \in {"stamped", "recorded", "looking"}
                  THEN \E h \in own'[d] : /\ own'[d] = {h} /\ h.by = d /\ h.n = turn'[d]
                                          /\ Window < h.at /\ h.at <= h.on /\ h.on <= now'
                                          /\ \A g \in cut'[d] : g.at <= L!Cutoff(h.at)
                  ELSE own'[d] = {}
               /\ lpc'[d] # "recorded" => cut'[d] = {}
               /\ use' = "consume" => lpc'[d] \notin {"looking", "trying"}
    <3>1. CASE d = c
      BY <1>1, <1>2, <1>3, <3>1
    <3>2. CASE d # c
      BY <1>1, <1>3, <3>2 DEF L!LimitInv, L!TransactionsFit
    <3>3. QED
      BY <3>1, <3>2
  <2>2. L!TransactionsFit'
    BY <2>1 DEF L!TransactionsFit, L!Cutoff
  <2>3. QED
    BY <1>1, <2>2 DEF L!LimitInv, L!RowsFit
<1>7. L!AdmittedFit' /\ L!OneByOne'
  <2>1. ASSUME NEW s \in L!Admitted
        PROVE  /\ s.on <= now' /\ s.at <= now' /\ (L!Pending(s) => L!Pending(s)')
               /\ \A h \in own'[s.by] : IF s.n < turn'[s.by] THEN s.on <= h.at ELSE s.at <= h.at
    <3>1. /\ s.by \in Clients /\ s.at \in Nat /\ s.on \in Nat /\ s.n \in Nat
          /\ s.at <= s.on /\ s.on <= now
      BY <1>4 DEF L!Row, L!LimitInv, L!AdmittedFit
    <3>2. CASE s.by = c
      <4>1. L!Pending(s) => L!Pending(s)'
        BY <1>1, <1>3, <3>2 DEF L!Pending, L!Waiting, L!LimitInv, L!TypeOK, L!TransactionsFit
      <4>2. QED
        BY <1>1, <1>2, <1>3, <3>1, <3>2, <4>1
    <3>3. CASE s.by # c
      BY <1>1, <1>2, <1>3, <3>1, <3>3 DEF L!Pending, L!Waiting, L!LimitInv, L!AdmittedFit
    <3>4. QED
      BY <3>2, <3>3
  <2>2. L!Cutoff(now') = L!Cutoff(now)
    BY <1>1
  <2>3. QED
    BY <1>1, <1>4, <2>1, <2>2 DEF L!LimitInv, L!AdmittedFit, L!OneByOne
<1>8. L!RoomHeld'
  BY <1>1, <1>4, NobodyNew
<1>9. QED
  BY <1>5, <1>6, <1>7, <1>8 DEF L!LimitInv

\* The recording transaction counts what is committed and its own row, and lets the request pass
\* if that leaves room.
LEMMA RecordKeeps ==
    ASSUME L!LimitInv, NEW c \in Clients, L!Record(c)
    PROVE  L!LimitInv'
<1>1. PICK h \in own[c] : /\ own[c] = {h} /\ h.by = c /\ h.n = turn[c]
                        /\ Window < h.at /\ h.at <= h.on /\ h.on <= now
  BY DEF L!Record, L!LimitInv, L!TransactionsFit
<1>0. PICK b \in {[h EXCEPT !.on = now]} : TRUE
  OBVIOUS
<1> DEFINE N == L!Inside(hits, h.at)
           k == L!Cardinality(L!Inside(hits \cup {h}, h.at))
<1>2. /\ lpc[c] = "stamped" /\ L!Free /\ own' = [own EXCEPT ![c] = {b}]
      /\ cut' = [cut EXCEPT ![c] = hits \ N] /\ count' = [count EXCEPT ![c] = k]
      /\ lpc' = [lpc EXCEPT ![c] = "recorded"] /\ UNCHANGED <<lserial, now, use, hits, served, turn>>
  BY <1>0, <1>1 DEF L!Record
<1>3. /\ h \in L!Row /\ b \in L!Row /\ b.by = c /\ b.n = turn[c] /\ b.at = h.at /\ b.on = now
      /\ h.at \in Nat /\ h.at <= now /\ now \in Nat /\ turn[c] \in Nat /\ b.at > Window
  BY <1>0, <1>1, LimitAssumption DEF L!LimitInv, L!TypeOK, L!Row
<1>4. IsFiniteSet(N) /\ N \subseteq hits
  BY SameSize, FS_Subset DEF L!LimitInv, L!TypeOK, L!Inside
<1>5. k = Cardinality(N) + 1 /\ Cardinality(N) \in Nat
  <2>1. L!Cutoff(h.at) < h.at
    BY <1>1, <1>3, LimitAssumption DEF L!Cutoff
  <2>2. L!Cutoff(h.at) \in Nat
    BY <1>3, LimitAssumption DEF L!Cutoff
  <2>3. L!Inside(hits \cup {h}, h.at) = N \cup {h}
    BY <1>3, <2>1, <2>2 DEF L!Inside
  <2>4. h \notin N
    BY <1>1, <1>3, <1>4 DEF L!LimitInv, L!RowsFit
  <2>5. QED
    BY <1>4, <2>3, <2>4, FS_AddElement, FS_CardinalityType, SameSize
<1> HIDE DEF N, k
<1>6. /\ own'[c] = {b} /\ lpc'[c] = "recorded" /\ cut'[c] = hits \ N /\ count'[c] = k
      /\ \A d \in Clients : d # c => /\ own'[d] = own[d] /\ lpc'[d] = lpc[d]
                                     /\ cut'[d] = cut[d] /\ count'[d] = count[d]
  BY <1>2 DEF L!LimitInv, L!TypeOK
<1>7. L!TypeOK'
  BY <1>2, <1>3, <1>5 DEF L!LimitInv, L!TypeOK
<1>8. L!TransactionsFit' /\ L!RowsFit'
  <2>1. ASSUME NEW d \in Clients
        PROVE  /\ IF lpc'[d] \in {"stamped", "recorded", "looking"}
                  THEN \E r \in own'[d] : /\ own'[d] = {r} /\ r.by = d /\ r.n = turn'[d]
                                          /\ Window < r.at /\ r.at <= r.on /\ r.on <= now'
                                          /\ \A g \in cut'[d] : g.at <= L!Cutoff(r.at)
                  ELSE own'[d] = {}
               /\ lpc'[d] # "recorded" => cut'[d] = {}
               /\ use' = "consume" => lpc'[d] \notin {"looking", "trying"}
    <3>1. CASE d = c
      <4>1. \A g \in hits \ N : g.at <= L!Cutoff(h.at)
        <5>1. \A g \in hits : g.at \in Nat
          BY DEF L!LimitInv, L!TypeOK, L!Row
        <5>2. L!Cutoff(h.at) \in Nat
          BY <1>3, LimitAssumption DEF L!Cutoff
        <5>3. QED
          BY <5>1, <5>2 DEF N, L!Inside
      <4>2. QED
        BY <1>2, <1>3, <1>6, <3>1, <4>1
    <3>2. CASE d # c
      BY <1>2, <1>6, <3>2 DEF L!LimitInv, L!TransactionsFit
    <3>3. QED
      BY <3>1, <3>2
  <2>2. L!TransactionsFit'
    BY <2>1 DEF L!TransactionsFit, L!Cutoff
  <2>3. QED
    BY <1>2, <2>2 DEF L!LimitInv, L!RowsFit
<1>9. /\ L!Admitted' \subseteq L!Admitted \cup {b} /\ L!Admitted \subseteq L!Row
      /\ ~(use = "consume" /\ k < MaxHits) => L!Admitted' \subseteq L!Admitted
  <2>1. L!Admitted \subseteq L!Row
    BY AdmittedIsTyped DEF L!LimitInv
  <2>2. /\ L!Passing' \subseteq L!Passing \cup {c}
        /\ ~(use = "consume" /\ k < MaxHits) => c \notin L!Passing'
        /\ c \notin L!Passing
    BY <1>2, <1>6 DEF L!Passing
  <2>3. QED
    BY <1>2, <1>6, <2>1, <2>2 DEF L!Admitted, L!Passing
<1>10. use = "consume" => \A s \in L!Admitted : s.by = c => s.n < turn[c] /\ s.on <= h.at
  BY <1>1, <1>2, <1>9 DEF L!LimitInv, L!AdmittedFit, L!Pending, L!Waiting
<1>11. L!AdmittedFit' /\ L!OneByOne'
  <2>1. L!Cutoff(now') = L!Cutoff(now)
    BY <1>2
  <2>2. ASSUME NEW s \in L!Admitted
        PROVE  /\ s.by \in Clients /\ s.n \in Nat /\ (L!Pending(s) => L!Pending(s)')
               /\ \A r \in own'[s.by] : IF s.n < turn'[s.by] THEN s.on <= r.at ELSE s.at <= r.at
    <3>1. s.by \in Clients /\ s.n \in Nat
      BY <1>9 DEF L!Row
    <3>2. L!Pending(s) => L!Pending(s)'
      BY <1>2, <1>6, <3>1 DEF L!Pending, L!Waiting
    <3>3. CASE s.by = c
      BY <1>1, <1>2, <1>3, <1>6, <3>1, <3>2, <3>3 DEF L!LimitInv, L!AdmittedFit
    <3>4. CASE s.by # c
      BY <1>2, <1>6, <3>1, <3>2, <3>4 DEF L!LimitInv, L!AdmittedFit
    <3>5. QED
      BY <3>1, <3>2, <3>3, <3>4
  <2>3. ASSUME b \in L!Admitted', b \notin L!Admitted
        PROVE  /\ use = "consume" /\ b.at <= b.on /\ b.on <= now' /\ L!Pending(b)'
               /\ \A r \in own'[b.by] : IF b.n < turn'[b.by] THEN b.on <= r.at ELSE b.at <= r.at
    <3>1. use = "consume"
      BY <1>9, <2>3
    <3>2. L!Pending(b)'
      BY <1>2, <1>3, <1>6, <3>1 DEF L!Pending, L!Waiting
    <3>3. QED
      BY <1>2, <1>3, <1>6, <3>1, <3>2
  <2>4. L!AdmittedFit'
    BY <1>2, <1>9, <2>1, <2>2, <2>3 DEF L!LimitInv, L!AdmittedFit
  <2>5. ASSUME NEW r \in L!Admitted', NEW s \in L!Admitted', r.by = s.by
        PROVE  (r.n = s.n => r = s) /\ (r.n < s.n => r.on <= s.at)
    <3>1. CASE r \in L!Admitted /\ s \in L!Admitted
      BY <2>5, <3>1 DEF L!LimitInv, L!OneByOne
    <3>2. CASE r \in L!Admitted /\ s = b /\ b \notin L!Admitted
      <4>1. r.n \in Nat /\ r.n < turn[c] /\ r.on <= h.at
        BY <1>3, <1>10, <2>2, <2>3, <2>5, <3>2
      <4>2. QED
        BY <1>3, <3>2, <4>1
    <3>3. CASE s \in L!Admitted /\ r = b /\ b \notin L!Admitted
      <4>1. s.n \in Nat /\ s.n < turn[c]
        BY <1>3, <1>10, <2>2, <2>3, <2>5, <3>3
      <4>2. QED
        BY <1>3, <3>3, <4>1
    <3>4. QED
      BY <1>3, <1>9, <3>1, <3>2, <3>3
  <2>6. L!OneByOne'
    BY <2>5 DEF L!OneByOne
  <2>7. QED
    BY <2>4, <2>6
<1>12. L!RoomHeld'
  <2>1. CASE ~(use = "consume" /\ k < MaxHits)
    BY <1>2, <1>9, <2>1, NobodyNew
  <2>2. CASE use = "consume" /\ k < MaxHits
    <3>1. ~L!Waiting(c) /\ (lserial => \A d \in Clients : lpc[d] # "recorded")
      BY <1>2, <2>2 DEF L!Waiting, L!Free
    <3>2. Cardinality(L!Inside(hits, b.at)) + 1 < MaxHits
      BY <1>3, <1>5, <2>2 DEF N
    <3>3. QED
      BY <1>2, <1>3, <1>9, <2>2, <3>1, <3>2, OneMore
  <2>3. QED
    BY <2>1, <2>2
<1>13. QED
  BY <1>7, <1>8, <1>11, <1>12 DEF L!LimitInv

\* A client's step that leaves it without a row: what is committed and what is said of the others.
LEMMA RowGone ==
    ASSUME L!LimitInv, NEW c \in Clients, NEW step, lpc' = [lpc EXCEPT ![c] = step],
           step \in {"idle", "let", "trying"}, own' = [own EXCEPT ![c] = {}],
           cut' = [cut EXCEPT ![c] = {}], turn' \in {turn, [turn EXCEPT ![c] = @ + 1]},
           UNCHANGED <<lserial, now, use, count>>, use = "consume" => step # "trying"
    PROVE  /\ L!TransactionsFit' /\ own' \in [Clients -> SUBSET L!Row]
           /\ cut' \in [Clients -> SUBSET L!Row] /\ turn' \in [Clients -> Nat]
           /\ lpc' \in [Clients -> {"idle", "stamped", "recorded", "let", "looking", "trying"}]
           /\ own'[c] = {} /\ lpc'[c] = step /\ turn[c] \in Nat /\ turn'[c] \in {turn[c], turn[c] + 1}
           /\ \A d \in Clients : d # c => /\ own'[d] = own[d] /\ lpc'[d] = lpc[d]
                                          /\ turn'[d] = turn[d] /\ cut'[d] = cut[d]
           /\ L!Passing' \subseteq L!Passing /\ \A d \in L!Passing' : own'[d] = own[d]
<1>1. /\ own' \in [Clients -> SUBSET L!Row] /\ cut' \in [Clients -> SUBSET L!Row]
      /\ turn' \in [Clients -> Nat] /\ turn[c] \in Nat /\ turn'[c] \in {turn[c], turn[c] + 1}
      /\ lpc' \in [Clients -> {"idle", "stamped", "recorded", "let", "looking", "trying"}]
  BY DEF L!LimitInv, L!TypeOK
<1>2. /\ own'[c] = {} /\ lpc'[c] = step /\ cut'[c] = {}
      /\ \A d \in Clients : d # c => /\ own'[d] = own[d] /\ lpc'[d] = lpc[d]
                                     /\ turn'[d] = turn[d] /\ cut'[d] = cut[d]
  BY DEF L!LimitInv, L!TypeOK
<1>3. L!TransactionsFit'
  <2>1. ASSUME NEW d \in Clients
        PROVE  /\ IF lpc'[d] \in {"stamped", "recorded", "looking"}
                  THEN \E h \in own'[d] : /\ own'[d] = {h} /\ h.by = d /\ h.n = turn'[d]
                                          /\ Window < h.at /\ h.at <= h.on /\ h.on <= now'
                                          /\ \A g \in cut'[d] : g.at <= L!Cutoff(h.at)
                  ELSE own'[d] = {}
               /\ lpc'[d] # "recorded" => cut'[d] = {}
               /\ use' = "consume" => lpc'[d] \notin {"looking", "trying"}
    <3>1. CASE d = c
      BY <1>2, <3>1
    <3>2. CASE d # c
      BY <1>2, <3>2 DEF L!LimitInv, L!TransactionsFit
    <3>3. QED
      BY <3>1, <3>2
  <2>2. QED
    BY <2>1 DEF L!TransactionsFit, L!Cutoff
<1>4. L!Passing' \subseteq L!Passing /\ \A d \in L!Passing' : own'[d] = own[d]
  BY <1>2 DEF L!Passing
<1>5. QED
  BY <1>1, <1>2, <1>3, <1>4

\* Committed rows stay rows of earlier requests when the clients' turns only grow.
LEMMA RowsStayFit ==
    ASSUME L!LimitInv, NEW c \in Clients, turn[c] \in Nat, turn'[c] \in {turn[c], turn[c] + 1},
           \A d \in Clients : d # c => turn'[d] = turn[d], now' = now
    PROVE  \A g \in hits : g.n < turn'[g.by] /\ g.at <= now'
<1>1. \A g \in hits : g.n \in Nat /\ g.by \in Clients
  BY DEF L!LimitInv, L!TypeOK, L!Row
<1>2. QED
  BY <1>1 DEF L!LimitInv, L!RowsFit

\* enforce before a code check: the row comes later, the request is let through now.
LEMMA CheckKeeps ==
    ASSUME L!LimitInv, NEW c \in Clients, L!Check(c)
    PROVE  L!LimitInv'
<1>1. PICK h \in own[c] : /\ own[c] = {h} /\ h.by = c /\ h.n = turn[c] /\ h.at <= h.on /\ h.on <= now
  BY DEF L!Check, L!LimitInv, L!TransactionsFit
<1>0. PICK b \in {[h EXCEPT !.on = now]} : TRUE
  OBVIOUS
<1>2. /\ lpc[c] = "looking" /\ L!Cardinality(L!Inside(hits, h.at)) < MaxHits
      /\ served' = served \cup {b} /\ lpc' = [lpc EXCEPT ![c] = "trying"]
      /\ own' = [own EXCEPT ![c] = {}] /\ UNCHANGED <<lserial, now, use, hits, cut, count, turn>>
  BY <1>0, <1>1 DEF L!Check
<1>3. /\ b \in L!Row /\ b.by = c /\ b.n = turn[c] /\ b.at = h.at /\ b.on = now
      /\ h.at \in Nat /\ h.at <= now /\ now \in Nat /\ turn[c] \in Nat
  BY <1>0, <1>1 DEF L!LimitInv, L!TypeOK, L!Row
<1>4. use = "guess" /\ cut[c] = {} /\ cut' = [cut EXCEPT ![c] = {}]
  BY <1>2 DEF L!LimitInv, L!TransactionsFit, L!TypeOK
<1>5. /\ L!TransactionsFit' /\ own' \in [Clients -> SUBSET L!Row]
      /\ cut' \in [Clients -> SUBSET L!Row] /\ turn' \in [Clients -> Nat]
      /\ lpc' \in [Clients -> {"idle", "stamped", "recorded", "let", "looking", "trying"}]
      /\ own'[c] = {} /\ lpc'[c] = "trying"
      /\ \A d \in Clients : d # c => own'[d] = own[d] /\ lpc'[d] = lpc[d]
  BY <1>2, <1>4, RowGone
<1>6. L!Admitted = served /\ L!Admitted' = served \cup {b} /\ served \subseteq L!Row
  BY <1>2, <1>4 DEF L!Admitted, L!Passing, L!LimitInv, L!TypeOK
<1>7. L!TypeOK' /\ L!RowsFit'
  <2>1. L!IsFiniteSet(served')
    BY <1>2, SameSize, FS_AddElement DEF L!LimitInv, L!TypeOK
  <2>2. QED
    BY <1>2, <1>3, <1>5, <2>1 DEF L!LimitInv, L!TypeOK, L!RowsFit
<1>8. \A s \in served : /\ s.by \in Clients /\ s.n \in Nat
                        /\ s.by = c => s.n < turn[c] /\ s.on <= h.at
  BY <1>1, <1>2, <1>4, <1>6 DEF L!LimitInv, L!AdmittedFit, L!Pending, L!Waiting, L!Row
<1>9. L!AdmittedFit'
  <2>1. L!Cutoff(now') = L!Cutoff(now)
    BY <1>2
  <2>2. \A s \in served : L!Pending(s) => L!Pending(s)'
    BY <1>2, <1>5, <1>8 DEF L!Pending, L!Waiting
  <2>3. \A s \in served : \A r \in own'[s.by] : r \in own[s.by]
    BY <1>5, <1>8
  <2>4. L!Pending(b)' /\ own'[b.by] = {}
    BY <1>2, <1>3, <1>4, <1>5 DEF L!Pending, L!Waiting
  <2>5. b.at <= b.on /\ b.on <= now'
    BY <1>2, <1>3
  <2>6. QED
    BY <1>2, <1>6, <2>1, <2>2, <2>3, <2>4, <2>5 DEF L!LimitInv, L!AdmittedFit
<1>10. L!OneByOne'
  <2>1. ASSUME NEW r \in L!Admitted', NEW s \in L!Admitted', r.by = s.by
        PROVE  (r.n = s.n => r = s) /\ (r.n < s.n => r.on <= s.at)
    <3>1. CASE r \in served /\ s \in served
      BY <1>6, <2>1, <3>1 DEF L!LimitInv, L!OneByOne
    <3>2. CASE r \in served /\ s = b
      BY <1>3, <1>8, <2>1, <3>2
    <3>3. CASE s \in served /\ r = b
      BY <1>3, <1>8, <2>1, <3>3
    <3>4. QED
      BY <1>3, <1>6, <3>1, <3>2, <3>3
  <2>2. QED
    BY <2>1 DEF L!OneByOne
<1>11. L!RoomHeld'
  <2>1. Cardinality(L!Inside(hits, b.at)) < MaxHits /\ ~L!Waiting(c)
    BY <1>2, <1>3, <1>4, SameSize DEF L!Waiting
  <2>2. QED
    BY <1>2, <1>3, <1>4, <1>6, <2>1, OneMore
<1>12. QED
  BY <1>5, <1>7, <1>9, <1>10, <1>11 DEF L!LimitInv

\* A request ends that neither records nor clears: it was refused, or is not a failure.
LEMMA UnrecordedKeeps ==
    ASSUME L!LimitInv, NEW c \in Clients, lpc[c] \in {"looking", "trying"},
           served' = {s \in served : ~(s.by = c /\ s.n = turn[c])},
           lpc' = [lpc EXCEPT ![c] = "idle"], own' = [own EXCEPT ![c] = {}],
           turn' = [turn EXCEPT ![c] = @ + 1], UNCHANGED <<lserial, now, use, hits, cut, count>>
    PROVE  L!LimitInv'
<1>1. use = "guess" /\ cut' = [cut EXCEPT ![c] = {}]
  BY DEF L!LimitInv, L!TransactionsFit, L!TypeOK
<1>2. /\ L!TransactionsFit' /\ own' \in [Clients -> SUBSET L!Row]
      /\ cut' \in [Clients -> SUBSET L!Row] /\ turn' \in [Clients -> Nat]
      /\ lpc' \in [Clients -> {"idle", "stamped", "recorded", "let", "looking", "trying"}]
      /\ own'[c] = {} /\ lpc'[c] = "idle" /\ turn[c] \in Nat /\ turn'[c] \in {turn[c], turn[c] + 1}
      /\ \A d \in Clients : d # c => own'[d] = own[d] /\ lpc'[d] = lpc[d] /\ turn'[d] = turn[d]
  BY <1>1, RowGone
<1>3. L!Admitted' = served' /\ L!Admitted = served /\ served' \subseteq served /\ served \subseteq L!Row
  BY <1>1 DEF L!Admitted, L!Passing, L!LimitInv, L!TypeOK
<1>4. L!TypeOK' /\ L!RowsFit'
  <2>1. L!IsFiniteSet(served')
    BY <1>3, SameSize, FS_Subset DEF L!LimitInv, L!TypeOK
  <2>2. L!RowsFit'
    BY <1>2, RowsStayFit DEF L!RowsFit
  <2>3. QED
    BY <1>2, <1>3, <2>1, <2>2 DEF L!LimitInv, L!TypeOK
<1>5. L!AdmittedFit' /\ L!OneByOne'
  <2>1. turn'[c] = turn[c] + 1
    BY DEF L!LimitInv, L!TypeOK
  <2>2. ASSUME NEW s \in served'
        PROVE  /\ s \in served /\ s.by \in Clients /\ s.n \in Nat /\ turn[s.by] \in Nat
               /\ L!Pending(s) => L!Pending(s)'
               /\ s.n < turn[s.by] => s.n < turn'[s.by]
               /\ \A r \in own'[s.by] : IF s.n < turn'[s.by] THEN s.on <= r.at ELSE s.at <= r.at
    <3>1. s \in served /\ s.by \in Clients /\ s.n \in Nat /\ turn[s.by] \in Nat
      BY <1>3 DEF L!Row, L!LimitInv, L!TypeOK
    <3>2. CASE s.by = c
      BY <1>2, <2>1, <3>1, <3>2 DEF L!Pending
    <3>3. CASE s.by # c
      BY <1>2, <1>3, <3>1, <3>3 DEF L!Pending, L!Waiting, L!LimitInv, L!AdmittedFit
    <3>4. QED
      BY <3>1, <3>2, <3>3
  <2>3. L!Cutoff(now') = L!Cutoff(now)
    OBVIOUS
  <2>4. QED
    BY <1>3, <2>2, <2>3 DEF L!LimitInv, L!AdmittedFit, L!OneByOne
<1>6. L!RoomHeld'
  BY <1>3, NobodyNew
<1>7. QED
  BY <1>2, <1>4, <1>5, <1>6 DEF L!LimitInv

\* clear empties the bucket, and the count of requests let through starts again.
LEMMA ClearKeeps ==
    ASSUME L!LimitInv, NEW c \in Clients, L!Clear(c)
    PROVE  L!LimitInv'
<1>1. /\ lpc[c] \in {"let", "trying"} /\ hits' = {} /\ served' = {}
      /\ lpc' = [lpc EXCEPT ![c] = "idle"] /\ turn' \in {turn, [turn EXCEPT ![c] = @ + 1]}
      /\ UNCHANGED <<lserial, now, use, own, cut, count>>
  BY DEF L!Clear
<1>2. own' = [own EXCEPT ![c] = {}] /\ cut' = [cut EXCEPT ![c] = {}]
  BY <1>1 DEF L!LimitInv, L!TransactionsFit, L!TypeOK
<1>3. /\ L!TransactionsFit' /\ own' \in [Clients -> SUBSET L!Row]
      /\ cut' \in [Clients -> SUBSET L!Row] /\ turn' \in [Clients -> Nat]
      /\ lpc' \in [Clients -> {"idle", "stamped", "recorded", "let", "looking", "trying"}]
      /\ \A d \in Clients : d # c => own'[d] = own[d] /\ lpc'[d] = lpc[d] /\ turn'[d] = turn[d]
      /\ L!Passing' \subseteq L!Passing /\ \A d \in L!Passing' : own'[d] = own[d]
  BY <1>1, <1>2, RowGone
<1>4. c \notin L!Passing
  BY <1>1 DEF L!Passing
<1>5. L!Admitted' \subseteq L!Admitted /\ L!Admitted \subseteq L!Row
  <2>1. L!Admitted' \subseteq L!Admitted
    BY <1>1, <1>3 DEF L!Admitted
  <2>2. QED
    BY <2>1, AdmittedIsTyped DEF L!LimitInv
<1>6. L!TypeOK'
  BY <1>1, <1>3, FS_EmptySet, SameSize DEF L!LimitInv, L!TypeOK
<1>7. L!RowsFit'
  BY <1>1 DEF L!RowsFit
<1>8. L!AdmittedFit' /\ L!OneByOne'
  <2>1. ASSUME NEW s \in L!Admitted'
        PROVE  /\ s.by \in Clients /\ s.by # c /\ L!Pending(s)' /\ own'[s.by] = own[s.by]
               /\ turn'[s.by] = turn[s.by]
    <3>1. PICK d \in L!Passing' : s \in own'[d]
      BY <1>1 DEF L!Admitted
    <3>2. d \in L!Passing /\ d \in Clients /\ d # c /\ s \in own[d] /\ lpc[d] = "recorded" /\ use = "consume"
      BY <1>3, <1>4, <3>1 DEF L!Passing
    <3>3. s.by = d /\ s.n = turn[d]
      BY <3>2 DEF L!LimitInv, L!TransactionsFit
    <3>4. QED
      BY <1>1, <1>3, <3>2, <3>3 DEF L!Pending, L!Waiting
  <2>2. QED
    BY <1>1, <1>5, <2>1 DEF L!LimitInv, L!AdmittedFit, L!OneByOne
<1>9. L!RoomHeld'
  BY <1>1, <1>5, NobodyNew
<1>10. QED
  BY <1>3, <1>6, <1>7, <1>8, <1>9 DEF L!LimitInv

\* COMMIT: the row covers the request it was recorded for; what it prunes no window needs.
LEMMA CommitKeeps ==
    ASSUME L!LimitInv, NEW c \in Clients, L!Commit(c)
    PROVE  L!LimitInv'
<1>1. PICK h \in own[c] : /\ own[c] = {h} /\ h.by = c /\ h.n = turn[c] /\ h.at <= h.on /\ h.on <= now
                          /\ \A g \in cut[c] : g.at <= L!Cutoff(h.at)
  BY DEF L!Commit, L!LimitInv, L!TransactionsFit
<1> DEFINE step == IF use = "consume" /\ count[c] < MaxHits THEN "let" ELSE "idle"
<1>2. /\ lpc[c] = "recorded" /\ hits' = (hits \ cut[c]) \cup {h}
      /\ served' = IF use = "consume" /\ count[c] < MaxHits THEN served \cup {h} ELSE served
      /\ own' = [own EXCEPT ![c] = {}] /\ cut' = [cut EXCEPT ![c] = {}]
      /\ lpc' = [lpc EXCEPT ![c] = step]
      /\ turn' = [turn EXCEPT ![c] = @ + 1] /\ UNCHANGED <<lserial, now, use, count>>
  BY <1>1 DEF L!Commit
<1>3. step \in {"idle", "let"}
  OBVIOUS
<1> HIDE DEF step
<1>4. /\ h \in L!Row /\ h.at \in Nat /\ h.on \in Nat /\ now \in Nat /\ h.at <= now
      /\ turn'[c] = turn[c] + 1 /\ turn[c] \in Nat
  BY <1>1, <1>2 DEF L!LimitInv, L!TypeOK, L!Row
<1>5. /\ L!TransactionsFit' /\ own' \in [Clients -> SUBSET L!Row]
      /\ cut' \in [Clients -> SUBSET L!Row] /\ turn' \in [Clients -> Nat]
      /\ lpc' \in [Clients -> {"idle", "stamped", "recorded", "let", "looking", "trying"}]
      /\ own'[c] = {} /\ lpc'[c] = step
      /\ \A d \in Clients : d # c => own'[d] = own[d] /\ lpc'[d] = lpc[d] /\ turn'[d] = turn[d]
      /\ L!Passing' \subseteq L!Passing /\ \A d \in L!Passing' : own'[d] = own[d]
  BY <1>2, <1>3, RowGone
<1>6. L!Admitted' \subseteq L!Admitted /\ L!Admitted \subseteq L!Row
  <2>1. served' \subseteq L!Admitted
    BY <1>1, <1>2 DEF L!Admitted, L!Passing
  <2>2. L!Admitted' \subseteq L!Admitted
    BY <1>5, <2>1 DEF L!Admitted
  <2>3. QED
    BY <2>2, AdmittedIsTyped DEF L!LimitInv
<1>7. L!TypeOK'
  <2>1. IsFiniteSet(hits \ cut[c])
    BY SameSize, FS_Subset DEF L!LimitInv, L!TypeOK
  <2>2. L!IsFiniteSet(hits') /\ hits' \subseteq L!Row
    BY <1>2, <1>4, <2>1, SameSize, FS_AddElement DEF L!LimitInv, L!TypeOK
  <2>3. L!IsFiniteSet(served') /\ served' \subseteq L!Row
    BY <1>2, <1>4, SameSize, FS_AddElement DEF L!LimitInv, L!TypeOK
  <2>4. QED
    BY <1>2, <1>5, <2>2, <2>3 DEF L!LimitInv, L!TypeOK
<1>8. L!RowsFit'
  <2>1. \A g \in hits : g.n < turn'[g.by] /\ g.at <= now'
    BY <1>2, <1>4, <1>5, RowsStayFit
  <2>2. h.n < turn'[h.by] /\ h.at <= now'
    BY <1>1, <1>2, <1>4
  <2>3. QED
    BY <1>2, <2>1, <2>2 DEF L!RowsFit
<1>9. L!AdmittedFit' /\ L!OneByOne'
  <2>1. L!Cutoff(now') = L!Cutoff(now)
    BY <1>2
  <2>2. ASSUME NEW s \in L!Admitted', NEW g \in hits, L!Covers(g, s), s.at > L!Cutoff(now)
        PROVE  g \in hits'
    <3>1. g.at \in Nat /\ s.at \in Nat /\ g.at >= s.at
      BY <1>6, <2>2 DEF L!Covers, L!LimitInv, L!TypeOK, L!Row
    <3>2. L!Cutoff(h.at) <= L!Cutoff(now) /\ L!Cutoff(h.at) \in Nat /\ L!Cutoff(now) \in Nat
      BY <1>4, LimitAssumption DEF L!Cutoff
    <3>3. ~(g.at <= L!Cutoff(h.at))
      BY <2>2, <3>1, <3>2
    <3>4. QED
      BY <1>1, <1>2, <3>3
  <2>3. ASSUME NEW s \in L!Admitted'
        PROVE  /\ L!Pending(s)' \/ s.n < turn'[s.by]
               /\ \A r \in own'[s.by] : IF s.n < turn'[s.by] THEN s.on <= r.at ELSE s.at <= r.at
               /\ s.at > L!Cutoff(now) => L!Pending(s)' \/ \E r \in hits' : L!Covers(r, s)
    <3>1. s \in L!Admitted /\ s.by \in Clients /\ s.n \in Nat /\ s.at \in Nat
      BY <1>6 DEF L!Row
    <3>2. CASE s.by = c
      <4>1. s.n < turn'[c] /\ own'[s.by] = {}
        BY <1>4, <1>5, <3>1, <3>2 DEF L!Pending, L!LimitInv, L!AdmittedFit
      <4>2. L!Pending(s) => L!Covers(h, s) /\ h \in hits'
        BY <1>1, <1>2, <1>4, <3>1, <3>2 DEF L!Pending, L!Covers, L!LimitInv, L!AdmittedFit
      <4>3. s.at > L!Cutoff(now) => \E r \in hits' : L!Covers(r, s)
        BY <2>2, <3>1, <4>2 DEF L!LimitInv, L!AdmittedFit
      <4>4. QED
        BY <3>2, <4>1, <4>3
    <3>3. CASE s.by # c
      <4>1. (L!Pending(s)' <=> L!Pending(s)) /\ own'[s.by] = own[s.by] /\ turn'[s.by] = turn[s.by]
        BY <1>2, <1>5, <3>1, <3>3 DEF L!Pending, L!Waiting
      <4>2. s.at > L!Cutoff(now) => L!Pending(s)' \/ \E r \in hits' : L!Covers(r, s)
        BY <2>2, <3>1, <4>1 DEF L!LimitInv, L!AdmittedFit
      <4>3. QED
        BY <3>1, <4>1, <4>2 DEF L!LimitInv, L!AdmittedFit
    <3>4. QED
      BY <3>2, <3>3
  <2>4. L!AdmittedFit'
    BY <1>2, <1>6, <2>1, <2>3 DEF L!LimitInv, L!AdmittedFit
  <2>5. QED
    BY <1>6, <2>4 DEF L!LimitInv, L!OneByOne
<1>10. L!RoomHeld'
  BY <1>2, <1>6, NobodyNew
<1>11. QED
  BY <1>5, <1>7, <1>8, <1>9, <1>10 DEF L!LimitInv

LEMMA LimitStep == L!LimitInv /\ [L!Next]_(L!vars) => L!LimitInv'
<1> SUFFICES ASSUME L!LimitInv, [L!Next]_(L!vars) PROVE L!LimitInv'
  OBVIOUS
<1>1. CASE UNCHANGED L!vars
  BY <1>1 DEF L!vars, L!LimitInv, L!TypeOK, L!TransactionsFit, L!RowsFit, L!AdmittedFit, L!OneByOne,
     L!Admitted, L!Passing, L!Pending, L!Waiting, L!RoomHeld, L!Allowance, L!Cutoff
<1>2. ASSUME NEW c \in Clients, L!Consume(c) \/ L!Look(c) \/ L!WrongCode(c) \/ L!UncheckedFailure(c)
      PROVE  L!LimitInv'
  BY <1>2, StampKeeps DEF L!Consume, L!Look, L!WrongCode, L!UncheckedFailure
<1>3. ASSUME NEW c \in Clients, L!Refuse(c) PROVE L!LimitInv'
  <2>1. \A s \in served : ~(s.by = c /\ s.n = turn[c])
    <3>1. use = "guess" /\ lpc[c] = "looking" /\ turn[c] \in Nat /\ served \subseteq L!Admitted
      BY <1>3 DEF L!Refuse, L!LimitInv, L!TransactionsFit, L!TypeOK, L!Admitted
    <3>2. QED
      BY <3>1 DEF L!LimitInv, L!AdmittedFit, L!Pending, L!Waiting
  <2>2. served' = {s \in served : ~(s.by = c /\ s.n = turn[c])}
    BY <1>3, <2>1 DEF L!Refuse
  <2>3. QED
    BY <1>3, <2>2, UnrecordedKeeps DEF L!Refuse
<1>4. ASSUME NEW c \in Clients, L!Unrecorded(c) PROVE L!LimitInv'
  <2>1. own' = [own EXCEPT ![c] = {}]
    BY <1>4 DEF L!Unrecorded, L!LimitInv, L!TransactionsFit, L!TypeOK
  <2>2. QED
    BY <1>4, <2>1, UnrecordedKeeps DEF L!Unrecorded
<1>5. CASE L!Next
  BY <1>2, <1>3, <1>4, <1>5, TickKeeps, CleanupKeeps, RecordKeeps, CommitKeeps, ClearKeeps, CheckKeeps
     DEF L!Next
<1>6. QED
  BY <1>1, <1>5

LEMMA LimitComposed == Spec => L!Spec
<1>1. Init => L!Init
  BY DEF Init
<1>2. [Next]_vars => [L!Next]_(L!vars)
  BY DEF Next, vars, lvars, L!vars
<1>3. QED
  BY <1>1, <1>2, PTL DEF Spec, L!Spec

\* The requests let through are among the admitted ones.
LEMMA RoomIsEnough == L!LimitInv => L!LimitHeld
<1> SUFFICES ASSUME L!LimitInv PROVE L!LimitHeld
  OBVIOUS
<1>1. L!WindowHeld
  <2>1. SUFFICES ASSUME NEW t \in 1..now PROVE L!Cardinality(L!Prompt(served, t)) <= L!Allowance
    BY DEF L!WindowHeld
  <2>2. L!Prompt(served, t) \subseteq L!Prompt(L!Admitted, t)
    BY DEF L!Prompt, L!Admitted
  <2>3. IsFiniteSet(L!Prompt(L!Admitted, t))
    BY AdmittedIsTyped, PromptIsFinite DEF L!LimitInv
  <2>4. /\ Cardinality(L!Prompt(served, t)) <= Cardinality(L!Prompt(L!Admitted, t))
        /\ Cardinality(L!Prompt(served, t)) \in Nat /\ Cardinality(L!Prompt(L!Admitted, t)) \in Nat
    BY <2>2, <2>3, NoMore, FS_CardinalityType
  <2>5. Cardinality(L!Prompt(L!Admitted, t)) <= L!Allowance /\ L!Allowance \in Nat
    BY SameSize, AllowanceIsNat DEF L!LimitInv, L!RoomHeld
  <2>6. L!Cardinality(L!Prompt(served, t)) = Cardinality(L!Prompt(served, t))
    BY SameSize
  <2>7. QED
    BY <2>4, <2>5, <2>6
<1>2. L!LateOnce
  <2>1. SUFFICES ASSUME NEW t \in 1..now, NEW r \in L!Late(served, t), NEW s \in L!Late(served, t),
                        r.by = s.by
                 PROVE  r = s
    BY DEF L!LateOnce
  <2>2. /\ r \in L!Admitted /\ s \in L!Admitted /\ r.n \in Nat /\ s.n \in Nat /\ t \in Nat
        /\ r.at \in Nat /\ s.at \in Nat /\ r.on \in Nat /\ s.on \in Nat /\ Window \in Nat
    BY LimitAssumption DEF L!Late, L!Admitted, L!LimitInv, L!TypeOK, L!Row
  <2>3. r.on > s.at /\ s.on > r.at
    BY <2>2 DEF L!Late
  <2>4. ~(r.n < s.n) /\ ~(s.n < r.n)
    BY <2>1, <2>2, <2>3 DEF L!LimitInv, L!OneByOne
  <2>5. QED
    BY <2>1, <2>2, <2>4 DEF L!LimitInv, L!OneByOne
<1>3. QED
  BY <1>1, <1>2 DEF L!LimitHeld

\* Both uses of the limiter (ratelimit.py) stay within the limit and the overshoot that their
\* concurrent steps allow, and a request beyond that was counted when the window of its stamp was
\* over, at most one for each client: for any number of clients, any delay between a stamp and its
\* transaction, and any pace of the hourly cleanup, if the processes' clocks agree.
THEOREM LimitIsHeld == Spec => []LimitHeld
  BY LimitComposed, LimitStart, LimitStep, RoomIsEnough, PTL DEF L!Spec, LimitHeld

-----------------------------------------------------------------------------
(* AuditChain.                                                              *)

LEMMA LeastNumber ==
    ASSUME NEW T, T \subseteq Nat, T # {}
    PROVE  \E i \in T : \A j \in T : i <= j
<1>1. PICK i \in T : \A j \in T : ~(<<j, i>> \in OpToRel(<, Nat))
  BY NatLessThanWellFounded, WFMin
<1>2. \A j \in T : ~(j < i)
  BY <1>1 DEF OpToRel
<1>3. QED
  BY <1>2

\* Rows as the queries see them: ids tell them apart.
Ordered(Z) ==
    /\ \A e \in Z : e.id \in Nat /\ e.at \in Nat
    /\ \A e, f \in Z : e.id = f.id => e = f

LEMMA OrderIsTotal ==
    ASSUME NEW Z, Ordered(Z), NEW e \in Z, NEW f \in Z
    PROVE  /\ e = f \/ A!Before(e, f) \/ A!Before(f, e)
           /\ ~(A!Before(e, f) /\ A!Before(f, e)) /\ ~A!Before(e, e)
           /\ \A g \in Z : A!Before(e, f) /\ A!Before(f, g) => A!Before(e, g)
  BY DEF Ordered, A!Before

\* A finite set has an element that a strict order puts before no other: the one with the
\* fewest elements after it.
LEMMA Extreme ==
    ASSUME NEW Z, IsFiniteSet(Z), Z # {}, NEW R, \A x \in Z : <<x, x>> \notin R,
           \A x, y, z \in Z : <<x, y>> \in R /\ <<y, z>> \in R => <<x, z>> \in R
    PROVE  \E e \in Z : \A f \in Z : <<e, f>> \notin R
<1> DEFINE after(e) == {f \in Z : <<e, f>> \in R}
           T == {Cardinality(after(e)) : e \in Z}
<1>1. \A e \in Z : IsFiniteSet(after(e)) /\ Cardinality(after(e)) \in Nat
  <2>1. SUFFICES ASSUME NEW e \in Z PROVE IsFiniteSet(after(e)) /\ Cardinality(after(e)) \in Nat
    OBVIOUS
  <2>2. after(e) \subseteq Z
    OBVIOUS
  <2>3. QED
    BY <2>2, NoMore
<1>2. PICK e \in Z : \A f \in Z : Cardinality(after(e)) <= Cardinality(after(f))
  <2> HIDE DEF after
  <2>1. T \subseteq Nat /\ T # {}
    BY <1>1
  <2>2. PICK i \in T : \A j \in T : i <= j
    BY <2>1, LeastNumber
  <2>3. QED
    BY <2>2
<1>3. ASSUME NEW f \in after(e) PROVE FALSE
  <2>1. f \in Z /\ f \in after(e) /\ f \notin after(f) /\ after(f) \subseteq after(e)
    OBVIOUS
  <2>2. Cardinality(after(f)) <= Cardinality(after(e))
        /\ (Cardinality(after(e)) = Cardinality(after(f)) => after(e) = after(f))
    BY <1>1, <2>1, FS_Subset
  <2>3. Cardinality(after(e)) # Cardinality(after(f))
    BY <2>1, <2>2
  <2>4. Cardinality(after(e)) <= Cardinality(after(f))
    BY <1>2, <2>1
  <2>5. Cardinality(after(e)) \in Nat /\ Cardinality(after(f)) \in Nat
    BY <1>1, <2>1
  <2> HIDE DEF after
  <2>6. QED
    BY <2>2, <2>3, <2>4, <2>5
<1>4. QED
  BY <1>3

\* Finitely many rows have a last one and a first one.
LEMMA LastExists ==
    ASSUME NEW Z, IsFiniteSet(Z), Ordered(Z), Z # {}
    PROVE  A!LastOf(Z) \in Z /\ \A f \in Z \ {A!LastOf(Z)} : A!Before(f, A!LastOf(Z))
<1> DEFINE R == {p \in Z \X Z : A!Before(p[1], p[2])}
<1>1. \A x, y \in Z : <<x, y>> \in R <=> A!Before(x, y)
  OBVIOUS
<1> HIDE DEF R
<1>2. /\ \A x \in Z : <<x, x>> \notin R
      /\ \A x, y, z \in Z : <<x, y>> \in R /\ <<y, z>> \in R => <<x, z>> \in R
  BY <1>1, OrderIsTotal
<1>3. PICK e \in Z : \A f \in Z : <<e, f>> \notin R
  BY <1>2, Extreme
<1>4. \A f \in Z \ {e} : A!Before(f, e)
  BY <1>1, <1>3, OrderIsTotal
<1>5. QED
  BY <1>4 DEF A!LastOf

LEMMA FirstExists ==
    ASSUME NEW Z, IsFiniteSet(Z), Ordered(Z), Z # {}
    PROVE  \E e \in Z : \A f \in Z : ~A!Before(f, e)
<1> DEFINE R == {p \in Z \X Z : A!Before(p[2], p[1])}
<1>1. \A x, y \in Z : <<x, y>> \in R <=> A!Before(y, x)
  OBVIOUS
<1> HIDE DEF R
<1>2. /\ \A x \in Z : <<x, x>> \notin R
      /\ \A x, y, z \in Z : <<x, y>> \in R /\ <<y, z>> \in R => <<x, z>> \in R
  BY <1>1, OrderIsTotal
<1>3. QED
  BY <1>1, <1>2, Extreme

\* There is only one last row.
LEMMA LastIsUnique ==
    ASSUME NEW Z, Ordered(Z), NEW e \in Z, \A f \in Z \ {e} : A!Before(f, e)
    PROVE  A!LastOf(Z) = e
<1>1. A!LastOf(Z) \in Z /\ \A f \in Z \ {A!LastOf(Z)} : A!Before(f, A!LastOf(Z))
  BY DEF A!LastOf
<1>2. QED
  BY <1>1, OrderIsTotal

\* The rows of the table are finitely many and told apart by their ids.
LEMMA EventsAreOrdered ==
    ASSUME A!TypeOK, A!RowsFit
    PROVE  Ordered(events) /\ IsFiniteSet(events) /\ \A e \in events : A!IsEvent(e)
<1>1. \A e \in events : A!IsEvent(e) /\ e.id \in Writers /\ e = draft[e.id] /\ e.at \in Nat
  BY DEF A!TypeOK, A!RowsFit, A!IsEvent
<1>2. Ordered(events)
  <2>1. \A e \in events : e.id \in Nat /\ e.at \in Nat
    BY <1>1, AuditAssumption
  <2>2. \A e, f \in events : e.id = f.id => e = f
    BY <1>1
  <2>3. QED
    BY <2>1, <2>2 DEF Ordered
<1> DEFINE f == [e \in events |-> e.id]
<1>3. f \in Injection(events, Writers)
  BY <1>1 DEF Injection, IsInjective
<1>4. IsFiniteSet(Writers)
  BY AuditAssumption DEF A!IsFiniteSet, IsFiniteSet
<1>5. IsFiniteSet(events)
  BY <1>3, <1>4, FS_Injection
<1>6. QED
  BY <1>1, <1>2, <1>5

\* A hash tells the id, the type, the time and the outcome it was computed from.
LEMMA HashTells ==
    ASSUME NEW p, NEW q, NEW d, NEW e, A!Material(p, d) = A!Material(q, e)
    PROVE  p = q /\ d.id = e.id /\ d.type = e.type /\ d.at = e.at /\ d.outcome = e.outcome
  BY DEF A!Material

\* A row that links to the hash of e links to e: no other row has that hash, and it is not the
\* missing hash of a first row.
LEMMA LinkTells ==
    ASSUME NEW Q, IsFiniteSet(Q), Ordered(Q), \A g \in Q : \E p : g.hash = A!Material(p, g),
           NEW e, NEW p, e.hash = A!Material(p, e), A!Previous(Q) = e.hash
    PROVE  \E g \in Q : g.id = e.id
<1>1. CASE Q = {}
  <2>1. e.hash = << >>
    BY <1>1 DEF A!Previous, A!NoHash
  <2>2. Len(e.hash) = 0
    BY <2>1
  <2>3. Len(e.hash) = 5
    BY DEF A!Material
  <2>4. QED
    BY <2>2, <2>3
<1>2. CASE Q # {}
  <2>1. A!LastOf(Q) \in Q
    BY <1>2, LastExists
  <2>2. A!LastOf(Q).hash = e.hash
    BY <1>2 DEF A!Previous
  <2>3. PICK q : A!LastOf(Q).hash = A!Material(q, A!LastOf(Q))
    BY <2>1
  <2>4. A!Material(q, A!LastOf(Q)) = A!Material(p, e)
    BY <2>2, <2>3
  <2>5. A!LastOf(Q).id = e.id
    BY <2>4, HashTells
  <2>6. QED
    BY <2>1, <2>5
<1>3. QED
  BY <1>1, <1>2

\* Rewriting an event in place does not verify: its hash still tells the old values.
LEMMA RewritingIsFound ==
    ASSUME A!Verify(events), NEW e \in events, A!IsEvent(e), NEW type, NEW outcome,
           <<type, outcome>> # <<e.type, e.outcome>>
    PROVE  ~A!Verify((events \ {e}) \cup {[e EXCEPT !.type = type, !.outcome = outcome]})
<1> DEFINE d == [e EXCEPT !.type = type, !.outcome = outcome]
           rows2 == (events \ {e}) \cup {d}
<1>1. SUFFICES ASSUME A!Verify(rows2) PROVE FALSE
  OBVIOUS
<1>2. d.hash = e.hash /\ d.type = type /\ d.outcome = outcome
  BY DEF A!IsEvent
<1>3. PICK p : e.hash = A!Material(p, e)
  BY DEF A!Verify
<1>4. d \in rows2
  OBVIOUS
<1> HIDE DEF d, rows2
<1>5. PICK q : d.hash = A!Material(q, d)
  BY <1>1, <1>4 DEF A!Verify
<1>6. d.type = e.type /\ d.outcome = e.outcome
  BY <1>2, <1>3, <1>5, HashTells
<1>7. QED
  BY <1>2, <1>6

\* Removing an event that is not the last leaves the next one with a hash that no row has.
LEMMA RemovalIsFound ==
    ASSUME Ordered(events), IsFiniteSet(events), A!Verify(events),
           NEW e \in events, e # A!LastOf(events)
    PROVE  ~A!Verify(events \ {e})
<1> DEFINE later == {f \in events : A!Before(e, f)}
<1>1. SUFFICES ASSUME A!Verify(events \ {e}) PROVE FALSE
  OBVIOUS
<1>2. A!LastOf(events) \in later
  BY LastExists
<1>3. IsFiniteSet(later) /\ Ordered(later)
  BY FS_Subset DEF Ordered
<1>4. PICK f \in later : \A g \in later : ~A!Before(g, f)
  BY <1>2, <1>3, FirstExists
<1>5. f \in events /\ A!Before(e, f) /\ f # e
  BY OrderIsTotal
<1> DEFINE P == {g \in events : A!Before(g, f)}
           Q == {g \in events \ {e} : A!Before(g, f)}
<1>6. A!Previous(P) = e.hash
  <2>1. e \in P /\ Ordered(P)
    BY <1>5 DEF Ordered
  <2>2. \A g \in P \ {e} : A!Before(g, e)
    BY <1>4, OrderIsTotal
  <2>3. A!LastOf(P) = e
    BY <2>1, <2>2, LastIsUnique
  <2>4. QED
    BY <2>1, <2>3 DEF A!Previous
<1>7. f.prev = e.hash
  BY <1>5, <1>6 DEF A!Verify
<1>8. f.prev = A!Previous(Q)
  BY <1>1, <1>5 DEF A!Verify
<1>9. PICK p : e.hash = A!Material(p, e)
  BY DEF A!Verify
<1>10. IsFiniteSet(Q) /\ Ordered(Q) /\ \A g \in Q : \E q : g.hash = A!Material(q, g)
  <2>1. \A g \in events : \E q : g.hash = A!Material(q, g)
    BY DEF A!Verify
  <2>2. QED
    BY <2>1, FS_Subset DEF Ordered
<1>11. \E g \in Q : g.id = e.id
  <2> HIDE DEF Q
  <2>1. QED
    BY <1>7, <1>8, <1>9, <1>10, LinkTells
<1>12. QED
  BY <1>11 DEF Ordered

\* A chain with an event that links to one sorted after it does not verify.
LEMMA BrokenIsFound ==
    ASSUME Ordered(events), IsFiniteSet(events), NEW d \in events, NEW e \in events,
           A!Before(d, e), d.prev = e.hash
    PROVE  ~A!Verify(events)
<1>1. SUFFICES ASSUME A!Verify(events) PROVE FALSE
  OBVIOUS
<1> DEFINE Q == {g \in events : A!Before(g, d)}
<1>2. A!Previous(Q) = e.hash
  BY <1>1 DEF A!Verify
<1>3. \A g \in events : \E q : g.hash = A!Material(q, g)
  BY <1>1 DEF A!Verify
<1>4. IsFiniteSet(Q) /\ Ordered(Q) /\ \A g \in Q : \E q : g.hash = A!Material(q, g)
  BY <1>3, FS_Subset DEF Ordered
<1>5. PICK p : e.hash = A!Material(p, e)
  BY <1>3
<1>6. \E g \in Q : g.id = e.id
  <2> HIDE DEF Q
  <2>1. QED
    BY <1>2, <1>4, <1>5, LinkTells
<1>7. A!Before(e, d)
  BY <1>6 DEF Ordered
<1>8. QED
  BY <1>7, OrderIsTotal

LEMMA ChainStart == A!Init => A!ChainInv
<1> SUFFICES ASSUME A!Init PROVE A!ChainInv
  OBVIOUS
<1>1. A!TypeOK
  <2>1. mixed \in BOOLEAN /\ behind \in BOOLEAN
    BY Zenon DEF A!Init
  <2>2. QED
    BY <2>1 DEF A!Init, A!TypeOK
<1>2. A!RowsFit /\ A!Hashed
  BY DEF A!Init, A!RowsFit, A!Hashed
<1>3. A!InTurn
  <2>1. ~behind /\ events = {} /\ \A w \in Writers : apc[w] = "idle"
    BY DEF A!Init
  <2>2. QED
    BY <2>1 DEF A!InTurn, A!Open, A!Verify
<1>4. QED
  BY <1>1, <1>2, <1>3 DEF A!ChainInv

\* An append takes its id and its timestamp.
LEMMA AppendStarts ==
    ASSUME A!ChainInv, NEW w \in Writers, A!Stamp(w)
    PROVE  A!ChainInv'
<1>1. PICK type \in Types, outcome \in A!Outcomes, t \in 1..AuditTime :
         draft' = [draft EXCEPT ![w] = [id |-> w, type |-> type, at |-> t, outcome |-> outcome,
                                        prev |-> A!NoHash, hash |-> A!NoHash]]
  BY DEF A!Stamp
<1>2. /\ apc[w] = "idle" /\ apc' = [apc EXCEPT ![w] = "stamped"] /\ UNCHANGED <<events, behind>>
      /\ mixed' = (mixed \/ \E v \in Writers : apc[v] \in {"stamped", "read"})
  BY DEF A!Stamp
<1> DEFINE d == [id |-> w, type |-> type, at |-> t, outcome |-> outcome,
                 prev |-> A!NoHash, hash |-> A!NoHash]
<1>3. /\ apc'[w] = "stamped" /\ draft'[w] = d /\ DOMAIN draft' = Writers
      /\ apc' \in [Writers -> {"idle", "stamped", "read", "done"}]
      /\ \A v \in Writers : v # w => apc'[v] = apc[v] /\ draft'[v] = draft[v]
  BY <1>1, <1>2 DEF A!ChainInv, A!TypeOK
<1>4. A!IsEvent(d) /\ d.id = w
  BY DEF A!IsEvent
<1> HIDE DEF d
<1>5. A!TypeOK'
  <2>1. mixed' \in BOOLEAN
    <3>1. mixed \in BOOLEAN
      BY DEF A!ChainInv, A!TypeOK
    <3>2. QED
      BY <1>2, <3>1, Zenon
  <2>2. \A v \in Writers : apc'[v] # "idle" => A!IsEvent(draft'[v]) /\ draft'[v].id = v
    BY <1>3, <1>4 DEF A!ChainInv, A!TypeOK
  <2>3. QED
    BY <1>2, <1>3, <2>1, <2>2 DEF A!ChainInv, A!TypeOK, A!IsEvent
<1>6. A!RowsFit' /\ A!Hashed'
  <2>1. \A v \in Writers : /\ apc'[v] = "done" <=> apc[v] = "done"
                           /\ apc'[v] \in {"read", "done"} => v # w /\ apc[v] = apc'[v]
                           /\ apc'[v] \in {"read", "done"} => draft'[v] = draft[v]
    BY <1>2, <1>3
  <2>2. \A v \in Writers : (apc'[v] = "done" <=> apc[v] = "done")
                            /\ (apc[v] = "done" => draft'[v] = draft[v])
    BY <2>1
  <2>3. A!RowsFit'
    BY <1>2, <2>2 DEF A!ChainInv, A!RowsFit
  <2>4. A!Hashed'
    BY <2>1 DEF A!ChainInv, A!Hashed, A!Material
  <2>5. QED
    BY <2>3, <2>4
<1>7. A!InTurn'
  <2>1. SUFFICES ASSUME ~mixed' PROVE A!InTurn'
    BY DEF A!InTurn
  <2>2. ~mixed /\ \A v \in Writers : apc[v] \notin {"stamped", "read"}
    BY <1>2, <2>1
  <2>3. \A v \in Writers : (A!Open(v)' => v = w) /\ apc'[v] # "read"
    BY <1>3, <2>2 DEF A!Open
  <2>4. IF behind THEN \E x, e \in events : A!Before(x, e) /\ x.prev = e.hash ELSE A!Verify(events)
    BY <2>2 DEF A!ChainInv, A!InTurn
  <2>5. QED
    BY <1>2, <2>3, <2>4 DEF A!InTurn, A!Verify, A!Before
<1>8. QED
  BY <1>5, <1>6, <1>7 DEF A!ChainInv

LEMMA HashAdded ==
    ASSUME NEW e, A!IsEvent(e), NEW p, NEW m
    PROVE  [e EXCEPT !.prev = p, !.hash = m]
           = [id |-> e.id, type |-> e.type, at |-> e.at, outcome |-> e.outcome, prev |-> p, hash |-> m]
<1> DEFINE i == e.id  t == e.type  a == e.at  o == e.outcome  x == e.prev  y == e.hash
           R == [id : {i}, type : {t}, at : {a}, outcome : {o}, prev : {x, p}, hash : {y, m}]
           q == [id |-> i, type |-> t, at |-> a, outcome |-> o, prev |-> p, hash |-> m]
           d == [e EXCEPT !.prev = p, !.hash = m]
<1>1. e = [id |-> i, type |-> t, at |-> a, outcome |-> o, prev |-> x, hash |-> y]
  BY DEF A!IsEvent
<1> HIDE DEF i, t, a, o, x, y
<1>2. e \in R /\ q \in R
  BY <1>1
<1>3. q.id = i /\ q.type = t /\ q.at = a /\ q.outcome = o /\ q.prev = p /\ q.hash = m
  OBVIOUS
<1> HIDE DEF q
<1>4. d \in R /\ d.prev = p /\ d.hash = m
  BY <1>2
<1> HIDE DEF d
<1>5. d = q
  BY <1>2, <1>3, <1>4
<1>6. QED
  BY <1>5 DEF d, q, i, t, a, o

\* An append reads the last hash and computes its own.
LEMMA ReadLastKeeps ==
    ASSUME A!ChainInv, NEW w \in Writers, A!ReadLast(w)
    PROVE  A!ChainInv'
<1> DEFINE p == A!Previous(events)
           m == A!Material(p, draft[w])
           d == [draft[w] EXCEPT !.prev = p, !.hash = m]
<1>1. /\ apc[w] = "stamped" /\ apc' = [apc EXCEPT ![w] = "read"]
      /\ UNCHANGED <<events, mixed, behind>> /\ draft' = [draft EXCEPT ![w] = d]
  BY DEF A!ReadLast
<1>2. A!IsEvent(draft[w]) /\ draft[w].id = w
  BY <1>1 DEF A!ChainInv, A!TypeOK
<1> HIDE DEF p, m
<1>3. d = [id |-> draft[w].id, type |-> draft[w].type, at |-> draft[w].at,
           outcome |-> draft[w].outcome, prev |-> p, hash |-> m]
  BY <1>2, HashAdded, Zenon
<1> HIDE DEF d
<1>4. /\ d.id = draft[w].id /\ d.type = draft[w].type /\ d.at = draft[w].at
      /\ d.outcome = draft[w].outcome /\ d.prev = p
      /\ d = [id |-> d.id, type |-> d.type, at |-> d.at, outcome |-> d.outcome,
              prev |-> d.prev, hash |-> d.hash]
  BY <1>3
<1>5. d.hash = A!Material(p, d)
  <2>1. d.hash = m
    BY <1>3
  <2>2. QED
    BY <1>4, <2>1 DEF A!Material, m
<1>6. A!IsEvent(d)
  BY <1>2, <1>4 DEF A!IsEvent
<1>7. /\ apc'[w] = "read" /\ draft'[w] = d /\ DOMAIN draft' = Writers
      /\ apc' \in [Writers -> {"idle", "stamped", "read", "done"}]
      /\ \A v \in Writers : v # w => apc'[v] = apc[v] /\ draft'[v] = draft[v]
  BY <1>1 DEF A!ChainInv, A!TypeOK
<1>8. A!TypeOK'
  <2>1. \A v \in Writers : apc'[v] # "idle" => A!IsEvent(draft'[v]) /\ draft'[v].id = v
    BY <1>2, <1>4, <1>6, <1>7 DEF A!ChainInv, A!TypeOK
  <2>2. QED
    BY <1>1, <1>7, <2>1 DEF A!ChainInv, A!TypeOK, A!IsEvent
<1>9. A!RowsFit' /\ A!Hashed'
  <2>1. \A v \in Writers : (apc'[v] = "done" <=> apc[v] = "done")
                            /\ (apc[v] = "done" => draft'[v] = draft[v])
    BY <1>1, <1>7
  <2>2. A!RowsFit'
    BY <1>1, <2>1 DEF A!ChainInv, A!RowsFit
  <2>3. A!Hashed'
    BY <1>4, <1>5, <1>7 DEF A!ChainInv, A!Hashed, A!Material
  <2>4. QED
    BY <2>2, <2>3
<1>10. A!InTurn'
  <2>1. SUFFICES ASSUME ~mixed PROVE A!InTurn'
    BY <1>1 DEF A!InTurn
  <2>2. \A v \in Writers : A!Open(v)' <=> A!Open(v)
    BY <1>1, <1>7 DEF A!Open
  <2>3. A!Open(w) /\ \A v \in Writers : A!Open(v) => v = w
    BY <1>1, <2>1 DEF A!Open, A!ChainInv, A!InTurn
  <2>4. \A v \in Writers : apc'[v] = "read" => v = w
    BY <2>2, <2>3 DEF A!Open
  <2>5. draft'[w].prev = A!Previous(events)
    BY <1>4, <1>7 DEF p
  <2>6. IF behind THEN \E x, e \in events : A!Before(x, e) /\ x.prev = e.hash ELSE A!Verify(events)
    BY <2>1 DEF A!ChainInv, A!InTurn
  <2>7. QED
    BY <1>1, <2>2, <2>3, <2>4, <2>5, <2>6 DEF A!InTurn, A!Verify, A!Before
<1>11. QED
  BY <1>8, <1>9, <1>10 DEF A!ChainInv

\* The row is inserted; in turn, it either sorts last or breaks the chain.
LEMMA InsertKeeps ==
    ASSUME A!ChainInv, NEW w \in Writers, A!Insert(w)
    PROVE  A!ChainInv'
<1>0. PICK d \in {draft[w]} : TRUE
  OBVIOUS
<1>1. /\ apc[w] = "read" /\ apc' = [apc EXCEPT ![w] = "done"] /\ events' = events \cup {d}
      /\ behind' = (behind \/ \E e \in events : ~A!Before(e, d)) /\ UNCHANGED <<draft, mixed>>
  BY <1>0 DEF A!Insert
<1>2. /\ apc'[w] = "done" /\ apc' \in [Writers -> {"idle", "stamped", "read", "done"}]
      /\ \A v \in Writers : v # w => apc'[v] = apc[v]
  BY <1>1 DEF A!ChainInv, A!TypeOK
<1>3. A!TypeOK'
  <2>1. behind' \in BOOLEAN
    <3>1. behind \in BOOLEAN
      BY DEF A!ChainInv, A!TypeOK
    <3>2. QED
      BY <1>1, <3>1, Zenon
  <2>2. QED
    BY <1>1, <1>2, <2>1 DEF A!ChainInv, A!TypeOK, A!IsEvent
<1>4. A!RowsFit' /\ A!Hashed'
  BY <1>0, <1>1, <1>2 DEF A!ChainInv, A!RowsFit, A!Hashed, A!Material
<1>5. A!InTurn'
  <2>1. SUFFICES ASSUME ~mixed PROVE A!InTurn'
    BY <1>1 DEF A!InTurn
  <2>2. \A v \in Writers : ~A!Open(v)' /\ apc'[v] # "read"
    BY <1>1, <1>2, <2>1 DEF A!Open, A!ChainInv, A!InTurn
  <2>3. /\ d.prev = A!Previous(events) /\ d.hash = A!Material(A!Previous(events), d)
        /\ IF behind THEN \E x, e \in events : A!Before(x, e) /\ x.prev = e.hash
                     ELSE A!Verify(events)
    BY <1>0, <1>1, <2>1 DEF A!ChainInv, A!InTurn, A!Hashed
  <2>4. d.id \in Nat /\ d.at \in Nat /\ \A e \in events : e.id # d.id
    <3>1. A!IsEvent(d) /\ d.id = w /\ \A e \in events : apc[e.id] = "done"
      BY <1>0, <1>1 DEF A!ChainInv, A!TypeOK, A!RowsFit
    <3>2. d.at \in Nat
      BY <3>1 DEF A!IsEvent
    <3>3. QED
      BY <1>1, <3>1, <3>2, AuditAssumption
  <2>5. Ordered(events) /\ IsFiniteSet(events) /\ Ordered(events')
    <3>1. Ordered(events) /\ IsFiniteSet(events)
      BY EventsAreOrdered DEF A!ChainInv
    <3>2. QED
      BY <1>1, <2>4, <3>1 DEF Ordered
  <2>6. CASE ~behind'
    <3>1. ~behind /\ A!Verify(events) /\ \A e \in events : A!Before(e, d)
      BY <1>1, <2>3, <2>6
    <3>2. \A e \in events : {f \in events' : A!Before(f, e)} = {f \in events : A!Before(f, e)}
      BY <1>1, <2>5, <3>1, OrderIsTotal
    <3>3. {f \in events' : A!Before(f, d)} = events
      BY <1>1, <2>5, <3>1, OrderIsTotal
    <3>4. \A e \in events' :
             /\ e.hash = A!Material(A!Previous({f \in events' : A!Before(f, e)}), e)
             /\ e.prev = A!Previous({f \in events' : A!Before(f, e)})
      BY <1>1, <2>3, <3>1, <3>2, <3>3 DEF A!Verify
    <3>5. A!Verify(events)'
      BY <3>4 DEF A!Verify, A!Previous, A!LastOf, A!Before, A!Material, A!NoHash
    <3>6. QED
      BY <2>2, <2>6, <3>5 DEF A!InTurn
  <2>7. CASE behind'
    <3>1. \E x, e \in events' : A!Before(x, e) /\ x.prev = e.hash
      <4>1. CASE behind
        BY <1>1, <2>3, <4>1
      <4>2. CASE ~behind
        <5>1. PICK e \in events : ~A!Before(e, d)
          BY <1>1, <2>7, <4>2
        <5>2. A!LastOf(events) \in events /\ \A f \in events \ {A!LastOf(events)} : A!Before(f, A!LastOf(events))
          BY <2>5, <5>1, LastExists
        <5>3. d.prev = A!LastOf(events).hash
          BY <2>3, <5>1 DEF A!Previous
        <5>4. A!LastOf(events) # d /\ ~A!Before(A!LastOf(events), d)
          <6>1. e = A!LastOf(events) \/ A!Before(e, A!LastOf(events))
            BY <5>2
          <6>2. d \in events' /\ e \in events' /\ A!LastOf(events) \in events'
            BY <1>1, <5>2
          <6>3. A!LastOf(events) # d
            BY <2>4, <5>2
          <6>4. QED
            BY <2>5, <5>1, <6>1, <6>2, <6>3, OrderIsTotal
        <5>5. A!Before(d, A!LastOf(events))
          BY <1>1, <2>5, <5>2, <5>4, OrderIsTotal
        <5>6. QED
          BY <1>1, <5>2, <5>3, <5>5
      <4>3. QED
        BY <4>1, <4>2
    <3>2. QED
      BY <2>2, <2>7, <3>1 DEF A!InTurn, A!Before
  <2>8. QED
    BY <2>6, <2>7
<1>6. QED
  BY <1>3, <1>4, <1>5 DEF A!ChainInv

LEMMA ChainStep == A!ChainInv /\ [A!Next]_(A!vars) => A!ChainInv'
<1> SUFFICES ASSUME A!ChainInv, [A!Next]_(A!vars) PROVE A!ChainInv'
  OBVIOUS
<1>1. CASE UNCHANGED A!vars
  <2>1. UNCHANGED <<events, apc, draft, mixed, behind>>
    BY <1>1 DEF A!vars
  <2>2. A!TypeOK' /\ A!RowsFit'
    BY <2>1 DEF A!ChainInv, A!TypeOK, A!IsEvent, A!RowsFit
  <2>3. A!Hashed'
    BY <2>1 DEF A!ChainInv, A!Hashed, A!Material
  <2>4. A!InTurn'
    BY <2>1 DEF A!ChainInv, A!InTurn, A!Open, A!Verify, A!Before
  <2>5. QED
    BY <2>2, <2>3, <2>4 DEF A!ChainInv
<1>2. CASE A!Next
  BY <1>2, AppendStarts, ReadLastKeeps, InsertKeeps DEF A!Next
<1>3. QED
  BY <1>1, <1>2

LEMMA ChainComposed == Spec => A!Spec
<1>1. Init => A!Init
  BY DEF Init
<1>2. [Next]_vars => [A!Next]_(A!vars)
  BY DEF Next, vars, avars, A!vars
<1>3. QED
  BY <1>1, <1>2, PTL DEF Spec, A!Spec

LEMMA ChangesAreFound == A!ChainInv => A!ChangeFound
<1> SUFFICES ASSUME A!ChainInv, A!Verify(events) PROVE A!ChangeFound
  BY DEF A!ChangeFound
<1>1. Ordered(events) /\ IsFiniteSet(events) /\ \A e \in events : A!IsEvent(e)
  BY EventsAreOrdered DEF A!ChainInv
<1>2. \A e \in events, type \in Types, outcome \in A!Outcomes :
         <<type, outcome>> # <<e.type, e.outcome>> =>
             ~A!Verify((events \ {e}) \cup {[e EXCEPT !.type = type, !.outcome = outcome]})
  BY <1>1, RewritingIsFound
<1>3. \A e \in events : e # A!LastOf(events) => ~A!Verify(events \ {e})
  BY <1>1, RemovalIsFound
<1>4. QED
  BY <1>2, <1>3 DEF A!ChangeFound

\* Appended to in turn, the chain verifies exactly as long as every event sorts last.
LEMMA SerialIsVerified == A!ChainInv => A!SerialVerifies
<1> SUFFICES ASSUME A!ChainInv, ~mixed PROVE A!Verify(events) <=> ~behind
  BY DEF A!SerialVerifies
<1>1. IF behind THEN \E d, e \in events : A!Before(d, e) /\ d.prev = e.hash ELSE A!Verify(events)
  BY DEF A!ChainInv, A!InTurn
<1>2. Ordered(events) /\ IsFiniteSet(events)
  BY EventsAreOrdered DEF A!ChainInv
<1>3. QED
  BY <1>1, <1>2, BrokenIsFound

\* verify_audit_chain (db.py) accepts a chain that was appended to in turn exactly if every event
\* sorted after the ones before it, whatever the clocks of the appending processes showed; and on
\* a chain it accepts it finds a changed type or outcome, and the removal of any event but the last.
THEOREM ChainIsTelling == Spec => []ChainTells
<1>1. A!ChainInv => A!ChainTells
  BY ChangesAreFound, SerialIsVerified DEF A!ChainTells
<1>2. QED
  BY <1>1, ChainComposed, ChainStart, ChainStep, PTL DEF A!Spec, ChainTells

-----------------------------------------------------------------------------
(* Feedback.                                                                *)

\* The size of a finite set is the same by any name.
LEMMA FeedbackSize ==
    \A Z : F!Cardinality(Z) = Cardinality(Z) /\ (F!IsFiniteSet(Z) <=> IsFiniteSet(Z))
  BY DEF F!Cardinality, Cardinality, F!IsFiniteSet, IsFiniteSet

LEMMA DetectionsAreFinite == IsFiniteSet(Detections)
  BY FeedbackAssumption, FeedbackSize

LEMMA FeedbackStart == F!Init => F!FeedbackInv
  BY FS_EmptySet, FeedbackSize DEF F!Init, F!FeedbackInv, F!TypeOK, F!OneEach

\* A resubmitted label takes the place of the one with its key, or leaves none.
LEMMA LabelKeeps ==
    ASSUME F!FeedbackInv, NEW l \in F!Payloads, F!AddAccuracyFeedback(l)
    PROVE  F!FeedbackInv'
<1> DEFINE Rest == {m \in labels : F!Key(m) # F!Key(l)}
<1>1. PICK counted \in BOOLEAN : labels' = Rest \cup IF counted THEN {l} ELSE {}
  BY DEF F!AddAccuracyFeedback
<1>2. F!Accepted(l) /\ l.run \in present /\ UNCHANGED <<present, reading, view, gone>>
  BY DEF F!AddAccuracyFeedback
<1>3. IsFiniteSet(Rest) /\ Rest \subseteq labels
  BY FS_Subset, FeedbackSize DEF F!FeedbackInv, F!TypeOK
<1>4. \A m \in Rest : F!Key(m) # F!Key(l)
  OBVIOUS
<1>5. labels' \subseteq Rest \cup {l}
  BY <1>1
<1> HIDE DEF Rest
<1>6. IsFiniteSet(labels') /\ labels' \subseteq F!Payloads
  <2>1. IsFiniteSet(Rest \cup {l})
    BY <1>3, FS_AddElement
  <2>2. QED
    BY <2>1, <1>3, <1>5, FS_Subset DEF F!FeedbackInv, F!TypeOK
<1>7. F!OneEach(labels)'
  BY <1>3, <1>4, <1>5 DEF F!FeedbackInv, F!OneEach
<1>8. \A m \in labels' : F!Accepted(m) /\ m.run \in present
  BY <1>2, <1>3, <1>5 DEF F!FeedbackInv
<1>9. F!IsFiniteSet(labels')
  BY <1>6, FeedbackSize
<1>10. QED
  BY <1>2, <1>6, <1>7, <1>8, <1>9 DEF F!FeedbackInv, F!TypeOK, F!OneEach

LEMMA FeedbackStep == F!FeedbackInv /\ [F!Next]_(F!vars) => F!FeedbackInv'
<1> SUFFICES ASSUME F!FeedbackInv, [F!Next]_(F!vars) PROVE F!FeedbackInv'
  OBVIOUS
<1>1. ASSUME NEW r \in F!RunIds, F!DeleteRun(r) PROVE F!FeedbackInv'
  <2>1. labels' = {l \in labels : l.run # r} /\ present' = present \ {r} /\ UNCHANGED <<reading, view>>
    BY <1>1 DEF F!DeleteRun
  <2>2. gone' \in {gone, gone \cup {r}} /\ (reading => gone' = gone \cup {r})
    BY <1>1 DEF F!DeleteRun
  <2>3. F!IsFiniteSet(labels')
    BY <2>1, FS_Subset, FeedbackSize DEF F!FeedbackInv, F!TypeOK
  <2>4. \A l \in view : l.run \in present' \cup gone'
    BY <2>1, <2>2, reading \in BOOLEAN DEF F!FeedbackInv, F!TypeOK
  <2>5. \A l \in labels' : F!Accepted(l) /\ l.run \in present'
    BY <2>1 DEF F!FeedbackInv
  <2>6. QED
    BY <1>1, <2>1, <2>2, <2>3, <2>4, <2>5 DEF F!FeedbackInv, F!TypeOK, F!OneEach
<1>2. CASE F!ReadLabels
  <2>1. view' = labels /\ reading' = TRUE /\ UNCHANGED <<labels, present, gone>>
    BY <1>2 DEF F!ReadLabels
  <2>2. QED
    BY <2>1 DEF F!FeedbackInv, F!TypeOK, F!OneEach
<1>3. CASE F!Answer
  <2>1. view' = {} /\ gone' = {} /\ reading' = FALSE /\ UNCHANGED <<labels, present>> /\ F!IsFiniteSet({})
    BY <1>3, FS_EmptySet, FeedbackSize DEF F!Answer
  <2>2. QED
    BY <2>1 DEF F!FeedbackInv, F!TypeOK, F!OneEach
<1>4. CASE UNCHANGED F!vars
  BY <1>4 DEF F!FeedbackInv, F!TypeOK, F!OneEach, F!vars
<1>5. QED
  BY <1>1, <1>2, <1>3, <1>4, LabelKeeps DEF F!Next

LEMMA FeedbackComposed == Spec => F!Spec
<1>1. Init => F!Init
  BY DEF Init
<1>2. [Next]_vars => [F!Next]_(F!vars)
  BY DEF Next, vars, fvars, F!vars
<1>3. QED
  BY <1>1, <1>2, PTL DEF Spec, F!Spec

\* What a report counts as labelled are the labels of detections.
LEMMA LabelledCount ==
    ASSUME F!FeedbackInv, NEW cats
    PROVE  LET marks == {l \in view : l.category \in cats /\ l.predicted = "DETECTED"}
           IN  IsFiniteSet(marks) /\ F!LabeledDetected(cats) = Cardinality(marks)
<1> DEFINE marks == {l \in view : l.category \in cats /\ l.predicted = "DETECTED"}
           yes  == {l \in view : l.category \in cats /\ l.predicted = "DETECTED" /\ l.actual = "RELEVANT"}
           no   == {l \in view : l.category \in cats /\ l.predicted = "DETECTED" /\ l.actual = "NOT_RELEVANT"}
<1>1. IsFiniteSet(view)
  BY FeedbackSize DEF F!FeedbackInv, F!TypeOK
<1>2. \A l \in view : l.actual \in {"RELEVANT", "NOT_RELEVANT"}
  BY DEF F!FeedbackInv, F!TypeOK, F!Payloads
<1>3. marks = yes \cup no /\ yes \cap no = {}
  BY <1>2
<1>4. IsFiniteSet(marks) /\ IsFiniteSet(yes) /\ IsFiniteSet(no)
  BY <1>1, FS_Subset
<1>5. F!LabeledDetected(cats) = Cardinality(yes) + Cardinality(no)
  BY FeedbackSize DEF F!LabeledDetected, F!Tp, F!Fp, F!Tally
<1> HIDE DEF marks, yes, no
<1>6. Cardinality(marks) = Cardinality(yes) + Cardinality(no)
  <2>1. Cardinality(marks) = Cardinality(yes) + Cardinality(no) - Cardinality({})
    BY <1>3, <1>4, FS_Union
  <2>2. Cardinality(yes) \in Nat /\ Cardinality(no) \in Nat /\ Cardinality({}) = 0
    BY <1>4, FS_CardinalityType, FS_EmptySet
  <2>3. QED
    BY <2>1, <2>2
<1>7. QED
  BY <1>4, <1>5, <1>6 DEF marks

\* A pigeonhole over the runs with labels: as many labels as detections found, no two for one
\* detection, and every labelled run still there, so every detection has its label.
LEMMA CoverageIsComplete ==
    ASSUME F!FeedbackInv, F!Disciplined, gone \cap F!Mentioned = {}, NEW cats,
           F!LabeledDetected(cats) = F!DetectedTotal(cats),
           NEW d \in Detections, d.category \in cats, d.run \in F!Mentioned
    PROVE  F!Labelled(d)
<1> DEFINE marks == {l \in view : l.category \in cats /\ l.predicted = "DETECTED"}
           goals == {e \in F!Found : e.category \in cats}
           of(l) == CHOOSE e \in Detections : F!Of(l, e)
           f     == [l \in marks |-> of(l)]
<1>1. F!Mentioned \subseteq present
  BY DEF F!Mentioned, F!FeedbackInv
<1>2. IsFiniteSet(marks) /\ IsFiniteSet(goals) /\ Cardinality(marks) = Cardinality(goals)
  BY LabelledCount, DetectionsAreFinite, FS_Subset, FeedbackSize DEF F!DetectedTotal, F!Found
<1>3. ASSUME NEW l \in marks
      PROVE  of(l) \in goals /\ F!Of(l, of(l))
  <2>1. \E e \in Detections : F!Of(l, e)
    BY DEF F!FeedbackInv, F!Accepted
  <2>2. of(l) \in Detections /\ F!Of(l, of(l))
    BY <2>1
  <2> HIDE DEF of
  <2>3. l.category = of(l).category
    BY <2>2 DEF F!Disciplined
  <2>4. of(l).run \in F!Mentioned
    BY <2>2 DEF F!Of, F!Mentioned
  <2>5. QED
    BY <1>1, <2>2, <2>3, <2>4 DEF F!Found
<1>4. ASSUME NEW l \in marks, NEW m \in marks, of(l) = of(m)
      PROVE  l = m
  <2>1. F!Of(l, of(l)) /\ F!Of(m, of(l))
    BY <1>3, <1>4
  <2> HIDE DEF of
  <2>2. l.finding = m.finding /\ l.run = m.run
    BY <2>1 DEF F!Of
  <2>3. l.predicted = "DETECTED" /\ m.predicted = "DETECTED" /\ l \in view /\ m \in view
    OBVIOUS
  <2>4. l.reviewer = m.reviewer
    BY <2>2, <2>3 DEF F!Disciplined
  <2> HIDE DEF marks
  <2>5. F!Key(l) = F!Key(m)
    BY <2>2, <2>3, <2>4 DEF F!Key, F!Category
  <2>6. QED
    BY <2>3, <2>5 DEF F!FeedbackInv, F!OneEach
<1>5. f \in Injection(marks, goals)
  <2> HIDE DEF of, marks, goals
  <2>1. QED
    BY <1>3, <1>4 DEF Injection, IsInjective
<1>6. f \in Surjection(marks, goals)
  <2> HIDE DEF f, marks, goals
  <2>1. QED
    BY <1>2, <1>5, FS_Injection
<1>7. d \in goals
  BY <1>1 DEF F!Found
<1>8. PICK l \in marks : f[l] = d
  BY <1>6, <1>7 DEF Surjection
<1>9. F!Of(l, d)
  BY <1>3, <1>8
<1>10. QED
  BY <1>9 DEF F!Labelled

\* The coverage figures of accuracy_metrics and of the workspace mean what they say of the runs
\* that have labels: with one reviewer for each detection and no such run deleted while the
\* report reads, MEASURABLE is never reported with one of their detections unlabelled.
THEOREM CoverageIsTrue == Spec => []SoleReviewerCovers
<1>1. F!FeedbackInv => F!SoleReviewerCovers
  <2> SUFFICES ASSUME F!FeedbackInv, F!Disciplined, gone \cap F!Mentioned = {},
                      NEW d \in Detections, d.run \in F!Mentioned
               PROVE  /\ F!Measurable({d.category}) => F!Labelled(d)
                      /\ F!OverallMeasurable => F!Labelled(d)
    BY DEF F!SoleReviewerCovers
  <2>1. ASSUME NEW cats, F!Measurable(cats), d.category \in cats
        PROVE  F!Labelled(d)
    BY <2>1, CoverageIsComplete DEF F!Measurable
  <2>2. d.run \in present
    BY DEF F!Mentioned, F!FeedbackInv
  <2>3. d.category \in F!Reported
    BY <2>2 DEF F!Reported, F!Found
  <2>4. QED
    BY <2>1, <2>3 DEF F!OverallMeasurable
<1>2. QED
  BY <1>1, FeedbackComposed, FeedbackStart, FeedbackStep, PTL DEF F!Spec, SoleReviewerCovers

-----------------------------------------------------------------------------
(* SchemaInit: concurrent first uses of a database.                         *)

\* Where nobody creates and there is no entry, a caller may become the owner.
LEMMA CallKeeps ==
    ASSUME E!SchemaInv, NEW t \in Threads, E!Call(t)
    PROVE  E!SchemaInv'
<1>1. E!TypeOK'
  BY DEF E!SchemaInv, E!TypeOK, E!Call, E!Go
<1>2. CASE ready
  <2>1. built
    BY <1>2 DEF E!SchemaInv, E!SignalsFollowSchema
  <2>2. epc' = [epc EXCEPT ![t] = "known"] /\ UNCHANGED <<on, current, built>>
    BY <1>2 DEF E!Call, E!Go
  <2>3. QED
    BY <1>1, <2>1, <2>2 DEF E!SchemaInv, E!TypeOK, E!OneCreator, E!OwnerHoldsEntry,
       E!SignalsFollowSchema, E!Creating
<1>3. CASE ~ready /\ current # NoEvent
  <2>1. /\ epc' = [epc EXCEPT ![t] = "waiting"]
        /\ on' = [on EXCEPT ![t] = current]
        /\ UNCHANGED <<current, fired, ready, ddl, built>>
    BY <1>3 DEF E!Call, E!Go
  <2>2. QED
    BY <1>1, <2>1 DEF E!SchemaInv, E!TypeOK, E!OneCreator, E!OwnerHoldsEntry,
       E!SignalsFollowSchema, E!Creating
<1>4. CASE ~ready /\ current = NoEvent
  <2>1. PICK e \in Events \ E!Used :
            /\ epc' = [epc EXCEPT ![t] = "owner"]
            /\ current' = e
            /\ on' = [on EXCEPT ![t] = e]
    BY <1>4 DEF E!Call, E!Go
  <2>2. e # NoEvent
    BY <1>4 DEF E!Used
  <2>3. \A u \in Threads : epc[u] \notin E!Creating
    BY <1>4 DEF E!SchemaInv, E!OwnerHoldsEntry
  <2>4. UNCHANGED <<fired, ready, ddl, built>>
    BY DEF E!Call
  <2>5. QED
    BY <1>1, <2>1, <2>2, <2>3, <2>4 DEF E!SchemaInv, E!TypeOK, E!OneCreator,
       E!OwnerHoldsEntry, E!SignalsFollowSchema, E!Creating
<1>5. QED
  BY <1>2, <1>3, <1>4

\* The owner's own steps, in the order create_schema, _schema_ready, Event.
LEMMA OwnerKeeps ==
    ASSUME E!SchemaInv, NEW t \in Threads, E!Create(t) \/ E!Announce(t) \/ E!Wake(t)
    PROVE  E!SchemaInv'
<1>1. CASE E!Create(t)
  <2>1. built'
    BY <1>1 DEF E!Create, E!SchemaInv, E!SignalsFollowSchema
  <2>2. QED
    BY <1>1, <2>1 DEF E!Create, E!Go, E!SchemaInv, E!TypeOK, E!OneCreator, E!OwnerHoldsEntry,
       E!SignalsFollowSchema, E!Creating
<1>2. ASSUME E!Announce(t) \/ E!Wake(t)
      PROVE  E!SchemaInv'
  <2>1. built /\ built'
    BY <1>2 DEF E!Announce, E!Wake, E!SchemaInv, E!SignalsFollowSchema
  <2>2. E!TypeOK'
    BY <1>2 DEF E!Announce, E!Wake, E!Go, E!SchemaInv, E!TypeOK, E!OwnerHoldsEntry, E!Creating
  <2>3. E!OneCreator' /\ E!OwnerHoldsEntry'
    BY <1>2 DEF E!Announce, E!Wake, E!Go, E!SchemaInv, E!TypeOK, E!OneCreator, E!OwnerHoldsEntry,
       E!Creating
  <2>4. QED
    BY <2>1, <2>2, <2>3 DEF E!SchemaInv, E!SignalsFollowSchema
<1>3. QED
  BY <1>1, <1>2

\* A failed creator gives the entry up; by OneCreator nobody else holds it.
LEMMA FailKeeps ==
    ASSUME E!SchemaInv, NEW t \in Threads, E!Fail(t)
    PROVE  E!SchemaInv'
<1>1. \A u \in Threads : epc'[u] \notin E!Creating
  BY DEF E!Fail, E!Go, E!SchemaInv, E!TypeOK, E!OneCreator, E!Creating
<1>2. QED
  BY <1>1 DEF E!Fail, E!Go, E!SchemaInv, E!TypeOK, E!OneCreator, E!OwnerHoldsEntry,
     E!SignalsFollowSchema

\* A waiter leaves because its Event was set, or because its time is up.
LEMMA WaiterKeeps ==
    ASSUME E!SchemaInv, NEW t \in Threads, E!Woken(t) \/ E!TimesOut(t)
    PROVE  E!SchemaInv'
<1>1. E!Woken(t) => built
  BY DEF E!Woken, E!SchemaInv, E!SignalsFollowSchema
<1>2. QED
  BY <1>1 DEF E!Woken, E!TimesOut, E!Go, E!SchemaInv, E!TypeOK, E!OneCreator, E!OwnerHoldsEntry,
     E!SignalsFollowSchema, E!Creating

LEMMA SchemaInvariance == E!Spec => []E!SchemaInv
<1>1. E!Init => E!SchemaInv
  BY DEF E!Init, E!SchemaInv, E!TypeOK, E!OneCreator, E!OwnerHoldsEntry, E!SignalsFollowSchema,
     E!Creating
<1>2. E!SchemaInv /\ [E!Next]_(E!vars) => E!SchemaInv'
  <2> SUFFICES ASSUME E!SchemaInv, [E!Next]_(E!vars) PROVE E!SchemaInv'
    OBVIOUS
  <2>1. ASSUME NEW t \in Threads, E!Call(t) PROVE E!SchemaInv'
    BY <2>1, CallKeeps
  <2>2. ASSUME NEW t \in Threads, E!Create(t) \/ E!Announce(t) \/ E!Wake(t) PROVE E!SchemaInv'
    BY <2>2, OwnerKeeps
  <2>3. ASSUME NEW t \in Threads, E!Fail(t) PROVE E!SchemaInv'
    BY <2>3, FailKeeps
  <2>4. ASSUME NEW t \in Threads, E!Woken(t) \/ E!TimesOut(t) PROVE E!SchemaInv'
    BY <2>4, WaiterKeeps
  <2>5. CASE E!InitDb
    BY <2>5 DEF E!InitDb, E!SchemaInv, E!TypeOK, E!OneCreator, E!OwnerHoldsEntry,
       E!SignalsFollowSchema
  <2>6. CASE UNCHANGED E!vars
    BY <2>6 DEF E!vars, E!SchemaInv, E!TypeOK, E!OneCreator, E!OwnerHoldsEntry,
       E!SignalsFollowSchema
  <2>7. QED
    BY <2>1, <2>2, <2>3, <2>4, <2>5, <2>6 DEF E!Next
<1>3. QED
  BY <1>1, <1>2, PTL DEF E!Spec

\* The composition takes steps of SchemaInit or leaves its variables alone.
LEMMA SchemaComposed == Spec => E!Spec
<1>1. Init => E!Init
  BY DEF Init
<1>2. [Next]_vars => [E!Next]_(E!vars)
  BY DEF Next, vars, evars, E!vars
<1>3. QED
  BY <1>1, <1>2, PTL DEF Spec, E!Spec

\* The inductive invariant of the first connections, for any number of threads and of failed
\* attempts (db.engine): one creator at a time, and every signal after the schema.
THEOREM SchemaIsSafe == Spec => []SchemaInv
  BY SchemaComposed, SchemaInvariance, PTL DEF SchemaInv

\* Two threads never run create_schema at the same time, failures and retries included.
THEOREM OneCreatorAtATime == Spec => []E!OneCreator
<1>1. E!SchemaInv => E!OneCreator
  BY DEF E!SchemaInv
<1>2. QED
  BY <1>1, SchemaComposed, SchemaInvariance, PTL

\* A thread that did not give up waiting never gets an engine without a schema.
THEOREM WokenHaveSchema == Spec => []E!WokenHasSchema
<1>1. E!SchemaInv => E!WokenHasSchema
  BY DEF E!SchemaInv, E!SignalsFollowSchema, E!WokenHasSchema
<1>2. QED
  BY <1>1, SchemaComposed, SchemaInvariance, PTL

-----------------------------------------------------------------------------
(* HttpShell: one request on its way to its handler.                        *)

LEMMA ShellStart == H!Init => H!ShellInv
<1> SUFFICES ASSUME H!Init PROVE H!ShellInv
  OBVIOUS
<1>1. H!TypeOK
  BY PlatformAssumption DEF H!Init, H!TypeOK
<1>2. H!ReplayAgrees /\ H!SessionWritesChecked
  BY DEF H!Init, H!ReplayAgrees, H!SessionWritesChecked
<1>3. QED
  BY <1>1, <1>2 DEF H!ShellInv

\* replay(): whole events of ReadSize bytes, the rest, then the server's own.
LEMMA ReadKeeps ==
    ASSUME H!ShellInv, H!Read
    PROVE  H!ShellInv'
<1> USE PlatformAssumption
<1>1. /\ size \in Nat /\ replayed \in Nat /\ given \in Nat /\ finals \in Nat /\ passed \in Nat
      /\ UNCHANGED <<hreq, path, at, size, status, full>> /\ at = "handler"
  BY DEF H!ShellInv, H!TypeOK, H!Read
<1>2. CASE replayed >= size /\ replayed > 0
  <2>1. passed' = passed + 1 /\ UNCHANGED <<replayed, given, finals>>
    BY <1>2 DEF H!Read, H!Replay
  <2>2. finals = 1
    BY <1>1, <1>2 DEF H!ShellInv, H!ReplayAgrees
  <2>3. H!ReplayAgrees'
    BY <1>1, <2>1, <2>2 DEF H!ShellInv, H!ReplayAgrees
  <2>4. QED
    BY <1>1, <2>1, <2>3 DEF H!ShellInv, H!TypeOK, H!SessionWritesChecked, H!Principal
<1>3. CASE ~(replayed >= size /\ replayed > 0)
  <2> DEFINE n == IF size - replayed < ReadSize THEN size - replayed ELSE ReadSize
  <2>1. /\ given' = given + n /\ passed' = passed
        /\ finals' = IF replayed + n < size THEN finals ELSE finals + 1
        /\ replayed' = IF size = 0 THEN 1 ELSE replayed + n
    BY <1>3 DEF H!Read, H!Replay
  <2>2. replayed <= size /\ given = replayed /\ finals = 0 /\ passed = 0
    BY <1>1, <1>3 DEF H!ShellInv, H!ReplayAgrees
  <2>3. n \in Nat /\ replayed + n <= size
    BY <1>1, <2>2
  <2> HIDE DEF n
  <2>4. H!ReplayAgrees'
    BY <1>1, <2>1, <2>2, <2>3 DEF H!ReplayAgrees
  <2>5. replayed' \in Nat /\ given' \in Nat /\ finals' \in Nat /\ passed' \in Nat
    BY <1>1, <2>1, <2>3
  <2>6. QED
    BY <1>1, <2>4, <2>5 DEF H!ShellInv, H!TypeOK, H!SessionWritesChecked, H!Principal
<1>4. QED
  BY <1>2, <1>3

\* request_guards: what reaches the handler has passed every guard.
LEMMA GuardsKeep ==
    ASSUME H!ShellInv, H!Guards
    PROVE  H!ShellInv'
<1>1. /\ UNCHANGED <<hreq, path, size, replayed, given, finals, passed, full>>
      /\ at = "guards" /\ at' \in {"handler", "answered"}
  BY DEF H!Guards, H!Answer
<1>2. at' = "handler" => ~H!CsrfRefuses /\ ~H!IdempotencyRefuses
  BY DEF H!Guards, H!Answer
<1>3. H!TypeOK' /\ H!ReplayAgrees'
  BY <1>1 DEF H!ShellInv, H!TypeOK, H!ReplayAgrees
<1>4. H!SessionWritesChecked'
  <2> SUFFICES ASSUME at' = "handler", hreq.method \in H!WRITE_METHODS
               PROVE  /\ H!Principal = "session" => hreq.csrf = "same"
                      /\ path # "static" => ~hreq.idempotency
    BY <1>1 DEF H!SessionWritesChecked, H!Principal
  <2>1. hreq.method \notin H!SAFE_METHODS
    BY DEF H!WRITE_METHODS, H!SAFE_METHODS
  <2>2. QED
    BY <1>2, <2>1 DEF H!CsrfRefuses, H!AuthenticatedByCookie, H!IdempotencyRefuses, H!Principal
<1>5. QED
  BY <1>3, <1>4 DEF H!ShellInv

LEMMA ShellStep == H!ShellInv /\ [H!Next]_(H!vars) => H!ShellInv'
<1> SUFFICES ASSUME H!ShellInv, [H!Next]_(H!vars) PROVE H!ShellInv'
  OBVIOUS
<1> USE PlatformAssumption
<1>1. ASSUME NEW n \in 0 .. MaxBytes, NEW more \in BOOLEAN, H!Receive(n, more) PROVE H!ShellInv'
  <2>1. /\ UNCHANGED <<hreq, path, replayed, given, finals, passed, full>>
        /\ at = "receiving" /\ at' \in {"receiving", "alias", "answered"}
        /\ size' \in 0 .. MaxBytes
    BY <1>1 DEF H!Receive, H!Answer, H!ShellInv, H!TypeOK
  <2>2. replayed = 0 /\ given = 0 /\ finals = 0 /\ passed = 0
    BY <2>1 DEF H!ShellInv, H!ReplayAgrees
  <2>3. H!ReplayAgrees'
    BY <2>1, <2>2 DEF H!ReplayAgrees
  <2>4. QED
    BY <2>1, <2>3 DEF H!ShellInv, H!TypeOK, H!SessionWritesChecked
<1>2. CASE H!Declared \/ H!GiveUp \/ H!Alias
  <2>1. /\ UNCHANGED <<hreq, size, replayed, given, finals, passed, full>>
        /\ at \notin {"handler", "answered"}
        /\ at' \in {"receiving", "alias", "guards", "answered"}
    BY <1>2 DEF H!Declared, H!GiveUp, H!Alias, H!Answer
  <2>2. QED
    BY <2>1 DEF H!ShellInv, H!TypeOK, H!ReplayAgrees, H!SessionWritesChecked
<1>3. CASE H!Finish
  BY <1>3 DEF H!Finish, H!Answer, H!ShellInv, H!TypeOK, H!ReplayAgrees, H!SessionWritesChecked
<1>4. CASE UNCHANGED H!vars
  BY <1>4 DEF H!vars, H!ShellInv, H!TypeOK, H!ReplayAgrees, H!SessionWritesChecked, H!Principal
<1>5. QED
  BY <1>1, <1>2, <1>3, <1>4, ReadKeeps, GuardsKeep DEF H!Next

LEMMA ShellComposed == Spec => H!Spec
<1>1. Init => H!Init
  BY DEF Init
<1>2. [Next]_vars => [H!Next]_(H!vars)
  BY DEF Next, vars, hvars, H!vars
<1>3. QED
  BY <1>1, <1>2, PTL DEF Spec, H!Spec

\* A handler gets the body once and whole, and a write under a session only with the
\* double-submit token, for every size of body, limit and event (RequestBudgetMiddleware,
\* request_guards).
THEOREM RequestsAreHeld == Spec => []RequestHeld
<1>1. H!ShellInv => H!RequestHeld
  BY PlatformAssumption DEF H!ShellInv, H!TypeOK, H!ReplayAgrees, H!RequestHeld, H!BodyOnce
<1>2. QED
  BY <1>1, ShellComposed, ShellStart, ShellStep, PTL DEF H!Spec, RequestHeld

-----------------------------------------------------------------------------
(* Backup: backups of a running system.                                     *)

LEMMA BackupStart == B!Init => B!BackupInv
<1> SUFFICES ASSUME B!Init PROVE B!BackupInv
  OBVIOUS
<1>1. B!NoBackup \in B!Directory
  BY DEF B!NoBackup, B!Directory, B!FileState
<1>2. B!TypeOK
  BY <1>1 DEF B!Init, B!TypeOK, B!FileState, B!Stopped
<1>3. \A b \in Backups : backup[b].stage = "none"
  BY DEF B!Init, B!NoBackup
<1>4. restore.at = "idle"
  BY DEF B!Init, B!Stopped
<1>5. QED
  BY <1>2, <1>3, <1>4 DEF B!BackupInv, B!BackupsHold, B!RestoreHolds, B!RestoredWhole, B!Verify,
     B!ListedValid

\* Files come whole before their row and go after it.
LEMMA SystemKeeps ==
    ASSUME B!BackupInv, NEW r \in Runs, B!WriteFile(r) \/ B!InsertRow(r) \/ B!RemoveFile(r)
    PROVE  B!BackupInv'
<1>1. restore.at = "idle" /\ rows \subseteq Runs /\ UNCHANGED <<backup, restore>>
  BY DEF B!BackupInv, B!TypeOK, B!WriteFile, B!InsertRow, B!RemoveFile, B!Running
<1>2. B!TypeOK'
  BY <1>1 DEF B!BackupInv, B!TypeOK, B!WriteFile, B!InsertRow, B!RemoveFile, B!FileState
<1>3. \A x \in Runs : x \in rows /\ files[x] = "whole" => x \in rows' /\ files'[x] = "whole"
  BY <1>1 DEF B!BackupInv, B!TypeOK, B!WriteFile, B!InsertRow, B!RemoveFile
<1>4. B!BackupsHold'
  <2>1. \A b \in Backups : backup[b].db \subseteq Runs
    BY DEF B!BackupInv, B!TypeOK, B!Directory
  <2>2. QED
    BY <1>1, <1>3, <2>1 DEF B!BackupInv, B!BackupsHold, B!Verify
<1>5. B!RestoreHolds' /\ B!RestoredWhole'
  BY <1>1 DEF B!BackupInv, B!RestoreHolds, B!RestoredWhole, B!ListedValid
<1>6. QED
  BY <1>2, <1>4, <1>5 DEF B!BackupInv

\* One backup directory takes a step that keeps what is asked of it.
LEMMA DirectoryMoves ==
    ASSUME B!BackupInv, NEW b \in Backups, NEW d \in B!Directory,
           backup' = [backup EXCEPT ![b] = d], UNCHANGED <<rows, files, restore>>,
           d.stage \in {"database", "listed"} =>
               \A r \in d.db \ d.gone : r \in rows /\ files[r] = "whole",
           d.stage = "listed" => \A r \in d.db \ d.gone : r \in d.todo \/ d.zip[r] = "whole",
           d.stage = "complete" /\ d.intact => \A r \in d.db \ d.gone : d.zip[r] = "whole",
           restore.at # "idle" => backup[b].stage \in B!Making /\ d.stage \notin B!Making
    PROVE  B!BackupInv'
<1>1. backup'[b] = d /\ \A c \in Backups : c # b => backup'[c] = backup[c]
  BY DEF B!BackupInv, B!TypeOK
<1>2. B!TypeOK'
  BY DEF B!BackupInv, B!TypeOK
<1>3. B!BackupsHold'
  BY <1>1 DEF B!BackupInv, B!BackupsHold, B!Verify
<1>4. restore.at = "idle"
  BY DEF B!BackupInv, B!RestoreHolds
<1>5. B!RestoreHolds'
  BY <1>4 DEF B!RestoreHolds
<1>6. B!RestoredWhole'
  BY <1>3, <1>4 DEF B!RestoredWhole, B!BackupsHold, B!Verify, B!ListedValid
<1>7. QED
  BY <1>2, <1>3, <1>5, <1>6 DEF B!BackupInv

LEMMA DeleteRowKeeps ==
    ASSUME B!BackupInv, NEW r \in Runs, B!DeleteRow(r)
    PROVE  B!BackupInv'
<1>1. /\ restore.at = "idle" /\ rows \subseteq Runs /\ UNCHANGED <<files, restore>>
      /\ rows' = rows \ {r}
      /\ backup' = [b \in Backups |-> IF backup[b].stage \in {"database", "listed"}
                                      THEN [backup[b] EXCEPT !.gone = @ \cup {r}] ELSE backup[b]]
  BY DEF B!BackupInv, B!TypeOK, B!DeleteRow, B!Running
<1>2. ASSUME NEW b \in Backups
      PROVE  /\ backup'[b] \in B!Directory /\ backup'[b].stage = backup[b].stage
             /\ backup'[b].db = backup[b].db /\ backup'[b].todo = backup[b].todo
             /\ backup'[b].zip = backup[b].zip /\ backup'[b].intact = backup[b].intact
             /\ backup'[b].valid = backup[b].valid
             /\ backup'[b].gone = IF backup[b].stage \in {"database", "listed"}
                                  THEN backup[b].gone \cup {r} ELSE backup[b].gone
  <2>1. backup[b] \in B!Directory
    BY DEF B!BackupInv, B!TypeOK
  <2>2. backup'[b] = IF backup[b].stage \in {"database", "listed"}
                     THEN [backup[b] EXCEPT !.gone = backup[b].gone \cup {r}] ELSE backup[b]
    BY <1>1
  <2>3. QED
    BY <2>1, <2>2 DEF B!Directory
<1>3. B!TypeOK'
  <2>1. backup' \in [Backups -> B!Directory]
    BY <1>1, <1>2
  <2>2. QED
    BY <1>1, <2>1 DEF B!BackupInv, B!TypeOK
<1>4. B!BackupsHold'
  BY <1>1, <1>2 DEF B!BackupInv, B!BackupsHold, B!Verify
<1>5. B!RestoreHolds'
  BY <1>1 DEF B!RestoreHolds
<1>6. B!RestoredWhole'
  BY <1>1, <1>4 DEF B!RestoredWhole, B!BackupsHold, B!Verify, B!ListedValid
<1>7. QED
  BY <1>3, <1>4, <1>5, <1>6 DEF B!BackupInv

\* create_backup, step by step, beside the running system.
LEMMA CreateBackupKeeps ==
    ASSUME B!BackupInv, NEW b \in Backups,
           \/ B!NewBackupDir(b) \/ B!CopyDatabase(b) \/ B!ListUploads(b) \/ B!WriteManifest(b)
           \/ B!CreateFails(b)
    PROVE  B!BackupInv'
<1>1. backup[b] \in B!Directory /\ backup \in [Backups -> B!Directory] /\ UNCHANGED <<rows, files, restore>>
  BY DEF B!BackupInv, B!TypeOK, B!NewBackupDir, B!CopyDatabase, B!ListUploads, B!WriteManifest,
     B!CreateFails
<1>2. ASSUME NEW st \in {"directory", "failed", "complete"}
      PROVE  LET d == [backup[b] EXCEPT !.stage = st] IN
             /\ d \in B!Directory /\ d.stage = st /\ d.db = backup[b].db /\ d.zip = backup[b].zip
             /\ d.gone = backup[b].gone /\ d.intact = backup[b].intact
  BY <1>1 DEF B!Directory
<1>3. CASE B!NewBackupDir(b) \/ B!CreateFails(b)
  <2>1. PICK st \in {"directory", "failed"} :
            /\ backup' = [backup EXCEPT ![b] = [backup[b] EXCEPT !.stage = st]]
            /\ restore.at # "idle" => st = "failed" /\ backup[b].stage \in B!Making
    BY <1>1, <1>3 DEF B!NewBackupDir, B!CreateFails, B!Running, B!Making
  <2> DEFINE d == [backup[b] EXCEPT !.stage = st]
  <2>2. d \in B!Directory /\ d.stage = st
    BY <1>2
  <2> HIDE DEF d
  <2>3. QED
    BY <1>1, <2>1, <2>2, DirectoryMoves DEF d, B!Making
<1>4. CASE B!WriteManifest(b)
  <2> DEFINE d == [backup[b] EXCEPT !.stage = "complete"]
  <2>1. backup' = [backup EXCEPT ![b] = d] /\ restore.at = "idle"
    BY <1>1, <1>4 DEF B!WriteManifest, B!Running
  <2>2. d \in B!Directory /\ d.stage = "complete" /\ d.db = backup[b].db /\ d.zip = backup[b].zip
        /\ d.gone = backup[b].gone
    BY <1>2
  <2>3. \A r \in backup[b].db \ backup[b].gone : backup[b].zip[r] = "whole"
    BY <1>4 DEF B!WriteManifest, B!BackupInv, B!BackupsHold
  <2> HIDE DEF d
  <2>4. QED
    BY <1>1, <2>1, <2>2, <2>3, DirectoryMoves
<1>5. CASE B!CopyDatabase(b)
  <2> DEFINE g == {r \in rows : files[r] # "whole"}
             d == [backup[b] EXCEPT !.stage = "database", !.db = rows, !.gone = g]
  <2>1. restore.at = "idle" /\ rows \subseteq Runs
    BY <1>5 DEF B!CopyDatabase, B!Running, B!BackupInv, B!TypeOK
  <2>2. backup' = [backup EXCEPT ![b] = d]
    BY <1>1, <1>5 DEF B!CopyDatabase
  <2>3. g \subseteq Runs /\ \A r \in rows \ g : files[r] = "whole"
    BY <2>1
  <2> HIDE DEF g
  <2>4. d \in B!Directory /\ d.stage = "database" /\ d.db = rows /\ d.gone = g
    BY <1>1, <2>1, <2>3 DEF B!Directory
  <2> HIDE DEF d
  <2>5. QED
    BY <1>1, <2>1, <2>2, <2>3, <2>4, DirectoryMoves
<1>6. CASE B!ListUploads(b)
  <2> DEFINE l == {r \in Runs : files[r] # "absent"}
             d == [backup[b] EXCEPT !.stage = "listed", !.todo = l]
  <2>1. restore.at = "idle" /\ backup[b].stage = "database"
    BY <1>6 DEF B!ListUploads, B!Running
  <2>2. backup' = [backup EXCEPT ![b] = d]
    BY <1>1, <1>6 DEF B!ListUploads
  <2>3. l \subseteq Runs /\ \A r \in Runs : files[r] = "whole" => r \in l
    OBVIOUS
  <2> HIDE DEF l
  <2>4. /\ d \in B!Directory /\ d.stage = "listed" /\ d.todo = l /\ d.db = backup[b].db
        /\ d.gone = backup[b].gone /\ d.db \subseteq Runs
    BY <1>1, <2>3 DEF B!Directory
  <2> HIDE DEF d
  <2>5. \A r \in d.db \ d.gone : r \in rows /\ files[r] = "whole" /\ r \in d.todo
    BY <2>1, <2>3, <2>4 DEF B!BackupInv, B!BackupsHold
  <2>6. QED
    BY <1>1, <2>1, <2>2, <2>4, <2>5, DirectoryMoves
<1>7. QED
  BY <1>3, <1>4, <1>5, <1>6

\* A listed original is archived as it is now: whole, unless its run is being deleted.
LEMMA ArchiveUploadKeeps ==
    ASSUME B!BackupInv, NEW b \in Backups, NEW x \in Runs, B!ArchiveUpload(b, x)
    PROVE  B!BackupInv'
<1>1. /\ backup[b] \in B!Directory /\ backup \in [Backups -> B!Directory]
      /\ UNCHANGED <<rows, files, restore>> /\ restore.at = "idle" /\ backup[b].stage = "listed"
  BY DEF B!BackupInv, B!TypeOK, B!ArchiveUpload, B!Running
<1>2. CASE files[x] = "absent"
  <2> DEFINE d == [backup[b] EXCEPT !.stage = "failed"]
  <2>1. backup' = [backup EXCEPT ![b] = d]
    BY <1>1, <1>2 DEF B!ArchiveUpload
  <2>2. d \in B!Directory /\ d.stage = "failed"
    BY <1>1 DEF B!Directory
  <2> HIDE DEF d
  <2>3. QED
    BY <1>1, <2>1, <2>2, DirectoryMoves
<1>3. CASE files[x] # "absent"
  <2> DEFINE z == [backup[b].zip EXCEPT ![x] = files[x]]
             l == backup[b].todo \ {x}
             d == [backup[b] EXCEPT !.todo = l, !.zip = z]
  <2>1. backup' = [backup EXCEPT ![b] = d]
    BY <1>1, <1>3 DEF B!ArchiveUpload, B!Directory
  <2>2. /\ z \in [Runs -> B!FileState] /\ l \subseteq Runs /\ z[x] = files[x]
        /\ \A r \in Runs : r # x => z[r] = backup[b].zip[r]
    BY <1>1 DEF B!Directory, B!BackupInv, B!TypeOK
  <2>3. \A r \in backup[b].todo : r = x \/ r \in l
    OBVIOUS
  <2> HIDE DEF z, l
  <2>4. /\ d \in B!Directory /\ d.stage = "listed" /\ d.todo = l /\ d.zip = z
        /\ d.db = backup[b].db /\ d.gone = backup[b].gone /\ d.db \subseteq Runs
    BY <1>1, <2>2 DEF B!Directory
  <2> HIDE DEF d
  <2>5. \A r \in d.db \ d.gone : r \in rows /\ files[r] = "whole"
    BY <1>1, <2>4 DEF B!BackupInv, B!BackupsHold
  <2>6. \A r \in d.db \ d.gone : r \in d.todo \/ d.zip[r] = "whole"
    BY <1>1, <2>2, <2>3, <2>4, <2>5 DEF B!BackupInv, B!BackupsHold
  <2>7. QED
    BY <1>1, <2>1, <2>4, <2>5, <2>6, DirectoryMoves
<1>4. QED
  BY <1>2, <1>3

\* The medium fails; a verification is recorded.
LEMMA MediumKeeps ==
    ASSUME B!BackupInv, NEW b \in Backups, B!Damage(b) \/ B!RecordVerification(b)
    PROVE  B!BackupInv'
<1>1. /\ backup[b] \in B!Directory /\ backup \in [Backups -> B!Directory]
      /\ UNCHANGED <<rows, files, restore>> /\ restore.at = "idle"
  BY DEF B!BackupInv, B!TypeOK, B!Damage, B!RecordVerification, B!Running
<1>2. CASE B!Damage(b)
  <2> DEFINE z == [r \in Runs |-> "absent"]
             d == [backup[b] EXCEPT !.intact = FALSE, !.zip = z]
  <2>1. backup' = [backup EXCEPT ![b] = d] /\ backup[b].stage = "complete"
    BY <1>1, <1>2 DEF B!Damage
  <2>2. z \in [Runs -> B!FileState]
    BY DEF B!FileState
  <2> HIDE DEF z
  <2>3. d \in B!Directory /\ d.stage = "complete" /\ ~d.intact
    BY <1>1, <2>1, <2>2 DEF B!Directory
  <2> HIDE DEF d
  <2>4. QED
    BY <1>1, <2>1, <2>3, DirectoryMoves
<1>3. CASE B!RecordVerification(b)
  <2> DEFINE v == B!Verify(b)
             d == [backup[b] EXCEPT !.valid = v]
  <2>1. backup' = [backup EXCEPT ![b] = d]
    BY <1>1, <1>3 DEF B!RecordVerification
  <2>2. v \in BOOLEAN
    <3>1. backup[b].intact \in BOOLEAN
      BY <1>1 DEF B!Directory
    <3>2. QED
      BY <3>1, Zenon DEF B!Verify
  <2> HIDE DEF v
  <2>3. /\ d \in B!Directory /\ d.stage = backup[b].stage /\ d.todo = backup[b].todo
        /\ d.zip = backup[b].zip /\ d.db = backup[b].db /\ d.gone = backup[b].gone
        /\ d.intact = backup[b].intact
    BY <1>1, <2>2 DEF B!Directory
  <2> HIDE DEF d
  <2>4. /\ d.stage \in {"database", "listed"} =>
              \A r \in d.db \ d.gone : r \in rows /\ files[r] = "whole"
        /\ d.stage = "listed" => \A r \in d.db \ d.gone : r \in d.todo \/ d.zip[r] = "whole"
        /\ d.stage = "complete" /\ d.intact => \A r \in d.db \ d.gone : d.zip[r] = "whole"
    BY <2>3 DEF B!BackupInv, B!BackupsHold, B!Verify
  <2>5. QED
    BY <1>1, <2>1, <2>3, <2>4, DirectoryMoves
<1>4. QED
  BY <1>2, <1>3

\* restore_backup, killed and run again any number of times.
LEMMA RestoreKeeps ==
    ASSUME B!BackupInv,
           \/ \E b \in Backups : B!BeginRestore(b)
           \/ B!OpenDatabase \/ B!ReplaceDatabase \/ B!Start \/ B!Killed \/ B!ExtractUploads
    PROVE  B!BackupInv'
<1> DEFINE R == [at : {"idle", "verified", "copying", "replaced", "restored"},
                 from : Backups \cup {None}]
<1>1. restore \in R /\ backup' = backup
  BY DEF B!BackupInv, B!TypeOK, B!BeginRestore, B!OpenDatabase, B!ReplaceDatabase, B!Start, B!Killed,
     B!ExtractUploads
<1>2. ASSUME NEW b \in Backups, B!BeginRestore(b) \/ (B!Killed /\ restore'.from = b) PROVE B!BackupInv'
  <2>1. /\ restore' = [at |-> "verified", from |-> b] /\ B!Verify(b) /\ UNCHANGED <<rows, files>>
        /\ \A c \in Backups : backup[c].stage \notin B!Making
    BY <1>2 DEF B!BeginRestore, B!Killed, B!BackupInv, B!RestoreHolds, B!Making
  <2>2. QED
    BY <1>1, <2>1 DEF B!BackupInv, B!TypeOK, B!BackupsHold, B!RestoreHolds, B!RestoredWhole, B!Verify,
       B!ListedValid
<1>3. CASE B!Killed
  BY <1>2, <1>3 DEF B!Killed
<1>4. CASE B!Start
  <2>1. restore' = [at |-> "idle", from |-> None] /\ UNCHANGED <<rows, files>>
    BY <1>4 DEF B!Start, B!Stopped
  <2>2. QED
    BY <1>1, <2>1 DEF B!BackupInv, B!TypeOK, B!BackupsHold, B!RestoreHolds, B!RestoredWhole, B!Verify,
       B!ListedValid
<1>5. ASSUME B!OpenDatabase \/ B!ReplaceDatabase \/ B!ExtractUploads PROVE B!BackupInv'
  <2>1. /\ restore.at # "idle" /\ restore.from \in Backups /\ B!Verify(restore.from)
        /\ \A c \in Backups : backup[c].stage \notin B!Making
        /\ \A r \in backup[restore.from].db \ backup[restore.from].gone :
              backup[restore.from].zip[r] = "whole"
        /\ backup[restore.from] \in B!Directory
    BY <1>5 DEF B!OpenDatabase, B!ReplaceDatabase, B!ExtractUploads, B!BackupInv, B!RestoreHolds,
       B!BackupsHold, B!TypeOK
  <2>2. PICK w \in {"copying", "replaced", "restored"} : restore' = [restore EXCEPT !.at = w]
    BY <1>5 DEF B!OpenDatabase, B!ReplaceDatabase, B!ExtractUploads
  <2>3. restore' \in R /\ restore'.at = w /\ restore'.from = restore.from
    BY <1>1, <2>2
  <2>4. /\ w = "copying" => rows' = B!Torn /\ files' = files
        /\ w = "replaced" => rows' = backup[restore.from].db /\ files' = files
        /\ w = "restored" =>
              /\ rows' = rows /\ rows = backup[restore.from].db
              /\ files' = [r \in Runs |-> LET z == backup[restore.from].zip[r] IN
                                          IF z = "absent" THEN files[r] ELSE z]
    BY <1>1, <1>5, <2>2, <2>3 DEF B!OpenDatabase, B!ReplaceDatabase, B!ExtractUploads, B!BackupInv,
       B!RestoreHolds
  <2>5. B!TypeOK'
    BY <1>1, <2>1, <2>3, <2>4 DEF B!BackupInv, B!TypeOK, B!Directory
  <2>6. B!BackupsHold'
    BY <1>1, <2>1 DEF B!BackupInv, B!BackupsHold, B!Verify, B!Making
  <2>7. B!RestoreHolds'
    BY <1>1, <2>1, <2>3, <2>4 DEF B!RestoreHolds, B!Verify
  <2>8. w = "restored" => \A r \in rows' \ backup[restore.from].gone : files'[r] = "whole"
    BY <2>1, <2>4 DEF B!Directory
  <2>9. B!RestoredWhole'
    BY <1>1, <2>3, <2>6, <2>8 DEF B!RestoredWhole, B!BackupsHold, B!Verify, B!ListedValid
  <2>10. QED
    BY <2>5, <2>6, <2>7, <2>9 DEF B!BackupInv
<1>6. QED
  BY <1>2, <1>3, <1>4, <1>5

LEMMA BackupStep == B!BackupInv /\ [B!Next]_(B!vars) => B!BackupInv'
<1> SUFFICES ASSUME B!BackupInv, [B!Next]_(B!vars) PROVE B!BackupInv'
  OBVIOUS
<1>1. CASE UNCHANGED B!vars
  BY <1>1 DEF B!vars, B!BackupInv, B!TypeOK, B!BackupsHold, B!RestoreHolds, B!RestoredWhole, B!Verify,
     B!ListedValid
<1>2. CASE B!Next
  BY <1>2, SystemKeeps, DeleteRowKeeps, CreateBackupKeeps, ArchiveUploadKeeps, MediumKeeps, RestoreKeeps
  DEF B!Next
<1>3. QED
  BY <1>1, <1>2

LEMMA BackupComposed == Spec => B!Spec
<1>1. Init => B!Init
  BY DEF Init
<1>2. [Next]_vars => [B!Next]_(B!vars)
  BY DEF Next, vars, bvars, B!vars
<1>3. QED
  BY <1>1, <1>2, PTL DEF Spec, B!Spec

\* After a restore every run that is listed has its whole original, whatever the system did
\* while the backup was made and however often the restore was killed (backup_restore.py).
THEOREM RestoreIsWhole == Spec => []RestoredWhole
<1>1. B!BackupInv => B!RestoredWhole
  BY DEF B!BackupInv
<1>2. QED
  BY <1>1, BackupComposed, BackupStart, BackupStep, PTL DEF B!Spec, RestoredWhole

-----------------------------------------------------------------------------
(* Workbench: comments, remediations and the default project.               *)

LEMMA WorkbenchStart == W!Init => W!WorkbenchInv
  BY PlatformAssumption DEF W!Init, W!Idle, W!WorkbenchInv, W!TypeOK, W!CopiesFit, W!NoOrphans

\* What a handler is about to do is told by its op.
LEMMA KindOfRequest ==
    ASSUME W!TypeOK, NEW h \in Handlers
    PROVE  /\ wreq[h].op = "update" => wreq[h] \in W!Update
           /\ wreq[h].op = "project" => wreq[h] \in W!Patch
  BY DEF W!TypeOK, W!Update, W!Patch

\* A handler begins something else than an update, or ends, and leaves the copies of others alone.
LEMMA OthersStand ==
    ASSUME W!WorkbenchInv, NEW h \in Handlers,
           NEW r \in [op : {"idle", "comment", "remediate", "default"}],
           wreq' = [wreq EXCEPT ![h] = r]
    PROVE  /\ wreq' \in [Handlers -> [op : {"idle", "comment", "remediate", "default"}]
                                      \cup W!Update \cup W!Patch]
           /\ wreq'[h] = r /\ r.op \notin {"update", "project"}
           /\ \A g \in Handlers : g # h => wreq'[g] = wreq[g]
  BY DEF W!WorkbenchInv, W!TypeOK

\* A handler that writes the row ends; the copies of the others stay, and are marked as overtaken
\* when the write changed the row they are copies of.
LEMMA WrittenMarks ==
    ASSUME W!WorkbenchInv, NEW h \in Handlers, NEW op \in {"update", "project"},
           NEW changed \in BOOLEAN, W!Written(h, op, changed)
    PROVE  /\ wreq' \in [Handlers -> [op : {"idle", "comment", "remediate", "default"}]
                                      \cup W!Update \cup W!Patch]
           /\ wreq'[h] = W!Idle /\ W!Idle.op \notin {"update", "project"}
           /\ \A g \in Handlers : g # h =>
                 /\ wreq'[g].op = wreq[g].op
                 /\ wreq'[g].op \in {"update", "project"} => wreq'[g].row = wreq[g].row
                 /\ wreq'[g].op \in {"update", "project"} /\ wreq'[g].since = {} =>
                       wreq[g].since = {} /\ (wreq[g].op = op => ~changed)
<1>1. wreq' = [g \in Handlers |->
                 IF g = h THEN W!Idle
                 ELSE IF wreq[g].op = op /\ changed THEN [wreq[g] EXCEPT !.since = @ \cup {h}]
                 ELSE wreq[g]]
  BY DEF W!Written
<1>2. W!Idle \in [op : {"idle", "comment", "remediate", "default"}] /\ W!Idle.op = "idle"
  BY DEF W!Idle
<1>3. ASSUME NEW g \in Handlers, g # h
      PROVE  /\ wreq'[g] \in [op : {"idle", "comment", "remediate", "default"}] \cup W!Update \cup W!Patch
             /\ wreq'[g].op = wreq[g].op
             /\ wreq'[g].op \in {"update", "project"} => wreq'[g].row = wreq[g].row
             /\ wreq'[g].op \in {"update", "project"} /\ wreq'[g].since = {} =>
                   wreq[g].since = {} /\ (wreq[g].op = op => ~changed)
  <2>1. CASE wreq[g].op = op /\ changed
    <3>1. wreq[g] \in W!Update \cup W!Patch
      BY <2>1, KindOfRequest DEF W!WorkbenchInv
    <3>2. wreq'[g] = [wreq[g] EXCEPT !.since = wreq[g].since \cup {h}]
      BY <1>1, <1>3, <2>1
    <3>3. CASE wreq[g] \in W!Update
      BY <3>2, <3>3 DEF W!Update
    <3>4. CASE wreq[g] \in W!Patch
      BY <3>2, <3>4 DEF W!Patch
    <3>5. QED
      BY <3>1, <3>3, <3>4
  <2>2. CASE ~(wreq[g].op = op /\ changed)
    BY <1>1, <1>3, <2>2 DEF W!WorkbenchInv, W!TypeOK
  <2>3. QED
    BY <2>1, <2>2
<1>4. wreq' \in [Handlers -> [op : {"idle", "comment", "remediate", "default"}]
                             \cup W!Update \cup W!Patch]
  <2>1. \A g \in Handlers : wreq'[g] \in [op : {"idle", "comment", "remediate", "default"}]
                                         \cup W!Update \cup W!Patch
    BY <1>1, <1>2, <1>3
  <2>2. wreq' = [g \in Handlers |-> wreq'[g]]
    BY <1>1
  <2>3. QED
    BY <2>1, <2>2
<1>5. QED
  BY <1>1, <1>2, <1>3, <1>4

\* The handlers that load the run, store a comment, or find no default project.
LEMMA CommentsKeep ==
    ASSUME W!WorkbenchInv, NEW h \in Handlers, W!Load(h) \/ W!AddComment(h) \/ W!FindDefault(h)
    PROVE  W!WorkbenchInv'
<1>1. PICK r \in [op : {"idle", "comment", "remediate", "default"}] : wreq' = [wreq EXCEPT ![h] = r]
  BY DEF W!Load, W!AddComment, W!FindDefault, W!Set, W!Idle
<1>2. UNCHANGED <<run, item, project>> /\ comments' \subseteq Handlers
  BY DEF W!Load, W!AddComment, W!FindDefault, W!WorkbenchInv, W!TypeOK
<1>3. ~run => comments' = {}
  BY DEF W!Load, W!AddComment, W!FindDefault, W!WorkbenchInv, W!NoOrphans
<1>4. QED
  BY <1>1, <1>2, <1>3, OthersStand DEF W!WorkbenchInv, W!TypeOK, W!CopiesFit, W!NoOrphans

LEMMA CreateRemediationKeeps ==
    ASSUME W!WorkbenchInv, NEW h \in Handlers, W!CreateRemediation(h)
    PROVE  W!WorkbenchInv'
<1>1. W!Idle \in [op : {"idle", "comment", "remediate", "default"}] /\ wreq' = [wreq EXCEPT ![h] = W!Idle]
  BY DEF W!CreateRemediation, W!Set, W!Idle
<1>2. UNCHANGED <<run, comments, project>>
  BY DEF W!CreateRemediation
<1>3. CASE UNCHANGED item
  BY <1>1, <1>2, <1>3, OthersStand DEF W!WorkbenchInv, W!TypeOK, W!CopiesFit, W!NoOrphans
<1>4. CASE run /\ item = None /\ item' = [status |-> "OPEN", note |-> ""]
  <2>1. item' \in W!Item
    BY <1>4 DEF W!Item
  <2>2. \A g \in Handlers : wreq[g].op # "update"
    BY <1>4 DEF W!WorkbenchInv, W!CopiesFit
  <2>3. QED
    BY <1>1, <1>2, <1>4, <2>1, <2>2, OthersStand DEF W!WorkbenchInv, W!TypeOK, W!CopiesFit, W!NoOrphans
<1>5. QED
  BY <1>3, <1>4 DEF W!CreateRemediation

\* The read of update_remediation.
LEMMA ReadItemKeeps ==
    ASSUME W!WorkbenchInv, NEW h \in Handlers, W!ReadItem(h)
    PROVE  W!WorkbenchInv'
<1>1. PICK s \in Statuses \cup {None}, n \in Notes \cup {None} :
         wreq' = [wreq EXCEPT ![h] = [op |-> "update", status |-> s, note |-> n, row |-> item,
                                      since |-> {}]]
  BY DEF W!ReadItem, W!Set
<1>2. UNCHANGED <<run, comments, item, project>> /\ item \in W!Item /\ item # None
  BY DEF W!ReadItem, W!WorkbenchInv, W!TypeOK
<1> DEFINE u == [op |-> "update", status |-> s, note |-> n, row |-> item, since |-> {}]
<1>3. u \in W!Update /\ u.op = "update" /\ u.row = item
  BY <1>2 DEF W!Update
<1> HIDE DEF u
<1>4. /\ wreq' \in [Handlers -> [op : {"idle", "comment", "remediate", "default"}]
                                \cup W!Update \cup W!Patch]
      /\ wreq'[h] = u /\ \A g \in Handlers : g # h => wreq'[g] = wreq[g]
  BY <1>1, <1>3 DEF W!WorkbenchInv, W!TypeOK, u
<1>5. QED
  BY <1>2, <1>3, <1>4 DEF W!WorkbenchInv, W!TypeOK, W!CopiesFit, W!NoOrphans

\* The row an update writes is made of what was sent and of the copy.
LEMMA MergedIsRow ==
    ASSUME NEW row \in W!Item, NEW u \in W!Update
    PROVE  W!Merged(row, u) \in W!Item
  BY DEF W!Merged, W!Item, W!Update

\* The write of update_remediation: copies of other updates are marked when the row changes.
LEMMA WriteItemKeeps ==
    ASSUME W!WorkbenchInv, NEW h \in Handlers, W!WriteItem(h)
    PROVE  W!WorkbenchInv'
<1>1. PICK changed \in BOOLEAN : W!Written(h, "update", changed) /\ changed = (item' # item)
  BY DEF W!WriteItem
<1>2. UNCHANGED <<run, comments, project>> /\ wreq[h] \in W!Update
  BY KindOfRequest DEF W!WriteItem, W!WorkbenchInv
<1>3. /\ item' \in W!Item \cup {None}
      /\ item' = None <=> item = None
  <2>1. CASE item = None
    BY <2>1 DEF W!WriteItem
  <2>2. CASE item # None
    <3>1. item' = W!Merged(wreq[h].row, wreq[h]) /\ wreq[h].row \in W!Item
      BY <1>2, <2>2 DEF W!WriteItem, W!Update
    <3>2. item' \in W!Item
      BY <1>2, <3>1, MergedIsRow
    <3>3. QED
      BY <2>2, <3>2, PlatformAssumption
  <2>3. QED
    BY <2>1, <2>2
<1>4. W!TypeOK'
  BY <1>1, <1>2, <1>3, WrittenMarks DEF W!WorkbenchInv, W!TypeOK
<1>5. W!CopiesFit'
  <2> SUFFICES ASSUME NEW g \in Handlers
               PROVE  /\ wreq'[g].op = "update" =>
                            /\ run' => item' # None
                            /\ item' # None /\ wreq'[g].since = {} => wreq'[g].row = item'
                      /\ wreq'[g].op = "project" =>
                            /\ project' # None
                            /\ wreq'[g].since = {} => wreq'[g].row = project'
    BY DEF W!CopiesFit
  <2>1. CASE g = h
    BY <1>1, <2>1, WrittenMarks
  <2>2. CASE g # h
    BY <1>1, <1>2, <1>3, <2>2, WrittenMarks DEF W!WorkbenchInv, W!CopiesFit
  <2>3. QED
    BY <2>1, <2>2
<1>6. QED
  BY <1>2, <1>3, <1>4, <1>5 DEF W!WorkbenchInv, W!NoOrphans

\* delete_run takes the comments and the remediation with the row.
LEMMA DeleteRunKeeps ==
    ASSUME W!WorkbenchInv, W!DeleteRun
    PROVE  W!WorkbenchInv'
<1>1. /\ UNCHANGED <<project, wreq>>
      /\ run' = FALSE /\ comments' = {} /\ item' = None
  BY DEF W!DeleteRun
<1>2. W!TypeOK'
  BY <1>1 DEF W!WorkbenchInv, W!TypeOK
<1>3. QED
  BY <1>1, <1>2 DEF W!WorkbenchInv, W!CopiesFit, W!NoOrphans

LEMMA InsertDefaultKeeps ==
    ASSUME W!WorkbenchInv, NEW h \in Handlers, W!InsertDefault(h)
    PROVE  W!WorkbenchInv'
<1>1. W!Idle \in [op : {"idle", "comment", "remediate", "default"}] /\ wreq' = [wreq EXCEPT ![h] = W!Idle]
  BY DEF W!InsertDefault, W!Set, W!Idle
<1>2. UNCHANGED <<run, comments, item>>
  BY DEF W!InsertDefault
<1>3. /\ project' \in W!Project
      /\ project # None => project' = project
  BY DEF W!InsertDefault, W!Project, W!WorkbenchInv, W!TypeOK
<1>4. QED
  BY <1>1, <1>2, <1>3, OthersStand, PlatformAssumption DEF W!WorkbenchInv, W!TypeOK, W!CopiesFit,
     W!NoOrphans

LEMMA LoadProjectKeeps ==
    ASSUME W!WorkbenchInv, NEW h \in Handlers, W!LoadProject(h)
    PROVE  W!WorkbenchInv'
<1>1. PICK a \in {TRUE, FALSE, None} :
         wreq' = [wreq EXCEPT ![h] = [op |-> "project", archived |-> a, row |-> project, since |-> {}]]
  BY DEF W!LoadProject, W!Set
<1>2. /\ UNCHANGED <<run, comments, item, project>>
      /\ project \in W!Project /\ project # None
  BY DEF W!LoadProject, W!WorkbenchInv, W!TypeOK
<1> DEFINE u == [op |-> "project", archived |-> a, row |-> project, since |-> {}]
<1>3. u \in W!Patch /\ u.op = "project" /\ u.row = project
  BY <1>2 DEF W!Patch
<1> HIDE DEF u
<1>4. /\ wreq' \in [Handlers -> [op : {"idle", "comment", "remediate", "default"}]
                                \cup W!Update \cup W!Patch]
      /\ wreq'[h] = u /\ \A g \in Handlers : g # h => wreq'[g] = wreq[g]
  BY <1>1, <1>3 DEF W!WorkbenchInv, W!TypeOK, u
<1>5. QED
  BY <1>2, <1>3, <1>4 DEF W!WorkbenchInv, W!TypeOK, W!CopiesFit, W!NoOrphans

\* update_project: a copy that the update overtakes is marked, unless the update changes nothing.
LEMMA UpdateProjectKeeps ==
    ASSUME W!WorkbenchInv, NEW h \in Handlers, W!UpdateProject(h)
    PROVE  W!WorkbenchInv'
<1>1. PICK changed \in BOOLEAN : W!Written(h, "project", changed) /\ changed = (project' # project)
  BY DEF W!UpdateProject
<1>2. UNCHANGED <<run, comments, item>> /\ wreq[h] \in W!Patch
  BY KindOfRequest DEF W!UpdateProject, W!WorkbenchInv
<1>3. project' \in W!Project /\ project' # None
  <2>1. project \in W!Project
    BY DEF W!UpdateProject, W!WorkbenchInv, W!TypeOK, W!CopiesFit
  <2>2. project' \in W!Project
    BY <1>2, <2>1 DEF W!UpdateProject, W!Patch, W!Project
  <2>3. QED
    BY <2>2, PlatformAssumption
<1>4. W!TypeOK'
  BY <1>1, <1>2, <1>3, WrittenMarks DEF W!WorkbenchInv, W!TypeOK
<1>5. W!CopiesFit'
  <2> SUFFICES ASSUME NEW g \in Handlers
               PROVE  /\ wreq'[g].op = "update" =>
                            /\ run' => item' # None
                            /\ item' # None /\ wreq'[g].since = {} => wreq'[g].row = item'
                      /\ wreq'[g].op = "project" =>
                            /\ project' # None
                            /\ wreq'[g].since = {} => wreq'[g].row = project'
    BY DEF W!CopiesFit
  <2>1. CASE g = h
    BY <1>1, <2>1, WrittenMarks
  <2>2. CASE g # h
    BY <1>1, <1>2, <1>3, <2>2, WrittenMarks DEF W!WorkbenchInv, W!CopiesFit
  <2>3. QED
    BY <2>1, <2>2
<1>6. QED
  BY <1>2, <1>4, <1>5 DEF W!WorkbenchInv, W!NoOrphans

LEMMA WorkbenchStep == W!WorkbenchInv /\ [W!Next]_(W!vars) => W!WorkbenchInv'
<1> SUFFICES ASSUME W!WorkbenchInv, [W!Next]_(W!vars) PROVE W!WorkbenchInv'
  OBVIOUS
<1>1. CASE UNCHANGED W!vars
  BY <1>1 DEF W!vars, W!WorkbenchInv, W!TypeOK, W!CopiesFit, W!NoOrphans
<1>2. CASE W!Next
  BY <1>2, DeleteRunKeeps, CommentsKeep, CreateRemediationKeeps, ReadItemKeeps, WriteItemKeeps,
     InsertDefaultKeeps, LoadProjectKeeps, UpdateProjectKeeps DEF W!Next
<1>3. QED
  BY <1>1, <1>2

\* Only update_remediation changes a remediation that is there and stays; what it was not sent it
\* writes from its copy, which is the row unless another update overtook it.
LEMMA FieldsStep ==
    ASSUME W!WorkbenchInv, [W!Next]_(W!vars), item # None, item' # None,
           NEW f \in {"status", "note"}, item'[f] # item[f]
    PROVE  \E h \in Handlers :
              /\ wreq[h].op = "update" /\ wreq'[h] = W!Idle
              /\ IF wreq[h][f] = None THEN wreq[h].since # {} ELSE item'[f] = wreq[h][f]
<1>1. PICK h \in Handlers : W!WriteItem(h)
  BY DEF W!Next, W!vars, W!DeleteRun, W!Load, W!AddComment, W!CreateRemediation, W!ReadItem,
     W!FindDefault, W!InsertDefault, W!LoadProject, W!UpdateProject
<1>2. wreq[h].op = "update" /\ wreq'[h] = W!Idle /\ item' = W!Merged(wreq[h].row, wreq[h])
  BY <1>1 DEF W!WriteItem, W!Written
<1>3. item'[f] = IF wreq[h][f] = None THEN wreq[h].row[f] ELSE wreq[h][f]
  <2>1. CASE f = "status"
    BY <1>2, <2>1 DEF W!Merged
  <2>2. CASE f = "note"
    BY <1>2, <2>2 DEF W!Merged
  <2>3. QED
    BY <2>1, <2>2
<1>4. wreq[h].since = {} => wreq[h].row = item
  BY <1>2 DEF W!WorkbenchInv, W!CopiesFit
<1>5. QED
  BY <1>2, <1>3, <1>4

\* Only update_project changes a project that is there; without a request to change the archived
\* state it writes the state of its copy, which is the project's unless an update overtook it.
LEMMA ArchivedStep ==
    ASSUME W!WorkbenchInv, [W!Next]_(W!vars), project # None, project' # project
    PROVE  \E h \in Handlers :
              /\ wreq[h].op = "project" /\ wreq'[h] = W!Idle
              /\ wreq[h].archived # None \/ wreq[h].since # {}
<1>1. PICK h \in Handlers : W!UpdateProject(h)
  BY DEF W!Next, W!vars, W!DeleteRun, W!Load, W!AddComment, W!CreateRemediation, W!ReadItem,
     W!WriteItem, W!FindDefault, W!InsertDefault, W!LoadProject
<1>2. wreq[h].op = "project" /\ wreq'[h] = W!Idle
  BY <1>1 DEF W!UpdateProject, W!Written
<1>3. ASSUME wreq[h].archived = None, wreq[h].since = {} PROVE FALSE
  <2>1. wreq[h].row = project /\ project \in W!Project
    BY <1>2, <1>3 DEF W!WorkbenchInv, W!CopiesFit, W!TypeOK
  <2>2. project' = [project EXCEPT !.archived = project.archived]
    BY <1>1, <1>3, <2>1 DEF W!UpdateProject
  <2>3. QED
    BY <2>1, <2>2 DEF W!Project
<1>4. QED
  BY <1>2, <1>3

LEMMA WorkbenchComposed == Spec => W!Spec
<1>1. Init => W!Init
  BY DEF Init
<1>2. [Next]_vars => [W!Next]_(W!vars)
  BY DEF Next, vars, wvars, W!vars
<1>3. QED
  BY <1>1, <1>2, PTL DEF Spec, W!Spec

\* What users write beside a run is kept as they wrote it, or gone with the run (db.py): no row
\* outlives its run, and a remediation's field or a project's archived state changes on request
\* only, unless the request that changes it read the row before another one was written.
THEOREM WorkIsKept == Spec => WorkKept
<1> DEFINE Field == item # None /\ item' # None =>
                       \A f \in {"status", "note"} : item'[f] # item[f] =>
                           \E h \in Handlers :
                               /\ wreq[h].op = "update" /\ wreq'[h] = W!Idle
                               /\ IF wreq[h][f] = None THEN wreq[h].since # {}
                                  ELSE item'[f] = wreq[h][f]
           Archive == (project # None /\ project' # project) =>
                         \E h \in Handlers :
                             /\ wreq[h].op = "project" /\ wreq'[h] = W!Idle
                             /\ wreq[h].archived # None \/ wreq[h].since # {}
<1>1. W!WorkbenchInv => W!NoOrphans
  BY DEF W!WorkbenchInv
<1>2. W!WorkbenchInv /\ [W!Next]_(W!vars) => [Field]_(W!vars)
  BY FieldsStep
<1>3. W!WorkbenchInv /\ [W!Next]_(W!vars) => [Archive]_(W!vars)
  BY ArchivedStep
<1>4. W!Spec => []W!WorkbenchInv
  BY WorkbenchStart, WorkbenchStep, PTL DEF W!Spec
<1>5. W!Spec => [][Field]_(W!vars) /\ [][Archive]_(W!vars)
  BY <1>2, <1>3, <1>4, PTL DEF W!Spec
<1>6. W!Spec => W!FieldsOnRequest /\ W!ArchivedOnRequest
  BY <1>5 DEF W!FieldsOnRequest, W!ArchivedOnRequest
<1>7. QED
  BY <1>1, <1>4, <1>6, WorkbenchComposed, PTL DEF WorkKept, W!WorkKept

=============================================================================
