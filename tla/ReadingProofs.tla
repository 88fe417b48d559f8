---------------------------- MODULE ReadingProofs ----------------------------
(* Theorems about what is taken in and read: the intake scan, the readers of *)
(* documents and the rules, as components of the composed specification.     *)
EXTENDS MCPipeline, Integers, NaturalsInduction, WellFoundedInduction, TLAPS

-----------------------------------------------------------------------------
(* Sequences and numbers.                                                    *)

LEMMA SeqElement ==
    ASSUME NEW Z, NEW s \in Seq(Z), NEW i \in DOMAIN s
    PROVE  s[i] \in Z /\ i \in 1..Len(s) /\ i \in Nat
  OBVIOUS

LEMMA SeqDomain ==
    ASSUME NEW Z, NEW s \in Seq(Z)
    PROVE  DOMAIN s = 1..Len(s) /\ Len(s) \in Nat
  OBVIOUS

LEMMA SeqMade ==
    ASSUME NEW Z, NEW n \in Nat, NEW s \in [1..n -> Z]
    PROVE  s \in Seq(Z) /\ Len(s) = n
  OBVIOUS

LEMMA SeqAppended ==
    ASSUME NEW Z, NEW s \in Seq(Z), NEW x \in Z
    PROVE  /\ Append(s, x) \in Seq(Z) /\ Len(Append(s, x)) = Len(s) + 1
           /\ DOMAIN Append(s, x) = 1..(Len(s) + 1)
           /\ \A i \in 1..Len(s) : Append(s, x)[i] = s[i]
           /\ Append(s, x)[Len(s) + 1] = x
  OBVIOUS

LEMMA LeastNumber ==
    ASSUME NEW Z, Z \subseteq Nat, Z # {}
    PROVE  \E i \in Z : \A j \in Z : i <= j
<1>1. PICK i \in Z : \A j \in Z : ~(<<j, i>> \in OpToRel(<, Nat))
  BY NatLessThanWellFounded, WFMin
<1>2. \A j \in Z : ~(j < i)
  BY <1>1 DEF OpToRel
<1>3. QED
  BY <1>2

-----------------------------------------------------------------------------
(* Intake.                                                                   *)

LEMMA EndOf ==
    ASSUME NEW s \in Seq(Nat), NEW e \in 0..Len(s), NEW n \in 0..e
    PROVE  /\ SubSeq(s, e + 1 - n, e) \in Seq(Nat) /\ Len(SubSeq(s, e + 1 - n, e)) = n
           /\ \A j \in 1..n : SubSeq(s, e + 1 - n, e)[j] = s[e - n + j]
<1>1. Len(s) \in Nat /\ e \in Nat /\ n \in Nat /\ n <= e /\ e <= Len(s)
  OBVIOUS
<1>2. e + 1 - n \in 1..(e + 1) /\ e + 1 - (e + 1 - n) = n
  BY <1>1
<1>3. \A j \in 1..n : (e + 1 - n) + j - 1 = e - n + j
  BY <1>1
<1>4. QED
  BY <1>1, <1>2, <1>3

LEMMA Joined ==
    ASSUME NEW Z, NEW s \in Seq(Z), NEW u \in Seq(Z)
    PROVE  /\ s \o u \in Seq(Z) /\ Len(s \o u) = Len(s) + Len(u)
           /\ \A j \in 1..Len(s) : (s \o u)[j] = s[j]
           /\ \A j \in 1..Len(u) : (s \o u)[Len(s) + j] = u[j]
  OBVIOUS

LEMMA SameSequence ==
    ASSUME NEW Z, NEW s \in Seq(Z), NEW u \in Seq(Z), Len(s) = Len(u),
           \A j \in 1..Len(s) : s[j] = u[j]
    PROVE  s = u
  OBVIOUS

\* The bytes kept and those of the next read are a stretch of the file.
LEMMA WindowIsStretch ==
    ASSUME NEW bytes \in Seq(Nat), NEW a \in 0..Len(bytes), NEW l \in 0..a,
           NEW m \in a..Len(bytes)
    PROVE  LET window == SubSeq(bytes, a + 1 - l, a) \o SubSeq(bytes, a + 1, m)
           IN  /\ window \in Seq(Nat) /\ Len(window) = l + m - a
               /\ \A j \in 1..(l + m - a) : window[j] = bytes[a - l + j]
<1> DEFINE window == SubSeq(bytes, a + 1 - l, a) \o SubSeq(bytes, a + 1, m)
<1> DEFINE x == SubSeq(bytes, a + 1 - l, a)
           y == SubSeq(bytes, a + 1, m)
<1>1. Len(bytes) \in Nat /\ a \in Nat /\ l \in Nat /\ m \in Nat /\ l <= a /\ a <= m /\ m <= Len(bytes)
  OBVIOUS
<1>2. /\ x \in Seq(Nat) /\ Len(x) = l /\ \A j \in 1..l : x[j] = bytes[a - l + j]
  BY <1>1, EndOf
<1>3. /\ y \in Seq(Nat) /\ Len(y) = m - a /\ \A j \in 1..(m - a) : y[j] = bytes[a + j]
  <2>1. m + 1 - (m - a) = a + 1 /\ m - a \in 0..m /\ m \in 0..Len(bytes)
    BY <1>1
  <2>2. /\ SubSeq(bytes, m + 1 - (m - a), m) \in Seq(Nat)
        /\ Len(SubSeq(bytes, m + 1 - (m - a), m)) = m - a
        /\ \A j \in 1..(m - a) : SubSeq(bytes, m + 1 - (m - a), m)[j] = bytes[m - (m - a) + j]
    BY <2>1, EndOf
  <2>3. \A j \in 1..(m - a) : m - (m - a) + j = a + j
    BY <1>1
  <2>4. y = SubSeq(bytes, m + 1 - (m - a), m)
    BY <2>1
  <2> HIDE DEF y
  <2>5. QED
    BY <2>2, <2>3, <2>4
<1>4. window = x \o y
  OBVIOUS
<1> HIDE DEF x, y, window
<1>5. /\ window \in Seq(Nat) /\ Len(window) = l + (m - a)
      /\ \A j \in 1..l : window[j] = x[j]
      /\ \A j \in 1..(m - a) : window[l + j] = y[j]
  <2>1. /\ x \o y \in Seq(Nat) /\ Len(x \o y) = Len(x) + Len(y)
        /\ \A j \in 1..Len(x) : (x \o y)[j] = x[j]
        /\ \A j \in 1..Len(y) : (x \o y)[Len(x) + j] = y[j]
    <3>1. x \in Seq(Nat) /\ y \in Seq(Nat)
      BY <1>2, <1>3
    <3>2. QED
      BY ONLY <3>1, Joined
  <2>2. Len(x) = l /\ Len(y) = m - a
    BY <1>2, <1>3
  <2>3. QED
    BY <1>4, <2>1, <2>2, Zenon
<1>6. ASSUME NEW j \in 1..(l + m - a) PROVE window[j] = bytes[a - l + j]
  <2>1. CASE j <= l
    <3>1. j \in 1..l
      BY <1>1, <2>1
    <3>2. QED
      BY <1>2, <1>5, <3>1
  <2>2. CASE j > l
    <3>1. j - l \in 1..(m - a) /\ l + (j - l) = j /\ a + (j - l) = a - l + j
      BY <1>1, <2>2
    <3>2. window[l + (j - l)] = bytes[a + (j - l)]
      BY <1>3, <1>5, <3>1
    <3>3. QED
      BY <3>1, <3>2
  <2>3. j <= l \/ j > l
    BY <1>1
  <2>4. QED
    BY <2>1, <2>2, <2>3
<1>7. QED
  BY <1>1, <1>5, <1>6 DEF window

\* What is kept of a stretch is its end.
LEMMA KeptIsEnd ==
    ASSUME NEW bytes \in Seq(Nat), NEW e \in 0..Len(bytes), NEW w \in 0..e,
           NEW window \in Seq(Nat), Len(window) = w,
           \A j \in 1..w : window[j] = bytes[e - w + j]
    PROVE  LET kept == D!Kept(window)
               n    == IF w <= Leftover THEN w ELSE Leftover
           IN  kept \in Seq(Nat) /\ Len(kept) = n /\ kept = SubSeq(bytes, e + 1 - n, e)
<1> DEFINE kept == D!Kept(window)
           n    == IF w <= Leftover THEN w ELSE Leftover
<1>1. /\ Leftover \in Nat /\ Len(bytes) \in Nat /\ e \in Nat /\ w \in Nat /\ w <= e /\ e <= Len(bytes)
  BY PipelineAssumption DEF D!IntakeFit
<1>2. n \in Nat /\ n <= w /\ n <= e
  BY <1>1
<1>3. kept \in Seq(Nat) /\ Len(kept) = n /\ \A j \in 1..n : kept[j] = window[w - n + j]
  <2>1. CASE w <= Leftover
    <3>1. kept = window /\ n = w
      BY <2>1 DEF D!Kept
    <3>2. \A j \in 1..n : w - n + j = j
      BY <1>1, <3>1
    <3> HIDE DEF kept, n
    <3>3. QED
      BY <3>1, <3>2
  <2>2. CASE ~(w <= Leftover)
    <3>1. kept = SubSeq(window, w + 1 - n, w) /\ n = Leftover
      BY <2>2 DEF D!Kept
    <3>2. n \in 0..w /\ w \in 0..Len(window)
      BY <1>1, <1>2
    <3> HIDE DEF kept, n
    <3>3. QED
      BY <3>1, <3>2, EndOf
  <2>3. QED
    BY <2>1, <2>2
<1> HIDE DEF kept, n
<1>4. DEFINE tail == SubSeq(bytes, e + 1 - n, e)
<1>5. tail \in Seq(Nat) /\ Len(tail) = n /\ \A j \in 1..n : tail[j] = bytes[e - n + j]
  <2>1. n \in 0..e
    BY <1>1, <1>2
  <2>2. QED
    BY <2>1, EndOf
<1> HIDE DEF tail
<1>6. ASSUME NEW j \in 1..n PROVE kept[j] = tail[j]
  <2>1. w - n + j \in 1..w /\ e - w + (w - n + j) = e - n + j
    BY <1>1, <1>2
  <2>2. kept[j] = bytes[e - w + (w - n + j)]
    BY <1>3, <2>1
  <2>3. QED
    BY <1>5, <2>1, <2>2
<1>7. kept = tail
  BY ONLY <1>3, <1>5, <1>6, SameSequence
<1>8. QED
  BY <1>3, <1>7 DEF kept, n, tail

\* A token that ends in the new bytes of a window lies in the window as a whole.
LEMMA TokenInWindow ==
    ASSUME NEW bytes \in Seq(Nat), NEW a \in 0..Len(bytes), NEW m \in a..Len(bytes), NEW l \in 0..a,
           l = a \/ l = Leftover,
           NEW window \in Seq(Nat), Len(window) = l + m - a,
           \A j \in 1..(l + m - a) : window[j] = bytes[a - l + j],
           NEW t \in Tokens, NEW i \in 0..Len(bytes), D!StandsAt(bytes, t, i),
           i + Len(t) > a, i + Len(t) <= m
    PROVE  D!HoldsToken(window, t)
<1>1. /\ Leftover \in Nat /\ Len(bytes) \in Nat /\ a \in Nat /\ m \in Nat /\ l \in Nat /\ i \in Nat
      /\ Len(t) \in Nat /\ Len(t) >= 1 /\ Len(t) <= Leftover + 1 /\ l <= a /\ a <= m /\ m <= Len(bytes)
  <2>1. Leftover \in Nat /\ t \in Seq(Nat) /\ Len(t) \in 1..(Leftover + 1)
    BY PipelineAssumption DEF D!IntakeFit
  <2>2. QED
    BY <2>1
<1>2. (l = a \/ l = Leftover) /\ i + Len(t) > a /\ i + Len(t) <= m
  OBVIOUS
<1> DEFINE k == i - (a - l)
<1>3. k \in Nat /\ k + Len(t) <= l + m - a
  <2> DEFINE n == Len(t)
  <2>1. /\ n \in Nat /\ n >= 1 /\ n <= Leftover + 1 /\ i + n > a /\ i + n <= m
    BY ONLY <1>1, <1>2
  <2> HIDE DEF n
  <2>2. i >= a - l
    BY ONLY <1>1, <1>2, <2>1
  <2>3. k \in Nat /\ k + n <= l + m - a
    BY ONLY <1>1, <2>1, <2>2
  <2>4. QED
    BY ONLY <2>3 DEF n
<1>4. k \in 0..Len(window)
  <2>1. Len(window) = l + m - a /\ l + m - a \in Int
    BY <1>1
  <2>2. k <= l + m - a
    BY ONLY <1>1, <1>3
  <2>3. QED
    BY ONLY <1>1, <1>3, <2>1, <2>2
<1>5. ASSUME NEW p \in 1..Len(t) PROVE window[k + p] = t[p]
  <2>1. k + p \in 1..(l + m - a) /\ a - l + (k + p) = i + p
    <3>1. p \in Nat /\ p >= 1 /\ p <= Len(t)
      BY ONLY <1>1, <1>5
    <3>2. k + p >= 1 /\ k + p <= l + m - a
      BY ONLY <1>1, <1>3, <3>1
    <3>3. a - l + (k + p) = i + p
      BY ONLY <1>1, <3>1
    <3>4. QED
      BY ONLY <1>1, <1>3, <3>1, <3>2, <3>3
  <2>2. window[k + p] = bytes[a - l + (k + p)]
    BY <2>1
  <2>3. bytes[i + p] = t[p]
    BY DEF D!StandsAt
  <2> HIDE DEF k
  <2>4. QED
    BY <2>1, <2>2, <2>3
<1> HIDE DEF k
<1>6. D!StandsAt(window, t, k)
  BY <1>3, <1>5 DEF D!StandsAt
<1>7. QED
  BY <1>4, <1>6 DEF D!HoldsToken

LEMMA ScanStart == D!Init => D!ScanInv
  BY DEF D!Init, D!ScanInv

LEMMA AcceptKeeps ==
    ASSUME D!ScanInv, D!Accept
    PROVE  D!ScanInv'
<1> DEFINE bytes == input.file.bytes
<1>1. /\ input.what = "upload" /\ outcome' = D!Intake(input.file)
      /\ UNCHANGED <<input, output, scan>>
      /\ input \in Inputs /\ scan = [at |-> 0, leftover |-> <<>>]
  BY DEF D!Accept, D!ScanInv
<1>2. bytes \in Seq(Nat) /\ Leftover \in Nat
  BY <1>1, PipelineAssumption DEF D!IntakeFit
<1>3. Len(bytes) \in Nat
  BY <1>2, SeqDomain
<1>4. outcome' \in {"422", "413", "scanning", "kept"} /\ (input.file.suffix = "pdf" => outcome' # "kept")
  BY <1>1 DEF D!Intake
<1>5. D!InertUpTo(bytes, 0)
  <2>1. \A t \in Tokens : Len(t) \in 1..(Leftover + 1)
    BY PipelineAssumption DEF D!IntakeFit
  <2>2. \A t \in Tokens, i \in 0..Len(bytes) : i + Len(t) > 0
    BY <1>2, <1>3, <2>1
  <2>3. QED
    BY <2>2 DEF D!InertUpTo
<1>6. /\ scan'.at \in 0..Len(bytes)
      /\ scan'.leftover = SubSeq(bytes, scan'.at + 1 - Len(scan'.leftover), scan'.at)
      /\ Len(scan'.leftover) = IF scan'.at <= Leftover THEN scan'.at ELSE Leftover
  <2>1. scan'.at = 0 /\ scan'.leftover = <<>> /\ Len(<<>>) = 0
    BY <1>1
  <2>2. SubSeq(bytes, 1, 0) = <<>>
    <3>1. 0 + 1 - 0 = 1 /\ 0 \in 0..Len(bytes) /\ 0 \in 0..0
      BY <1>3
    <3>2. SubSeq(bytes, 1, 0) \in Seq(Nat) /\ Len(SubSeq(bytes, 1, 0)) = 0
      BY <1>2, <3>1, EndOf
    <3>3. QED
      BY <3>2
  <2>3. QED
    BY <1>2, <1>3, <2>1, <2>2
<1>7. input' = input /\ scan'.at = 0
  BY <1>1
<1> HIDE DEF bytes
<1>8. input'.file.bytes = bytes
  BY <1>7 DEF bytes
<1>9. D!InertUpTo(bytes, scan'.at)
  BY <1>5, <1>7
<1>10. QED
  BY <1>1, <1>4, <1>6, <1>7, <1>8, <1>9 DEF D!ScanInv

LEMMA ChunkKeeps ==
    ASSUME D!ScanInv, D!ScanChunk
    PROVE  D!ScanInv'
<1> DEFINE bytes  == input.file.bytes
           a      == scan.at
           l      == Len(scan.leftover)
           chunk  == D!Chunk(bytes, a)
           m      == IF a + ChunkSize < Len(bytes) THEN a + ChunkSize ELSE Len(bytes)
           window == scan.leftover \o chunk
<1>1. /\ outcome = "scanning" /\ input.what = "upload" /\ input \in Inputs
      /\ UNCHANGED <<input, output>>
  BY DEF D!ScanChunk, D!ScanInv
<1>2. /\ a \in 0..Len(bytes) /\ scan.leftover = SubSeq(bytes, a + 1 - l, a)
      /\ l = (IF a <= Leftover THEN a ELSE Leftover) /\ D!InertUpTo(bytes, a)
  BY <1>1 DEF D!ScanInv
<1>3. bytes \in Seq(Nat) /\ Leftover \in Nat /\ ChunkSize \in Nat /\ ChunkSize # 0
  BY <1>1, PipelineAssumption DEF D!IntakeFit
<1>4. Len(bytes) \in Nat
  BY <1>3, SeqDomain
<1>5. m \in a..Len(bytes) /\ (m = a => a = Len(bytes)) /\ l \in 0..a /\ (l = a \/ l = Leftover)
  <2> HIDE DEF bytes, a, l
  <2>1. a \in Nat /\ a <= Len(bytes)
    BY <1>2, <1>4
  <2>2. m \in a..Len(bytes) /\ (m = a => a = Len(bytes))
    BY <1>3, <1>4, <2>1
  <2>3. l \in 0..a /\ (l = a \/ l = Leftover)
    BY <1>2, <1>3, <2>1
  <2>4. QED
    BY <2>2, <2>3
<1>6. chunk = SubSeq(bytes, a + 1, m)
  BY DEF D!Chunk
<1>7. \/ chunk = <<>> /\ outcome' = "kept" /\ UNCHANGED scan
      \/ outcome' = "422" /\ UNCHANGED scan
      \/ /\ \A t \in Tokens : ~D!HoldsToken(window, t)
         /\ scan' = [at |-> a + Len(chunk), leftover |-> D!Kept(window)]
         /\ UNCHANGED outcome
  BY DEF D!ScanChunk
<1> HIDE DEF bytes, a, l, chunk, m, window
<1>8. Len(chunk) = m - a
  <2>1. m + 1 - (m - a) = a + 1 /\ m - a \in 0..m /\ m \in 0..Len(bytes)
    BY <1>2, <1>4, <1>5
  <2>2. Len(SubSeq(bytes, m + 1 - (m - a), m)) = m - a
    BY <1>3, <2>1, EndOf
  <2>3. QED
    BY <1>6, <2>1, <2>2
<1>9. input'.file.bytes = bytes /\ input' = input
  BY <1>1 DEF bytes
<1>10. CASE chunk = <<>> /\ outcome' = "kept" /\ UNCHANGED scan
  <2>1. m - a = 0
    BY <1>8, <1>10
  <2>2. a = Len(bytes)
    BY <1>2, <1>4, <1>5, <2>1
  <2>3. D!InertUpTo(bytes, Len(bytes))
    BY <1>2, <2>2
  <2>4. QED
    BY <1>1, <1>9, <1>10, <2>3 DEF D!ScanInv
<1>11. CASE outcome' = "422" /\ UNCHANGED scan
  BY <1>1, <1>11 DEF D!ScanInv
<1>12. CASE /\ \A t \in Tokens : ~D!HoldsToken(window, t)
            /\ scan' = [at |-> a + Len(chunk), leftover |-> D!Kept(window)]
            /\ UNCHANGED outcome
  <2>1. /\ window \in Seq(Nat) /\ Len(window) = l + m - a
        /\ \A j \in 1..(l + m - a) : window[j] = bytes[a - l + j]
    <3>1. window = SubSeq(bytes, a + 1 - l, a) \o SubSeq(bytes, a + 1, m)
      BY <1>2, <1>6 DEF window
    <3> DEFINE joined == SubSeq(bytes, a + 1 - l, a) \o SubSeq(bytes, a + 1, m)
    <3>2. /\ joined \in Seq(Nat) /\ Len(joined) = l + m - a
          /\ \A j \in 1..(l + m - a) : joined[j] = bytes[a - l + j]
      BY <1>2, <1>3, <1>5, WindowIsStretch, Zenon
    <3> HIDE DEF joined
    <3>3. window = joined
      BY <3>1 DEF joined
    <3>4. QED
      BY <3>2, <3>3
  <2>2. a + Len(chunk) = m /\ m \in 0..Len(bytes)
    BY <1>2, <1>4, <1>5, <1>8
  <2> DEFINE w == l + m - a
             n == IF w <= Leftover THEN w ELSE Leftover
  <2>3. w \in 0..m /\ \A j \in 1..w : window[j] = bytes[m - w + j]
    <3>1. m - w = a - l /\ w \in 0..m
      <4>1. a \in Nat /\ l \in Nat /\ m \in Nat /\ l <= a /\ a <= m
        BY <1>2, <1>4, <1>5
      <4>2. QED
        BY <4>1
    <3>2. \A j \in 1..w : window[j] = bytes[a - l + j]
      BY <2>1
    <3> HIDE DEF w
    <3>3. \A j \in 1..w : bytes[m - w + j] = bytes[a - l + j]
      BY <3>1
    <3>4. QED
      BY <3>1, <3>2, <3>3
  <2>4. /\ D!Kept(window) \in Seq(Nat) /\ Len(D!Kept(window)) = n
        /\ D!Kept(window) = SubSeq(bytes, m + 1 - n, m)
    <3>1. Len(window) = w
      BY <2>1
    <3> HIDE DEF w
    <3>2. QED
      BY <1>3, <2>1, <2>2, <2>3, <3>1, KeptIsEnd
  <2>5. n = IF m <= Leftover THEN m ELSE Leftover
    BY <1>2, <1>3, <1>4, <1>5
  <2>6. D!InertUpTo(bytes, m)
    <3> SUFFICES ASSUME NEW t \in Tokens, NEW i \in 0..Len(bytes), D!StandsAt(bytes, t, i),
                        ~(i + Len(t) > m)
                 PROVE  FALSE
      BY DEF D!InertUpTo
    <3>1. i + Len(t) > a
      BY <1>2 DEF D!InertUpTo
    <3>2. t \in Seq(Nat)
      BY PipelineAssumption DEF D!IntakeFit
    <3>3. i + Len(t) <= m
      BY <1>4, <2>2, <3>2
    <3>4. D!HoldsToken(window, t)
      BY <1>2, <1>3, <1>5, <2>1, <3>1, <3>3, TokenInWindow
    <3>5. QED
      BY <1>12, <3>4
  <2> HIDE DEF w, n
  <2>7. scan'.at = m /\ scan'.leftover = D!Kept(window)
    BY <1>12, <2>2
  <2>8. /\ scan'.at \in 0..Len(bytes)
        /\ scan'.leftover = SubSeq(bytes, scan'.at + 1 - Len(scan'.leftover), scan'.at)
        /\ Len(scan'.leftover) = IF scan'.at <= Leftover THEN scan'.at ELSE Leftover
        /\ D!InertUpTo(bytes, scan'.at)
    BY <2>2, <2>4, <2>5, <2>6, <2>7
  <2>9. QED
    BY <1>1, <1>9, <1>12, <2>8 DEF D!ScanInv
<1>13. QED
  BY <1>7, <1>10, <1>11, <1>12

LEMMA ScanStep == D!ScanInv /\ [D!Next]_(D!vars) => D!ScanInv'
<1> SUFFICES ASSUME D!ScanInv, [D!Next]_(D!vars) PROVE D!ScanInv'
  OBVIOUS
<1>1. CASE D!Refuse \/ D!OpenPart \/ D!PassBlank \/ D!ReadParagraph \/ D!ReadTableCell
           \/ D!ReadBlock \/ D!NextRow \/ D!ClosePart \/ D!Finish
  <2>1. outcome = "pending" /\ outcome' \in {"pending", "error", "read"} /\ UNCHANGED <<input, scan>>
    BY <1>1 DEF D!Refuse, D!OpenPart, D!PassBlank, D!ReadParagraph, D!ReadTableCell, D!ReadBlock,
                D!NextRow, D!ClosePart, D!Finish, D!Reading, D!InRow, D!InPart
  <2>2. QED
    BY <2>1 DEF D!ScanInv
<1>2. CASE UNCHANGED D!vars
  <2>1. UNCHANGED <<input, outcome, scan>>
    BY <1>2 DEF D!vars
  <2>2. QED
    BY <2>1 DEF D!ScanInv, D!InertUpTo, D!StandsAt
<1>3. QED
  BY <1>1, <1>2, AcceptKeeps, ChunkKeeps DEF D!Next

LEMMA DocumentsComposed == Spec => D!Spec
<1>1. Init => D!Init
  BY DEF Init
<1>2. [Next]_vars => [D!Next]_(D!vars)
  BY DEF Next, vars, dvars, D!vars
<1>3. QED
  BY <1>1, <1>2, PTL DEF Spec, D!Spec

\* The chunked scan of _pdf_contains_active_content (file_safety.py) misses no token, whatever
\* the file, the size of the reads and the tokens, if a token fits into the bytes kept and one
\* more.
THEOREM AcceptedPdfIsInert == Spec => []AcceptedIsInert
<1>1. D!ScanInv => AcceptedIsInert
  <2> SUFFICES ASSUME D!ScanInv, outcome = "kept", input.file.suffix = "pdf",
                      NEW t \in Tokens, NEW i \in 0..Len(input.file.bytes),
                      D!StandsAt(input.file.bytes, t, i)
               PROVE  FALSE
    BY DEF AcceptedIsInert, D!AcceptedIsInert, D!HoldsToken
  <2>1. input.file.bytes \in Seq(Nat) /\ t \in Seq(Nat)
    BY PipelineAssumption DEF D!ScanInv, D!IntakeFit
  <2>2. Len(input.file.bytes) \in Nat /\ Len(t) \in Nat
    BY <2>1, SeqDomain
  <2>3. i + Len(t) > Len(input.file.bytes)
    BY DEF D!ScanInv, D!InertUpTo
  <2>4. i + Len(t) <= Len(input.file.bytes)
    BY DEF D!StandsAt
  <2>5. QED
    BY <2>2, <2>3, <2>4
<1>2. QED
  BY <1>1, DocumentsComposed, ScanStart, ScanStep, PTL DEF D!Spec

-----------------------------------------------------------------------------
(* Sequences of whatever they hold.                                          *)

LEMMA SeqListed == ASSUME NEW Z, NEW s \in Seq(Z) PROVE D!Listed(s)
  BY DEF D!Listed

LEMMA ListedShape ==
    ASSUME NEW s, D!Listed(s)
    PROVE  Len(s) \in Nat /\ DOMAIN s = 1..Len(s)
  BY DEF D!Listed

LEMMA ListedEmpty == D!Listed(<<>>) /\ Len(<<>>) = 0 /\ DOMAIN <<>> = {}
  BY DEF D!Listed

LEMMA ListedSingle ==
    ASSUME NEW x
    PROVE  D!Listed(<<x>>) /\ Len(<<x>>) = 1 /\ DOMAIN <<x>> = {1} /\ <<x>>[1] = x /\ <<x>> # <<>>
<1>1. <<x>> \in Seq({x})
  OBVIOUS
<1>2. D!Listed(<<x>>)
  BY <1>1, SeqListed
<1>3. Len(<<x>>) = 1 /\ DOMAIN <<x>> = {1} /\ <<x>>[1] = x
  OBVIOUS
<1>4. QED
  BY <1>2, <1>3

LEMMA ListedSome ==
    ASSUME NEW s, D!Listed(s)
    PROVE  (s = <<>>) <=> (DOMAIN s = {})
<1>1. PICK Z : s \in Seq(Z)
  BY DEF D!Listed
<1>2. ASSUME DOMAIN s = {} PROVE s = <<>>
  BY <1>1, <1>2
<1>3. QED
  BY <1>2

LEMMA ListedAppended ==
    ASSUME NEW s, D!Listed(s), NEW x
    PROVE  /\ D!Listed(Append(s, x)) /\ Len(Append(s, x)) = Len(s) + 1
           /\ DOMAIN Append(s, x) = 1..(Len(s) + 1) /\ Append(s, x) # <<>>
           /\ \A i \in 1..Len(s) : Append(s, x)[i] = s[i]
           /\ Append(s, x)[Len(s) + 1] = x
<1> DEFINE Z == {s[i] : i \in DOMAIN s} \cup {x}
<1>1. s \in Seq(Z)
  BY DEF D!Listed
<1>2. x \in Z
  OBVIOUS
<1> HIDE DEF Z
<1>3. /\ Append(s, x) \in Seq(Z) /\ Len(Append(s, x)) = Len(s) + 1
      /\ DOMAIN Append(s, x) = 1..(Len(s) + 1)
      /\ \A i \in 1..Len(s) : Append(s, x)[i] = s[i]
      /\ Append(s, x)[Len(s) + 1] = x
  BY <1>1, <1>2, SeqAppended
<1>4. Len(s) \in Nat
  BY <1>1
<1>5. Append(s, x) # <<>>
  BY <1>3, <1>4
<1>6. QED
  BY <1>3, <1>5, SeqListed

-----------------------------------------------------------------------------
(* Places on pages.                                                          *)

\* q has the places of p and after them one more, where b stands.
Adds(p, q, new, b) ==
    /\ D!Places(q) = D!Places(p) \cup {new} /\ new \in Nat \X Nat /\ D!At(q, new) = b
    /\ \A x \in D!Places(p) :
          /\ x \in Nat \X Nat /\ D!At(q, x) = D!At(p, x)
          /\ D!Precedes(x, new) /\ ~D!Precedes(new, x) /\ x # new

\* q has the places of p and no others.
Same(p, q) ==
    /\ D!Places(q) = D!Places(p)
    /\ \A x \in D!Places(p) : D!At(q, x) = D!At(p, x)

LEMMA PlacesAre ==
    ASSUME NEW p, D!Listed(p), \A i \in DOMAIN p : D!Listed(D!Sources(p[i]))
    PROVE  \A x : x \in D!Places(p) <=>
              \E i \in 1..Len(p) : \E k \in 1..Len(D!Sources(p[i])) : x = <<i, k>>
<1>1. DOMAIN p = 1..Len(p)
  BY ListedShape
<1>2. ASSUME NEW i \in 1..Len(p) PROVE DOMAIN D!Sources(p[i]) = 1..Len(D!Sources(p[i]))
  BY <1>1, ListedShape
<1>3. \A x : x \in D!Places(p) <=> \E i \in 1..Len(p) : x \in {i} \X DOMAIN D!Sources(p[i])
  BY <1>1 DEF D!Places
<1>4. QED
  BY <1>2, <1>3

LEMMA PlacesAreNumbers ==
    ASSUME NEW p, D!Listed(p), \A i \in DOMAIN p : D!Listed(D!Sources(p[i])),
           NEW x \in D!Places(p)
    PROVE  /\ x = <<x[1], x[2]>> /\ x[1] \in 1..Len(p) /\ x[1] \in Nat /\ Len(p) \in Nat
           /\ x[2] \in 1..Len(D!Sources(p[x[1]])) /\ x[2] \in Nat
           /\ Len(D!Sources(p[x[1]])) \in Nat
<1>1. PICK i \in 1..Len(p) : \E k \in 1..Len(D!Sources(p[i])) : x = <<i, k>>
  BY PlacesAre
<1>4. PICK k \in 1..Len(D!Sources(p[i])) : x = <<i, k>>
  BY <1>1
<1>2. Len(p) \in Nat /\ DOMAIN p = 1..Len(p) /\ Len(D!Sources(p[i])) \in Nat
  BY ListedShape
<1>3. QED
  BY <1>4, <1>2

\* Two places are one before the other.
LEMMA PlacesOrdered ==
    ASSUME NEW p, D!Listed(p), \A i \in DOMAIN p : D!Listed(D!Sources(p[i])),
           NEW x \in D!Places(p), NEW y \in D!Places(p), x # y
    PROVE  D!Precedes(x, y) \/ D!Precedes(y, x)
<1>1. /\ x = <<x[1], x[2]>> /\ x[1] \in Nat /\ x[2] \in Nat
      /\ y = <<y[1], y[2]>> /\ y[1] \in Nat /\ y[2] \in Nat
  BY PlacesAreNumbers
<1>2. x[1] # y[1] \/ x[2] # y[2]
  BY <1>1
<1>3. QED
  BY <1>1, <1>2 DEF D!Precedes

LEMMA PageAppended ==
    ASSUME NEW p, D!Listed(p), \A i \in DOMAIN p : D!Listed(D!Sources(p[i])),
           NEW sheet, D!Listed(D!Sources(sheet))
    PROVE  /\ D!Listed(Append(p, sheet))
           /\ \A i \in DOMAIN Append(p, sheet) : D!Listed(D!Sources(Append(p, sheet)[i]))
           /\ \A x : x \in D!Places(Append(p, sheet)) <=>
                 x \in D!Places(p) \/ \E k \in 1..Len(D!Sources(sheet)) : x = <<Len(p) + 1, k>>
           /\ \A x \in D!Places(p) : D!At(Append(p, sheet), x) = D!At(p, x)
           /\ \A k : D!At(Append(p, sheet), <<Len(p) + 1, k>>) = D!Sources(sheet)[k]
<1> DEFINE q == Append(p, sheet)
           n == Len(p)
<1>1. /\ D!Listed(q) /\ Len(q) = n + 1 /\ DOMAIN q = 1..(n + 1)
      /\ \A i \in 1..n : q[i] = p[i]
      /\ q[n + 1] = sheet
  BY ListedAppended
<1>2. n \in Nat /\ DOMAIN p = 1..n
  BY ListedShape
<1> HIDE DEF q, n
<1>3. \A i \in 1..(n + 1) : i \in 1..n \/ i = n + 1
  BY <1>2
<1>4. \A i \in DOMAIN q : D!Listed(D!Sources(q[i]))
  BY <1>1, <1>2, <1>3
<1>5. \A x : x \in D!Places(q) <=> \E i \in 1..(n + 1) : \E k \in 1..Len(D!Sources(q[i])) : x = <<i, k>>
  BY <1>1, <1>4, PlacesAre
<1>6. \A x : x \in D!Places(p) <=> \E i \in 1..n : \E k \in 1..Len(D!Sources(p[i])) : x = <<i, k>>
  BY <1>2, PlacesAre DEF n
<1>7. n + 1 \in 1..(n + 1) /\ \A i \in 1..n : i \in 1..(n + 1)
  BY <1>2
<1>8. \A x : x \in D!Places(q) <=>
         x \in D!Places(p) \/ \E k \in 1..Len(D!Sources(sheet)) : x = <<n + 1, k>>
  BY <1>1, <1>3, <1>5, <1>6, <1>7
<1>9. \A x \in D!Places(p) : D!At(q, x) = D!At(p, x)
  BY <1>1, <1>6 DEF D!At
<1>10. \A k : D!At(q, <<n + 1, k>>) = D!Sources(sheet)[k]
  BY <1>1 DEF D!At
<1>11. QED
  BY <1>1, <1>4, <1>8, <1>9, <1>10 DEF q, n

\* What a page of a text, a sheet or a slide holds is its blocks.
LEMMA PartPageHolds ==
    ASSUME NEW doc, NEW blocks, D!Listed(blocks), NEW n
    PROVE  /\ D!Sources(D!PartPage(doc, blocks, n)) = blocks
           /\ D!PartPage(doc, blocks, n).page = n
           /\ D!PartPage(doc, blocks, n).locator = D!PageLocator(doc, n)
           /\ D!PartPage(doc, blocks, n).ocr_required => blocks = <<>>
<1> DEFINE texts == [k \in DOMAIN blocks |-> blocks[k].text]
           sheet == D!PartPage(doc, blocks, n)
           loc   == D!PageLocator(doc, n)
<1>1. sheet = [page |-> n, text |-> texts, has_text |-> texts # <<>>,
              ocr_required |-> texts = <<>> /\ doc.suffix # "txt",
              blocks |-> blocks, locator |-> loc, node |-> D!Nowhere]
  BY DEF D!PartPage
<1>2. texts = <<>> => blocks = <<>>
  <2> SUFFICES ASSUME texts = <<>> PROVE DOMAIN blocks = {}
    BY ListedSome
  <2>1. DOMAIN texts = DOMAIN blocks
    OBVIOUS
  <2>2. QED
    BY <2>1
<1>3. blocks = <<>> => texts = <<>>
  <2> SUFFICES ASSUME blocks = <<>> PROVE texts = <<>>
    OBVIOUS
  <2>1. texts \in [1..0 -> {}]
    OBVIOUS
  <2>2. texts \in Seq({}) /\ Len(texts) = 0
    BY <2>1, SeqMade
  <2>3. QED
    BY <2>2
<1> HIDE DEF texts, sheet, loc
<1>4. /\ sheet.page = n /\ sheet.locator = loc /\ sheet.blocks = blocks
      /\ sheet.has_text = (texts # <<>>)
      /\ (sheet.ocr_required <=> texts = <<>> /\ doc.suffix # "txt")
  BY <1>1
<1>5. D!Sources(sheet) = blocks
  BY <1>3, <1>4 DEF D!Sources
<1>6. QED
  BY <1>2, <1>4, <1>5 DEF sheet, loc

\* A page of one text.
OneText(t, n, loc, node) == D!TextPage(<<t>>, n, loc, node)
Holds(sheet, b)          == D!Sources(sheet) = <<b>>

\* The number of the next page.
Following(done) == Len(done) + 1

LEMMA OneTextHolds ==
    ASSUME NEW t, NEW n, NEW loc, NEW node, NEW sheet, sheet = OneText(t, n, loc, node)
    PROVE  /\ Holds(sheet, D!Block(t, loc, node)) /\ sheet.page = n /\ sheet.blocks = <<>>
           /\ sheet.has_text /\ ~sheet.ocr_required
<1>1. <<t>> # <<>> /\ <<t>>[1] = t
  BY ListedSingle
<1>2. sheet = [page |-> n, text |-> <<t>>, has_text |-> TRUE, ocr_required |-> FALSE,
               blocks |-> <<>>, locator |-> loc, node |-> node]
  BY <1>1 DEF D!TextPage, OneText
<1> DEFINE texts == <<t>>
<1>3. sheet = [page |-> n, text |-> texts, has_text |-> TRUE, ocr_required |-> FALSE,
               blocks |-> <<>>, locator |-> loc, node |-> node] /\ texts[1] = t
  BY <1>1, <1>2
<1> HIDE DEF texts
<1>4. /\ sheet.page = n /\ sheet.blocks = <<>> /\ sheet.text = texts
      /\ sheet.locator = loc /\ sheet.node = node
  BY <1>3
<1>5. sheet.has_text /\ ~sheet.ocr_required
  BY <1>3
<1>6. D!Sources(sheet) = <<D!Block(t, loc, node)>>
  BY <1>3, <1>4, <1>5 DEF D!Sources
<1>7. QED
  BY <1>4, <1>5, <1>6 DEF Holds

\* The page given to a document without any has nothing on it.
LEMMA EmptyPageHolds ==
    ASSUME NEW n, NEW loc, NEW node
    PROVE  /\ D!Sources(D!TextPage(<<>>, n, loc, node)) = <<>>
           /\ D!TextPage(<<>>, n, loc, node).page = n
           /\ D!TextPage(<<>>, n, loc, node).locator = loc
           /\ D!TextPage(<<>>, n, loc, node).blocks = <<>>
  BY DEF D!TextPage, D!Sources

LEMMA AddsPage ==
    ASSUME NEW p, D!Listed(p), \A i \in DOMAIN p : D!Listed(D!Sources(p[i])),
           NEW sheet, NEW b, D!Sources(sheet) = <<b>>
    PROVE  Adds(p, Append(p, sheet), <<Len(p) + 1, 1>>, b)
<1> DEFINE q   == Append(p, sheet)
           new == <<Len(p) + 1, 1>>
<1>1. Len(p) \in Nat
  BY ListedShape
<1>2. D!Listed(D!Sources(sheet)) /\ Len(D!Sources(sheet)) = 1 /\ D!Sources(sheet)[1] = b
  BY ListedSingle
<1>3. /\ \A x : x \in D!Places(q) <=> x \in D!Places(p) \/ \E k \in 1..1 : x = <<Len(p) + 1, k>>
      /\ \A x \in D!Places(p) : D!At(q, x) = D!At(p, x)
      /\ D!At(q, new) = b
  BY <1>2, PageAppended
<1>4. \A x : x \in D!Places(q) <=> x \in D!Places(p) \cup {new}
  BY <1>3
<1>5. ASSUME NEW x \in D!Places(p)
      PROVE  x \in Nat \X Nat /\ D!Precedes(x, new) /\ ~D!Precedes(new, x) /\ x # new
  <2>1. x = <<x[1], x[2]>> /\ x[1] \in 1..Len(p) /\ x[2] \in Nat
    BY PlacesAreNumbers
  <2>2. x[1] < Len(p) + 1 /\ x[1] \in Nat
    BY <1>1, <2>1
  <2>3. QED
    BY <1>1, <2>1, <2>2 DEF D!Precedes
<1>6. new \in Nat \X Nat
  BY <1>1
<1> HIDE DEF q, new
<1>7. D!Places(q) = D!Places(p) \cup {new}
  BY <1>4
<1>8. QED
  BY <1>3, <1>5, <1>6, <1>7 DEF Adds, q, new

LEMMA SamePages ==
    ASSUME NEW p, D!Listed(p), \A i \in DOMAIN p : D!Listed(D!Sources(p[i])),
           NEW sheet, D!Sources(sheet) = <<>>
    PROVE  Same(p, Append(p, sheet))
<1> DEFINE q == Append(p, sheet)
<1>1. D!Listed(D!Sources(sheet)) /\ Len(D!Sources(sheet)) = 0
  BY ListedEmpty
<1>2. /\ \A x : x \in D!Places(q) <=> x \in D!Places(p) \/ \E k \in 1..0 : x = <<Len(p) + 1, k>>
      /\ \A x \in D!Places(p) : D!At(q, x) = D!At(p, x)
  BY <1>1, PageAppended
<1> HIDE DEF q
<1>5. \A k : k \notin 1..0
  OBVIOUS
<1>6. \A x : x \in D!Places(q) <=> x \in D!Places(p)
  BY <1>2, <1>5
<1>3. D!Places(q) = D!Places(p)
  BY <1>6
<1>4. QED
  BY <1>2, <1>3 DEF Same, q

LEMMA AddsBlock ==
    ASSUME NEW p, D!Listed(p), \A i \in DOMAIN p : D!Listed(D!Sources(p[i])),
           NEW doc, NEW blocks, D!Listed(blocks), NEW b
    PROVE  Adds(Append(p, D!PartPage(doc, blocks, Len(p) + 1)),
                Append(p, D!PartPage(doc, Append(blocks, b), Len(p) + 1)),
                <<Len(p) + 1, Len(blocks) + 1>>, b)
<1> DEFINE n    == Len(p) + 1
           l    == Len(blocks)
           more == Append(blocks, b)
           old  == D!PartPage(doc, blocks, n)
           sheet == D!PartPage(doc, more, n)
           q    == Append(p, old)
           r    == Append(p, sheet)
           new  == <<n, l + 1>>
<1>1. Len(p) \in Nat /\ l \in Nat /\ n \in Nat
  BY ListedShape
<1>2. /\ D!Listed(more) /\ Len(more) = l + 1
      /\ \A i \in 1..l : more[i] = blocks[i]
      /\ more[l + 1] = b
  BY ListedAppended
<1> HIDE DEF more
<1>13. D!Sources(old) = blocks
  BY PartPageHolds
<1>14. D!Sources(sheet) = more
  BY <1>2, PartPageHolds
<1>3. D!Sources(old) = blocks /\ D!Sources(sheet) = more
  BY <1>13, <1>14
<1>15. D!Listed(D!Sources(old)) /\ Len(D!Sources(old)) = l
  BY <1>13
<1>16. D!Listed(D!Sources(sheet)) /\ Len(D!Sources(sheet)) = l + 1
  BY <1>2, <1>14
<1> HIDE DEF l, old, sheet
<1>4. /\ \A x : x \in D!Places(q) <=> x \in D!Places(p) \/ \E k \in 1..l : x = <<n, k>>
      /\ \A x \in D!Places(p) : D!At(q, x) = D!At(p, x)
      /\ \A k : D!At(q, <<n, k>>) = blocks[k]
  BY <1>3, <1>15, PageAppended
<1>5. /\ \A x : x \in D!Places(r) <=> x \in D!Places(p) \/ \E k \in 1..(l + 1) : x = <<n, k>>
      /\ \A x \in D!Places(p) : D!At(r, x) = D!At(p, x)
      /\ \A k : D!At(r, <<n, k>>) = more[k]
  BY <1>3, <1>16, PageAppended
<1> HIDE DEF n
<1>6. \A x \in D!Places(p) : x = <<x[1], x[2]>> /\ x[1] \in Nat /\ x[1] < n /\ x[2] \in Nat
  <2> SUFFICES ASSUME NEW x \in D!Places(p)
               PROVE  x = <<x[1], x[2]>> /\ x[1] \in Nat /\ x[1] < n /\ x[2] \in Nat
    OBVIOUS
  <2>1. x = <<x[1], x[2]>> /\ x[1] \in 1..Len(p) /\ x[2] \in Nat
    BY PlacesAreNumbers
  <2>2. QED
    BY <1>1, <2>1 DEF n
<1>7. ASSUME NEW x \in D!Places(q)
      PROVE  /\ x \in Nat \X Nat /\ D!At(r, x) = D!At(q, x)
             /\ D!Precedes(x, new) /\ ~D!Precedes(new, x) /\ x # new
  <2>1. CASE x \in D!Places(p)
    BY <1>1, <1>4, <1>5, <1>6, <2>1 DEF D!Precedes
  <2>2. CASE \E k \in 1..l : x = <<n, k>>
    <3>1. PICK k \in 1..l : x = <<n, k>>
      BY <2>2
    <3>2. D!At(r, x) = D!At(q, x)
      BY <1>2, <1>4, <1>5, <3>1
    <3>3. k < l + 1 /\ k \in Nat
      BY <1>1
    <3>4. QED
      BY <1>1, <3>1, <3>2, <3>3 DEF D!Precedes
  <2>3. QED
    BY <1>4, <2>1, <2>2
<1>8. \A x : x \in D!Places(r) <=> x \in D!Places(q) \cup {new}
  <2>1. \A k : k \in 1..(l + 1) <=> k \in 1..l \/ k = l + 1
    BY <1>1
  <2>2. QED
    BY <1>4, <1>5, <2>1
<1>9. D!At(r, new) = b
  BY <1>2, <1>5
<1>10. new \in Nat \X Nat
  BY <1>1
<1> HIDE DEF q, r, new
<1>11. D!Places(r) = D!Places(q) \cup {new}
  BY <1>8
<1>12. QED
  BY <1>7, <1>9, <1>10, <1>11 DEF Adds, q, r, new, n, l, old, sheet, more

-----------------------------------------------------------------------------
(* What was found, and the nodes seen.                                       *)

LEMMA FoundAdded ==
    ASSUME NEW doc, NEW p, NEW q, NEW new, NEW b, Adds(p, q, new, b), NEW seen, NEW more,
           D!FoundIn(doc, p, seen), b.text = D!TextOf(doc, b.node),
           D!Filled(doc) \cap more = (D!Filled(doc) \cap seen) \cup {b.node},
           \A n \in D!Filled(doc) \cap seen : D!NodePrecedes(n, b.node)
    PROVE  D!FoundIn(doc, q, more)
<1> DEFINE P      == D!Places(p)
           Q      == D!Places(q)
           was(x)  == D!At(p, x)
           now(x) == D!At(q, x)
<1>1. Q = P \cup {new} /\ now(new) = b /\ \A x \in P : now(x) = was(x)
  BY DEF Adds
<1>2. {was(x).node : x \in P} = D!Filled(doc) \cap seen
  BY DEF D!FoundIn
<1> HIDE DEF P, Q, was, now
<1>3. {now(x).node : x \in Q} = {was(x).node : x \in P} \cup {b.node}
  BY <1>1
<1>4. \A x \in Q : now(x).text = D!TextOf(doc, now(x).node)
  <2>1. \A x \in P : was(x).text = D!TextOf(doc, was(x).node)
    BY DEF D!FoundIn, P, was
  <2>2. QED
    BY <1>1, <2>1
<1>5. ASSUME NEW x \in Q, NEW y \in Q, D!Precedes(x, y)
      PROVE  D!NodePrecedes(now(x).node, now(y).node)
  <2>1. \A z \in P : D!Precedes(z, new) /\ ~D!Precedes(new, z)
    BY DEF Adds, P
  <2>2. ~D!Precedes(new, new)
    BY DEF Adds, D!Precedes
  <2>3. x \in P
    BY <1>1, <1>5, <2>1, <2>2
  <2>4. CASE y \in P
    <3>1. D!NodePrecedes(was(x).node, was(y).node)
      BY <1>5, <2>3, <2>4 DEF D!FoundIn, P, was
    <3>2. QED
      BY <1>1, <2>3, <2>4, <3>1
  <2>5. CASE y = new
    <3>1. was(x).node \in D!Filled(doc) \cap seen
      BY <1>2, <2>3
    <3>2. QED
      BY <1>1, <2>3, <2>5, <3>1
  <2>6. QED
    BY <1>1, <2>4, <2>5
<1>6. QED
  BY <1>2, <1>3, <1>4, <1>5 DEF D!FoundIn, P, Q, was, now

LEMMA FoundSame ==
    ASSUME NEW doc, NEW p, NEW q, Same(p, q), NEW seen, NEW more, D!FoundIn(doc, p, seen),
           D!Filled(doc) \cap more = D!Filled(doc) \cap seen
    PROVE  D!FoundIn(doc, q, more)
<1>1. D!Places(q) = D!Places(p) /\ \A x \in D!Places(p) : D!At(q, x) = D!At(p, x)
  BY DEF Same
<1>2. {D!At(q, x).node : x \in D!Places(q)} = {D!At(p, x).node : x \in D!Places(p)}
  BY <1>1
<1>3. QED
  BY <1>1, <1>2 DEF D!FoundIn

\* A document of the shape the readers read.
DocFit(doc) ==
    /\ DOMAIN doc.parts \subseteq Nat \ {0}
    /\ \A p \in DOMAIN doc.parts :
          /\ D!Listed(doc.parts[p].rows)
          /\ \A k \in DOMAIN doc.parts[p].rows : D!Listed(doc.parts[p].rows[k].cells)
    /\ doc.suffix = "txt" => DOMAIN doc.parts = {1} /\ Len(doc.parts[1].rows) = 1

LEMMA RowsListed ==
    ASSUME NEW doc, DocFit(doc), NEW p \in DOMAIN doc.parts
    PROVE  /\ p \in Nat \ {0}
           /\ D!Listed(D!RowsOf(doc, p)) /\ Len(D!RowsOf(doc, p)) \in Nat
           /\ DOMAIN D!RowsOf(doc, p) = 1..Len(D!RowsOf(doc, p))
           /\ \A k \in 1..Len(D!RowsOf(doc, p)) :
                 /\ Len(D!RowsOf(doc, p)[k].cells) \in Nat
                 /\ DOMAIN D!RowsOf(doc, p)[k].cells = 1..Len(D!RowsOf(doc, p)[k].cells)
<1>1. p \in Nat \ {0}
  BY DEF DocFit
<1>2. CASE doc.suffix = "docx" /\ doc.parts[p].kind \notin {"p", "tbl"}
  <2>1. D!RowsOf(doc, p) = <<>>
    BY <1>2 DEF D!RowsOf
  <2>2. 1..0 = {}
    OBVIOUS
  <2>3. QED
    BY <1>1, <2>1, <2>2, ListedEmpty
<1>3. CASE ~(doc.suffix = "docx" /\ doc.parts[p].kind \notin {"p", "tbl"})
  <2>1. D!RowsOf(doc, p) = doc.parts[p].rows
    BY <1>3 DEF D!RowsOf
  <2>2. D!Listed(D!RowsOf(doc, p)) /\ \A k \in DOMAIN D!RowsOf(doc, p) : D!Listed(D!RowsOf(doc, p)[k].cells)
    BY <2>1 DEF DocFit
  <2>3. Len(D!RowsOf(doc, p)) \in Nat /\ DOMAIN D!RowsOf(doc, p) = 1..Len(D!RowsOf(doc, p))
    BY <2>2, ListedShape
  <2>4. QED
    BY <1>1, <2>2, <2>3, ListedShape
<1>4. QED
  BY <1>2, <1>3

LEMMA NodesAre ==
    ASSUME NEW doc, DocFit(doc)
    PROVE  \A n : n \in D!Nodes(doc) <=>
              \E p \in DOMAIN doc.parts : \E i \in 1..Len(D!RowsOf(doc, p)) :
                 \E j \in 1..Len(D!RowsOf(doc, p)[i].cells) : n = <<p, i, j>>
<1>1. \A n : n \in D!Nodes(doc) <=>
         \E p \in DOMAIN doc.parts : \E i \in DOMAIN D!RowsOf(doc, p) :
            \E j \in DOMAIN D!RowsOf(doc, p)[i].cells : n = <<p, i, j>>
  BY DEF D!Nodes
<1>2. \A p \in DOMAIN doc.parts :
         /\ DOMAIN D!RowsOf(doc, p) = 1..Len(D!RowsOf(doc, p))
         /\ \A k \in 1..Len(D!RowsOf(doc, p)) :
               DOMAIN D!RowsOf(doc, p)[k].cells = 1..Len(D!RowsOf(doc, p)[k].cells)
  BY RowsListed
<1>3. ASSUME NEW n, NEW p \in DOMAIN doc.parts
      PROVE  (\E i \in DOMAIN D!RowsOf(doc, p) : \E j \in DOMAIN D!RowsOf(doc, p)[i].cells : n = <<p, i, j>>)
         <=> (\E i \in 1..Len(D!RowsOf(doc, p)) : \E j \in 1..Len(D!RowsOf(doc, p)[i].cells) : n = <<p, i, j>>)
  <2> DEFINE rows == D!RowsOf(doc, p)
             cells(i) == rows[i].cells
  <2>1. DOMAIN rows = 1..Len(rows) /\ \A i \in 1..Len(rows) : DOMAIN cells(i) = 1..Len(cells(i))
    BY <1>2
  <2> HIDE DEF rows
  <2>2. \A i \in DOMAIN rows : (\E j \in DOMAIN cells(i) : n = <<p, i, j>>) <=> (\E j \in 1..Len(cells(i)) : n = <<p, i, j>>)
    BY <2>1
  <2>3. QED
    BY <2>1, <2>2 DEF rows
<1> DEFINE In(n, p) == \E i \in DOMAIN D!RowsOf(doc, p) :
                          \E j \in DOMAIN D!RowsOf(doc, p)[i].cells : n = <<p, i, j>>
           By(n, p) == \E i \in 1..Len(D!RowsOf(doc, p)) :
                          \E j \in 1..Len(D!RowsOf(doc, p)[i].cells) : n = <<p, i, j>>
<1>4. \A n : n \in D!Nodes(doc) <=> \E p \in DOMAIN doc.parts : In(n, p)
  BY <1>1
<1>5. \A n : \A p \in DOMAIN doc.parts : In(n, p) <=> By(n, p)
  BY <1>3
<1>6. \A n : n \in D!Nodes(doc) <=> \E p \in DOMAIN doc.parts : By(n, p)
  <2> HIDE DEF In, By
  <2>1. QED
    BY <1>4, <1>5
<1>7. QED
  BY <1>6

LEMMA NodesAreNumbers ==
    ASSUME NEW doc, DocFit(doc), NEW n \in D!Nodes(doc)
    PROVE  /\ n = <<n[1], n[2], n[3]>> /\ n[1] \in DOMAIN doc.parts
           /\ n[1] \in Nat /\ n[2] \in Nat /\ n[3] \in Nat /\ n[1] # 0 /\ n[3] # 0
           /\ n[2] \in 1..Len(D!RowsOf(doc, n[1])) /\ Len(D!RowsOf(doc, n[1])) \in Nat
           /\ n[3] \in 1..Len(D!RowsOf(doc, n[1])[n[2]].cells)
           /\ Len(D!RowsOf(doc, n[1])[n[2]].cells) \in Nat
<1>1. PICK p \in DOMAIN doc.parts : \E i \in 1..Len(D!RowsOf(doc, p)) :
         \E j \in 1..Len(D!RowsOf(doc, p)[i].cells) : n = <<p, i, j>>
  BY NodesAre
<1>2. PICK i \in 1..Len(D!RowsOf(doc, p)) : \E j \in 1..Len(D!RowsOf(doc, p)[i].cells) : n = <<p, i, j>>
  BY <1>1
<1>3. PICK j \in 1..Len(D!RowsOf(doc, p)[i].cells) : n = <<p, i, j>>
  BY <1>2
<1>4. p \in Nat \ {0} /\ Len(D!RowsOf(doc, p)) \in Nat /\ Len(D!RowsOf(doc, p)[i].cells) \in Nat
  BY RowsListed
<1>5. QED
  BY <1>3, <1>4

LEMMA SeenIs ==
    ASSUME NEW doc, NEW r
    PROVE  \A n : n \in D!Seen(doc, r) <=>
              n \in D!Nodes(doc) /\
              \/ n[1] < r.part
              \/ n[1] = r.part /\ (r.row = 0 \/ n[2] < r.row \/ (n[2] = r.row /\ n[3] < r.cell))
  BY DEF D!Seen

\* The numbers of the reader.
Counts(r) == r.part \in Nat /\ r.row \in Nat /\ r.cell \in Nat

\* Past one node: it is seen, after all that were.
LEMMA SeenRead ==
    ASSUME NEW doc, DocFit(doc), NEW r, Counts(r), NEW s,
           r.part \in DOMAIN doc.parts, r.row \in 1..Len(D!RowsOf(doc, r.part)),
           r.cell # 0, r.cell <= Len(D!RowsOf(doc, r.part)[r.row].cells),
           s.part = r.part, s.row = r.row, s.cell = r.cell + 1
    PROVE  /\ <<r.part, r.row, r.cell>> \in D!Nodes(doc)
           /\ D!Seen(doc, s) = D!Seen(doc, r) \cup {<<r.part, r.row, r.cell>>}
           /\ \A n \in D!Seen(doc, r) : D!NodePrecedes(n, <<r.part, r.row, r.cell>>)
<1> DEFINE node == <<r.part, r.row, r.cell>>
<1>1. r.part \in Nat /\ r.row \in Nat /\ r.cell \in Nat /\ r.row # 0
  BY RowsListed DEF Counts
<1>2. r.cell \in 1..Len(D!RowsOf(doc, r.part)[r.row].cells)
  BY <1>1, RowsListed
<1>3. node \in D!Nodes(doc)
  BY <1>2, NodesAre
<1>4. ASSUME NEW n \in D!Nodes(doc)
      PROVE  n \in D!Seen(doc, s) <=> n \in D!Seen(doc, r) \/ n = node
  <2>1. n = <<n[1], n[2], n[3]>> /\ n[1] \in Nat /\ n[2] \in Nat /\ n[3] \in Nat
    BY NodesAreNumbers
  <2>2. n = node <=> n[1] = r.part /\ n[2] = r.row /\ n[3] = r.cell
    BY <2>1
  <2>3. n[3] < r.cell + 1 <=> n[3] < r.cell \/ n[3] = r.cell
    BY <1>1, <2>1
  <2>4. n \in D!Seen(doc, s) <=>
           n[1] < r.part \/ (n[1] = r.part /\ (n[2] < r.row \/ (n[2] = r.row /\ n[3] < r.cell + 1)))
    BY <1>1, SeenIs
  <2>5. n \in D!Seen(doc, r) <=>
           n[1] < r.part \/ (n[1] = r.part /\ (n[2] < r.row \/ (n[2] = r.row /\ n[3] < r.cell)))
    BY <1>1, SeenIs
  <2> HIDE DEF node
  <2>6. QED
    BY <2>2, <2>3, <2>4, <2>5
<1>5. \A n \in D!Seen(doc, r) : D!NodePrecedes(n, node)
  <2> SUFFICES ASSUME NEW n \in D!Seen(doc, r) PROVE D!NodePrecedes(n, node)
    OBVIOUS
  <2>1. n[1] < r.part \/ (n[1] = r.part /\ (n[2] < r.row \/ (n[2] = r.row /\ n[3] < r.cell)))
    BY <1>1, SeenIs
  <2>2. node[1] = r.part /\ node[2] = r.row /\ node[3] = r.cell
    OBVIOUS
  <2> HIDE DEF node
  <2>3. QED
    BY <2>1, <2>2 DEF D!NodePrecedes
<1>6. D!Seen(doc, r) \subseteq D!Nodes(doc) /\ D!Seen(doc, s) \subseteq D!Nodes(doc)
  BY SeenIs
<1> HIDE DEF node
<1>7. D!Seen(doc, s) = D!Seen(doc, r) \cup {node}
  BY <1>3, <1>4, <1>6
<1>8. QED
  BY <1>3, <1>5, <1>7 DEF node

\* Past the end of a row.
LEMMA SeenRow ==
    ASSUME NEW doc, DocFit(doc), NEW r, Counts(r), NEW s,
           r.part \in DOMAIN doc.parts, r.row \in 1..Len(D!RowsOf(doc, r.part)),
           r.cell > Len(D!RowsOf(doc, r.part)[r.row].cells),
           s.part = r.part, s.row \in Nat, s.row > r.row, s.cell = 1
    PROVE  \A n : n \in D!Seen(doc, s) <=>
              n \in D!Seen(doc, r) \/ (n \in D!Nodes(doc) /\ n[1] = r.part /\ n[2] > r.row /\ n[2] < s.row)
<1>1. r.part \in Nat /\ r.row \in Nat /\ r.cell \in Nat /\ r.row # 0 /\ s.row # 0
  BY RowsListed DEF Counts
<1>2. ASSUME NEW n \in D!Nodes(doc)
      PROVE  n \in D!Seen(doc, s) <=>
                n \in D!Seen(doc, r) \/ (n[1] = r.part /\ n[2] > r.row /\ n[2] < s.row)
  <2>1. /\ n[1] \in Nat /\ n[2] \in Nat /\ n[3] \in Nat /\ n[3] # 0
        /\ n[3] <= Len(D!RowsOf(doc, n[1])[n[2]].cells)
        /\ Len(D!RowsOf(doc, n[1])[n[2]].cells) \in Nat
    BY NodesAreNumbers
  <2>2. n[1] = r.part /\ n[2] = r.row => n[3] < r.cell
    BY <1>1, <2>1
  <2>3. n \in D!Seen(doc, s) <=>
           n[1] < r.part \/ (n[1] = r.part /\ (n[2] < s.row \/ (n[2] = s.row /\ n[3] < 1)))
    BY <1>1, SeenIs
  <2>4. n \in D!Seen(doc, r) <=>
           n[1] < r.part \/ (n[1] = r.part /\ (n[2] < r.row \/ (n[2] = r.row /\ n[3] < r.cell)))
    BY <1>1, SeenIs
  <2>5. ~(n[3] < 1)
    BY <2>1
  <2>6. n[2] < s.row <=> n[2] < r.row \/ n[2] = r.row \/ (n[2] > r.row /\ n[2] < s.row)
    BY <1>1, <2>1
  <2>7. QED
    BY <2>2, <2>3, <2>4, <2>5, <2>6
<1>3. QED
  BY <1>2, SeenIs

\* Past the end of a part, and on to the next.
LEMMA SeenPart ==
    ASSUME NEW doc, DocFit(doc), NEW r, Counts(r), NEW s,
           r.part \in DOMAIN doc.parts, r.row > Len(D!RowsOf(doc, r.part)),
           s.part = r.part, s.row = 0
    PROVE  D!Seen(doc, s) = D!Seen(doc, r)
<1>1. r.part \in Nat /\ r.row \in Nat /\ Len(D!RowsOf(doc, r.part)) \in Nat
  BY RowsListed DEF Counts
<1>2. ASSUME NEW n \in D!Nodes(doc) PROVE n \in D!Seen(doc, s) <=> n \in D!Seen(doc, r)
  <2>1. /\ n[2] \in Nat /\ n[2] <= Len(D!RowsOf(doc, n[1]))
    BY NodesAreNumbers
  <2>2. n[1] = r.part => n[2] < r.row
    BY <1>1, <2>1
  <2>3. n \in D!Seen(doc, s) <=> n[1] < r.part \/ n[1] = r.part
    BY SeenIs
  <2>4. n \in D!Seen(doc, r) <=> n[1] < r.part \/
           (n[1] = r.part /\ (r.row = 0 \/ n[2] < r.row \/ (n[2] = r.row /\ n[3] < r.cell)))
    BY SeenIs
  <2>5. QED
    BY <2>2, <2>3, <2>4
<1>3. QED
  BY <1>2, SeenIs

LEMMA SeenOpened ==
    ASSUME NEW doc, DocFit(doc), NEW r, Counts(r), NEW s, r.row = 0,
           s.part \in DOMAIN doc.parts, s.part > r.part, s.row = 1, s.cell = 1,
           \A q \in DOMAIN doc.parts : q > r.part => s.part <= q
    PROVE  D!Seen(doc, s) = D!Seen(doc, r)
<1>1. r.part \in Nat /\ s.part \in Nat
  BY RowsListed DEF Counts
<1>2. ASSUME NEW n \in D!Nodes(doc) PROVE n \in D!Seen(doc, s) <=> n \in D!Seen(doc, r)
  <2>1. /\ n[1] \in DOMAIN doc.parts /\ n[1] \in Nat /\ n[2] \in Nat /\ n[3] \in Nat
        /\ n[2] >= 1 /\ n[3] # 0
    BY NodesAreNumbers
  <2>2. ~(n[2] < 1) /\ ~(n[3] < 1)
    BY <2>1
  <2>3. n[1] < s.part <=> n[1] < r.part \/ n[1] = r.part
    BY <1>1, <2>1
  <2>4. n \in D!Seen(doc, s) <=> n[1] < s.part \/ (n[1] = s.part /\ (n[2] < 1 \/ (n[2] = 1 /\ n[3] < 1)))
    BY SeenIs
  <2>5. n \in D!Seen(doc, r) <=> n[1] < r.part \/ n[1] = r.part
    BY SeenIs
  <2>6. QED
    BY <2>2, <2>3, <2>4, <2>5
<1>3. QED
  BY <1>2, SeenIs

LEMMA SeenAll ==
    ASSUME NEW doc, DocFit(doc), NEW r, Counts(r), r.row = 0,
           \A q \in DOMAIN doc.parts : ~(q > r.part)
    PROVE  D!Seen(doc, r) = D!Nodes(doc)
<1>1. ASSUME NEW n \in D!Nodes(doc) PROVE n \in D!Seen(doc, r)
  <2>1. n[1] \in Nat /\ ~(n[1] > r.part) /\ r.part \in Nat
    BY NodesAreNumbers DEF Counts
  <2>2. n[1] < r.part \/ n[1] = r.part
    BY <2>1
  <2>3. QED
    BY <2>2, SeenIs
<1>2. QED
  BY <1>1, SeenIs

-----------------------------------------------------------------------------
(* The steps of a reader.                                                    *)

Good(doc, done, r, finished) ==
    /\ D!ReaderOK(doc, done, r)
    /\ D!PagesOK(doc, D!SoFar(doc, done, r), finished)
    /\ D!FoundIn(doc, D!SoFar(doc, done, r), D!Seen(doc, r))
    /\ D!NothingYet(doc, r)
    /\ D!NamedByPlace(doc, D!SoFar(doc, done, r), r)
    /\ D!NamedByCount(doc, D!SoFar(doc, done, r), r)

ReaderT(Z) == [part : Nat, row : Nat, cell : Nat, paragraphs : Nat, tables : Nat, blocks : Z]

LEMMA ReaderIs ==
    ASSUME NEW doc, NEW done, NEW r, D!ReaderOK(doc, done, r)
    PROVE  /\ r \in ReaderT({r.blocks}) /\ Counts(r) /\ r.paragraphs \in Nat /\ r.tables \in Nat
           /\ D!Listed(r.blocks) /\ D!Listed(done) /\ Len(done) \in Nat
           /\ r.row = 0 \/ doc.suffix = "docx" => r.blocks = <<>>
           /\ r.row # 0 => r.part \in DOMAIN doc.parts /\ r.cell # 0
  BY ListedShape DEF D!ReaderOK, ReaderT, Counts

\* Where the page that is being read is not among the pages, or gains nothing, they stay.
LEMMA SameAnyway ==
    ASSUME NEW p
    PROVE  Same(p, p)
  BY DEF Same

LEMMA PlaceKept ==
    ASSUME NEW doc, NEW p, NEW q, Same(p, q), NEW r, NEW s, D!NamedByPlace(doc, p, r),
           s.part = r.part, s.blocks = r.blocks
    PROVE  D!NamedByPlace(doc, q, s)
  BY DEF Same, D!NamedByPlace

LEMMA PlaceEmptied ==
    ASSUME NEW doc, NEW p, NEW q, Same(p, q), NEW r, NEW s, D!NamedByPlace(doc, p, r),
           s.blocks = <<>>
    PROVE  D!NamedByPlace(doc, q, s)
<1>1. DOMAIN s.blocks = {}
  BY ListedEmpty
<1>2. QED
  BY <1>1 DEF Same, D!NamedByPlace

PlaceGained(doc, p, q, new, b, r, s) ==
    /\ Adds(p, q, new, b) /\ D!NamedByPlace(doc, p, r) /\ doc.suffix # "docx"
    /\ b.locator = D!BlockLocator(doc, b.node, new[1], new[2]) /\ b.node[1] = r.part
    /\ \A x \in D!Places(p) : x[1] = new[1] => D!At(p, x).node[1] = r.part
    /\ s.part = r.part /\ \A k \in DOMAIN s.blocks : s.blocks[k].node[1] = r.part

LEMMA PlaceAdded ==
    ASSUME NEW doc, NEW p, NEW q, NEW new, NEW b, NEW r, NEW s,
           PlaceGained(doc, p, q, new, b, r, s)
    PROVE  D!NamedByPlace(doc, q, s)
<1> USE DEF PlaceGained
<1>1. /\ \A x : x \in D!Places(q) <=> x \in D!Places(p) \/ x = new
      /\ D!At(q, new) = b
      /\ \A x \in D!Places(p) : D!At(q, x) = D!At(p, x)
  BY DEF Adds
<1>2. ASSUME NEW x \in D!Places(q)
      PROVE  D!At(q, x).locator = D!BlockLocator(doc, D!At(q, x).node, x[1], x[2])
  <2>1. CASE x \in D!Places(p)
    BY <1>1, <2>1 DEF D!NamedByPlace
  <2>2. CASE x = new
    BY <1>1, <2>2
  <2>3. QED
    BY <1>1, <2>1, <2>2
<1>3. ASSUME NEW x \in D!Places(q), NEW y \in D!Places(q), x[1] = y[1]
      PROVE  D!At(q, x).node[1] = D!At(q, y).node[1]
  <2>1. CASE x \in D!Places(p) /\ y \in D!Places(p)
    BY <1>1, <1>3, <2>1 DEF D!NamedByPlace
  <2>2. CASE x = new /\ y \in D!Places(p)
    BY <1>1, <1>3, <2>2
  <2>3. CASE y = new /\ x \in D!Places(p)
    BY <1>1, <1>3, <2>3
  <2>4. CASE x = new /\ y = new
    BY <2>4
  <2>5. QED
    BY <1>1, <2>1, <2>2, <2>3, <2>4
<1>4. QED
  BY <1>2, <1>3 DEF D!NamedByPlace

LEMMA CountKept ==
    ASSUME NEW doc, NEW p, NEW q, Same(p, q), NEW r, NEW s, D!NamedByCount(doc, p, r),
           s.paragraphs = r.paragraphs, s.tables = r.tables,
           s.row = 0 \/ (s.part = r.part /\ r.row # 0)
    PROVE  D!NamedByCount(doc, q, s)
  BY DEF Same, D!NamedByCount, D!KindAt, D!CountAt

\* A new part: if it is a table it has a number no cell has.
LEMMA CountOpened ==
    ASSUME NEW doc, NEW p, NEW q, Same(p, q), NEW r, NEW s, D!NamedByCount(doc, p, r),
           r.tables \in Nat, s.paragraphs = r.paragraphs,
           s.tables = IF doc.parts[s.part].kind = "tbl" THEN r.tables + 1 ELSE r.tables
    PROVE  D!NamedByCount(doc, q, s)
<1> SUFFICES ASSUME doc.suffix = "docx" PROVE D!NamedByCount(doc, q, s)
  BY DEF D!NamedByCount
<1>1. \A x \in D!Places(q) :
         /\ x \in D!Places(p) /\ D!KindAt(doc, q, x) = D!KindAt(doc, p, x)
         /\ D!CountAt(q, x) = D!CountAt(p, x) /\ D!At(q, x) = D!At(p, x)
  BY DEF Same, D!KindAt, D!CountAt
<1>2. ASSUME NEW x \in D!Places(q)
      PROVE  \/ /\ D!KindAt(doc, q, x) = "p" /\ D!CountAt(q, x) \in 0..s.paragraphs
                /\ D!At(q, x).locator = <<"paragraph", D!CountAt(q, x)>>
             \/ /\ D!KindAt(doc, q, x) = "tbl" /\ D!CountAt(q, x) \in 0..s.tables
                /\ D!At(q, x).locator = <<"table_cell", D!CountAt(q, x),
                                          D!At(q, x).node[2], D!At(q, x).node[3]>>
                /\ s.row # 0 /\ doc.parts[s.part].kind = "tbl" /\ D!CountAt(q, x) = s.tables
                       => D!At(q, x).node[1] = s.part
  <2>1. CASE D!KindAt(doc, p, x) = "p"
    BY <1>1, <2>1 DEF D!NamedByCount
  <2>2. CASE D!KindAt(doc, p, x) # "p"
    <3>1. /\ D!KindAt(doc, p, x) = "tbl" /\ D!CountAt(p, x) \in 0..r.tables
          /\ D!At(p, x).locator = <<"table_cell", D!CountAt(p, x),
                                    D!At(p, x).node[2], D!At(p, x).node[3]>>
      BY <1>1, <2>2 DEF D!NamedByCount
    <3>2. D!CountAt(q, x) \in 0..s.tables
      BY <1>1, <3>1
    <3>3. doc.parts[s.part].kind = "tbl" => D!CountAt(q, x) # s.tables
      BY <1>1, <3>1
    <3>4. QED
      BY <1>1, <3>1, <3>2, <3>3
  <2>3. QED
    BY <2>1, <2>2
<1>3. \A x, y \in D!Places(q) :
         D!KindAt(doc, q, x) = "p" /\ D!KindAt(doc, q, y) = "p" /\ D!Precedes(x, y)
            => D!CountAt(q, x) < D!CountAt(q, y)
  BY <1>1 DEF D!NamedByCount
<1>4. \A x, y \in D!Places(q) :
         D!KindAt(doc, q, x) = "tbl" /\ D!KindAt(doc, q, y) = "tbl" /\ D!CountAt(q, x) = D!CountAt(q, y)
            => D!At(q, x).node[1] = D!At(q, y).node[1]
  BY <1>1 DEF D!NamedByCount
<1>5. QED
  BY <1>2, <1>3, <1>4 DEF D!NamedByCount

\* The locators of the next paragraph and of a cell of the table.
ParagraphName(r)      == <<"paragraph", r.paragraphs + 1>>
CellName(r, row, cell) == <<"table_cell", r.tables, row, cell>>

LEMMA ParagraphCounted ==
    ASSUME NEW doc, NEW p, NEW q, NEW new, NEW b, Adds(p, q, new, b), NEW r, NEW s,
           D!NamedByCount(doc, p, r), doc.suffix = "docx", r.paragraphs \in Nat, r.tables \in Nat,
           doc.parts[b.node[1]].kind = "p", b.locator = ParagraphName(r),
           s.paragraphs = r.paragraphs + 1, s.tables = r.tables, s.part = r.part, s.row = r.row
    PROVE  D!NamedByCount(doc, q, s)
<1>1. \A x \in D!Places(p) :
         /\ D!KindAt(doc, q, x) = D!KindAt(doc, p, x) /\ D!CountAt(q, x) = D!CountAt(p, x)
         /\ D!At(q, x) = D!At(p, x) /\ x # new /\ ~D!Precedes(new, x)
  BY DEF Adds, D!KindAt, D!CountAt
<1>2. \A x : x \in D!Places(q) <=> x \in D!Places(p) \/ x = new
  BY DEF Adds
<1>3. /\ D!KindAt(doc, q, new) = "p" /\ D!CountAt(q, new) = r.paragraphs + 1
      /\ D!At(q, new).locator = <<"paragraph", D!CountAt(q, new)>>
  BY DEF Adds, D!KindAt, D!CountAt, ParagraphName
<1>4. ASSUME NEW x \in D!Places(p)
      PROVE  \/ /\ D!KindAt(doc, p, x) = "p" /\ D!CountAt(p, x) \in 0..r.paragraphs
                /\ D!At(p, x).locator = <<"paragraph", D!CountAt(p, x)>>
             \/ /\ D!KindAt(doc, p, x) = "tbl" /\ D!CountAt(p, x) \in 0..r.tables
                /\ D!At(p, x).locator = <<"table_cell", D!CountAt(p, x),
                                          D!At(p, x).node[2], D!At(p, x).node[3]>>
                /\ r.row # 0 /\ doc.parts[r.part].kind = "tbl" /\ D!CountAt(p, x) = r.tables
                       => D!At(p, x).node[1] = r.part
  BY DEF D!NamedByCount
<1>5. \A x \in D!Places(p) : D!KindAt(doc, p, x) = "p" =>
         D!CountAt(p, x) \in 0..(r.paragraphs + 1) /\ D!CountAt(p, x) < r.paragraphs + 1
  BY <1>4
<1>6. ASSUME NEW x \in D!Places(q)
      PROVE  \/ /\ D!KindAt(doc, q, x) = "p" /\ D!CountAt(q, x) \in 0..s.paragraphs
                /\ D!At(q, x).locator = <<"paragraph", D!CountAt(q, x)>>
             \/ /\ D!KindAt(doc, q, x) = "tbl" /\ D!CountAt(q, x) \in 0..s.tables
                /\ D!At(q, x).locator = <<"table_cell", D!CountAt(q, x),
                                          D!At(q, x).node[2], D!At(q, x).node[3]>>
                /\ s.row # 0 /\ doc.parts[s.part].kind = "tbl" /\ D!CountAt(q, x) = s.tables
                       => D!At(q, x).node[1] = s.part
  <2>1. CASE x = new
    BY <1>3, <2>1
  <2>2. CASE x \in D!Places(p)
    BY <1>1, <1>4, <1>5, <2>2
  <2>3. QED
    BY <1>2, <2>1, <2>2
<1>7. ASSUME NEW x \in D!Places(q), NEW y \in D!Places(q),
             D!KindAt(doc, q, x) = "p", D!KindAt(doc, q, y) = "p", D!Precedes(x, y)
      PROVE  D!CountAt(q, x) < D!CountAt(q, y)
  <2>1. x # new
    <3>1. ~D!Precedes(new, new)
      BY DEF Adds, D!Precedes
    <3>2. QED
      BY <1>1, <1>2, <1>7, <3>1
  <2>2. CASE y = new
    BY <1>1, <1>2, <1>3, <1>5, <1>7, <2>1, <2>2
  <2>3. CASE y # new
    BY <1>1, <1>2, <1>7, <2>1, <2>3 DEF D!NamedByCount
  <2>4. QED
    BY <2>2, <2>3
<1>8. ASSUME NEW x \in D!Places(q), NEW y \in D!Places(q),
             D!KindAt(doc, q, x) = "tbl", D!KindAt(doc, q, y) = "tbl", D!CountAt(q, x) = D!CountAt(q, y)
      PROVE  D!At(q, x).node[1] = D!At(q, y).node[1]
  <2>1. x # new /\ y # new
    BY <1>3, <1>8
  <2>2. QED
    BY <1>1, <1>2, <1>8, <2>1 DEF D!NamedByCount
<1>9. QED
  BY <1>6, <1>7, <1>8 DEF D!NamedByCount

LEMMA TableCellCounted ==
    ASSUME NEW doc, NEW p, NEW q, NEW new, NEW b, Adds(p, q, new, b), NEW r, NEW s,
           D!NamedByCount(doc, p, r), doc.suffix = "docx", r.tables \in Nat,
           r.row # 0, b.node[1] = r.part, doc.parts[r.part].kind = "tbl",
           b.locator = CellName(r, b.node[2], b.node[3]),
           s.paragraphs = r.paragraphs, s.tables = r.tables, s.part = r.part, s.row = r.row
    PROVE  D!NamedByCount(doc, q, s)
<1>1. \A x \in D!Places(p) :
         /\ D!KindAt(doc, q, x) = D!KindAt(doc, p, x) /\ D!CountAt(q, x) = D!CountAt(p, x)
         /\ D!At(q, x) = D!At(p, x)
  BY DEF Adds, D!KindAt, D!CountAt
<1>2. \A x : x \in D!Places(q) <=> x \in D!Places(p) \/ x = new
  BY DEF Adds
<1>3. /\ D!KindAt(doc, q, new) = "tbl" /\ D!CountAt(q, new) = r.tables
      /\ D!At(q, new) = b
      /\ D!At(q, new).locator = <<"table_cell", D!CountAt(q, new), b.node[2], b.node[3]>>
  BY DEF Adds, D!KindAt, D!CountAt, CellName
<1>4. \A x \in D!Places(p) :
             \/ /\ D!KindAt(doc, p, x) = "p" /\ D!CountAt(p, x) \in 0..r.paragraphs
                /\ D!At(p, x).locator = <<"paragraph", D!CountAt(p, x)>>
             \/ /\ D!KindAt(doc, p, x) = "tbl" /\ D!CountAt(p, x) \in 0..r.tables
                /\ D!At(p, x).locator = <<"table_cell", D!CountAt(p, x),
                                          D!At(p, x).node[2], D!At(p, x).node[3]>>
                /\ r.row # 0 /\ doc.parts[r.part].kind = "tbl" /\ D!CountAt(p, x) = r.tables
                       => D!At(p, x).node[1] = r.part
  BY DEF D!NamedByCount
<1>5. r.tables \in 0..r.tables
  OBVIOUS
<1>6. ASSUME NEW x \in D!Places(q)
      PROVE  \/ /\ D!KindAt(doc, q, x) = "p" /\ D!CountAt(q, x) \in 0..s.paragraphs
                /\ D!At(q, x).locator = <<"paragraph", D!CountAt(q, x)>>
             \/ /\ D!KindAt(doc, q, x) = "tbl" /\ D!CountAt(q, x) \in 0..s.tables
                /\ D!At(q, x).locator = <<"table_cell", D!CountAt(q, x),
                                          D!At(q, x).node[2], D!At(q, x).node[3]>>
                /\ s.row # 0 /\ doc.parts[s.part].kind = "tbl" /\ D!CountAt(q, x) = s.tables
                       => D!At(q, x).node[1] = s.part
  <2>1. CASE x = new
    BY <1>3, <1>5, <2>1
  <2>2. CASE x \in D!Places(p)
    BY <1>1, <1>4, <2>2
  <2>3. QED
    BY <1>2, <2>1, <2>2
<1>7. ASSUME NEW x \in D!Places(q), NEW y \in D!Places(q),
             D!KindAt(doc, q, x) = "p", D!KindAt(doc, q, y) = "p", D!Precedes(x, y)
      PROVE  D!CountAt(q, x) < D!CountAt(q, y)
  <2>1. x # new /\ y # new
    BY <1>3, <1>7
  <2>2. QED
    BY <1>1, <1>2, <1>7, <2>1 DEF D!NamedByCount
\* A cell with the number of this table is a cell of this part.
<1>8. \A x \in D!Places(q) : D!KindAt(doc, q, x) = "tbl" /\ D!CountAt(q, x) = r.tables
         => D!At(q, x).node[1] = r.part
  <2> SUFFICES ASSUME NEW x \in D!Places(q), D!KindAt(doc, q, x) = "tbl", D!CountAt(q, x) = r.tables
               PROVE  D!At(q, x).node[1] = r.part
    OBVIOUS
  <2>1. CASE x = new
    BY <1>3, <2>1
  <2>2. CASE x \in D!Places(p)
    BY <1>1, <1>4, <2>2
  <2>3. QED
    BY <1>2, <2>1, <2>2
<1>9. ASSUME NEW x \in D!Places(q), NEW y \in D!Places(q),
             D!KindAt(doc, q, x) = "tbl", D!KindAt(doc, q, y) = "tbl", D!CountAt(q, x) = D!CountAt(q, y)
      PROVE  D!At(q, x).node[1] = D!At(q, y).node[1]
  <2>1. CASE x = new \/ y = new
    <3>1. D!CountAt(q, x) = r.tables /\ D!CountAt(q, y) = r.tables
      BY <1>3, <1>9, <2>1
    <3>2. QED
      BY <1>8, <1>9, <3>1
  <2>2. CASE x # new /\ y # new
    BY <1>1, <1>2, <1>9, <2>2 DEF D!NamedByCount
  <2>3. QED
    BY <2>1, <2>2
<1>10. QED
  BY <1>6, <1>7, <1>9 DEF D!NamedByCount

LEMMA PagesGrow ==
    ASSUME NEW doc, NEW p, D!Listed(p), D!PagesOK(doc, p, FALSE), NEW sheet,
           sheet.page = Len(p) + 1, D!Listed(D!Sources(sheet)),
           sheet.ocr_required => D!Sources(sheet) = <<>>,
           doc.suffix # "docx" => sheet.locator = D!PageLocator(doc, Len(p) + 1),
           doc.suffix = "docx" => sheet.blocks = <<>> /\ sheet.has_text
    PROVE  D!PagesOK(doc, Append(p, sheet), FALSE)
<1> DEFINE q == Append(p, sheet)
<1>1. /\ DOMAIN q = 1..(Len(p) + 1) /\ \A i \in 1..Len(p) : q[i] = p[i]
      /\ q[Len(p) + 1] = sheet
  BY ListedAppended
<1>2. DOMAIN p = 1..Len(p) /\ Len(p) \in Nat
  BY ListedShape
<1>3. \A i \in 1..(Len(p) + 1) : i \in 1..Len(p) \/ i = Len(p) + 1
  BY <1>2
<1> HIDE DEF q
<1>4. QED
  BY <1>1, <1>2, <1>3 DEF D!PagesOK, q

LEMMA PagesShrink ==
    ASSUME NEW doc, doc.suffix # "docx", NEW p, D!Listed(p), NEW sheet,
           D!PagesOK(doc, Append(p, sheet), FALSE)
    PROVE  D!PagesOK(doc, p, FALSE)
<1> DEFINE q == Append(p, sheet)
<1>1. DOMAIN q = 1..(Len(p) + 1) /\ \A i \in 1..Len(p) : q[i] = p[i]
  BY ListedAppended
<1>2. DOMAIN p = 1..Len(p) /\ Len(p) \in Nat
  BY ListedShape
<1>3. \A i \in 1..Len(p) : i \in 1..(Len(p) + 1)
  BY <1>2
<1> HIDE DEF q
<1>4. QED
  BY <1>1, <1>2, <1>3 DEF D!PagesOK, q

LEMMA PagesSources ==
    ASSUME NEW doc, NEW p, NEW finished, D!PagesOK(doc, p, finished)
    PROVE  \A i \in DOMAIN p : D!Listed(D!Sources(p[i]))
  BY DEF D!PagesOK

\* The reader's record after a node, and after a paragraph with text.
PastNode(r, s)      == s = [r EXCEPT !.cell = @ + 1]
PastParagraph(r, s) == s = [r EXCEPT !.cell = @ + 1, !.paragraphs = @ + 1]

LEMMA PastNodeIs ==
    ASSUME NEW Z, NEW r \in ReaderT(Z), NEW s, PastNode(r, s)
    PROVE  /\ s \in ReaderT(Z) /\ s.part = r.part /\ s.row = r.row /\ s.cell = r.cell + 1
           /\ s.blocks = r.blocks /\ s.tables = r.tables /\ s.paragraphs = r.paragraphs
           /\ s.cell # 0
  BY DEF ReaderT, PastNode

LEMMA PastParagraphIs ==
    ASSUME NEW Z, NEW r \in ReaderT(Z), NEW s, PastParagraph(r, s)
    PROVE  /\ s \in ReaderT(Z) /\ s.part = r.part /\ s.row = r.row /\ s.cell = r.cell + 1
           /\ s.blocks = r.blocks /\ s.tables = r.tables /\ s.paragraphs = r.paragraphs + 1
           /\ s.cell # 0
<1> DEFINE m == [r EXCEPT !.cell = @ + 1]
<1>1. PastNode(r, m)
  BY DEF PastNode
<1>2. s = [m EXCEPT !.paragraphs = @ + 1]
  BY DEF PastParagraph, ReaderT
<1> HIDE DEF m
<1>3. /\ m \in ReaderT(Z) /\ m.part = r.part /\ m.row = r.row /\ m.cell = r.cell + 1
      /\ m.blocks = r.blocks /\ m.tables = r.tables /\ m.paragraphs = r.paragraphs
      /\ m.cell # 0
  BY <1>1, PastNodeIs
<1>4. QED
  BY <1>2, <1>3 DEF ReaderT

\* What changes in the record, without its blocks.
Past(r, s) ==
    /\ s \in ReaderT({s.blocks}) /\ s.part = r.part /\ s.row = r.row /\ s.cell = r.cell + 1
    /\ s.cell # 0 /\ s.tables = r.tables

LEMMA NodePast ==
    ASSUME NEW doc, NEW done, NEW r, D!ReaderOK(doc, done, r), NEW s, PastNode(r, s)
    PROVE  Past(r, s) /\ s.blocks = r.blocks /\ s.paragraphs = r.paragraphs
<1> DEFINE Z == {r.blocks}
<1>1. r \in ReaderT(Z)
  BY ReaderIs
<1>2. Z = {r.blocks}
  OBVIOUS
<1> HIDE DEF Z
<1>3. /\ s \in ReaderT(Z) /\ s.part = r.part /\ s.row = r.row /\ s.cell = r.cell + 1
      /\ s.blocks = r.blocks /\ s.tables = r.tables /\ s.paragraphs = r.paragraphs
      /\ s.cell # 0
  BY <1>1, PastNodeIs
<1>4. s \in ReaderT({s.blocks})
  BY <1>2, <1>3
<1>5. QED
  BY <1>3, <1>4 DEF Past

LEMMA ParagraphPast ==
    ASSUME NEW doc, NEW done, NEW r, D!ReaderOK(doc, done, r), NEW s, PastParagraph(r, s)
    PROVE  Past(r, s) /\ s.blocks = r.blocks /\ s.paragraphs = r.paragraphs + 1
<1> DEFINE Z == {r.blocks}
<1>1. r \in ReaderT(Z)
  BY ReaderIs
<1>2. Z = {r.blocks}
  OBVIOUS
<1> HIDE DEF Z
<1>3. /\ s \in ReaderT(Z) /\ s.part = r.part /\ s.row = r.row /\ s.cell = r.cell + 1
      /\ s.blocks = r.blocks /\ s.tables = r.tables /\ s.paragraphs = r.paragraphs + 1
      /\ s.cell # 0
  BY <1>1, PastParagraphIs
<1>4. s \in ReaderT({s.blocks})
  BY <1>2, <1>3
<1>5. QED
  BY <1>3, <1>4 DEF Past

LEMMA PastIs ==
    ASSUME NEW r, NEW s, Past(r, s)
    PROVE  /\ s.part = r.part /\ s.row = r.row /\ s.cell = r.cell + 1
           /\ s.cell # 0 /\ s.tables = r.tables
  BY DEF Past

\* The node the reader is at.
Cursor(r) == <<r.part, r.row, r.cell>>

HasText(doc, node) == D!TextOf(doc, node) # ""

AtNode(doc, r) ==
    /\ r.row # 0 /\ r.row <= Len(D!RowsOf(doc, r.part))
    /\ r.cell <= Len(D!RowsOf(doc, r.part)[r.row].cells)

LEMMA NodeRead ==
    ASSUME NEW doc, DocFit(doc), NEW done, NEW r, D!ReaderOK(doc, done, r), AtNode(doc, r),
           NEW s, s.part = r.part, s.row = r.row, s.cell = r.cell + 1
    PROVE  /\ Cursor(r) \in D!Nodes(doc)
           /\ D!Seen(doc, s) = D!Seen(doc, r) \cup {Cursor(r)}
           /\ \A n \in D!Seen(doc, r) : D!NodePrecedes(n, Cursor(r))
           /\ r.part \in DOMAIN doc.parts
<1>1. r.row # 0
  BY DEF AtNode
<1>2. Counts(r) /\ r.part \in DOMAIN doc.parts /\ r.cell # 0 /\ r.row \in Nat
  BY <1>1, ReaderIs DEF Counts
<1>3. Len(D!RowsOf(doc, r.part)) \in Nat
  BY <1>2, RowsListed
<1>4. r.row \in 1..Len(D!RowsOf(doc, r.part))
  BY <1>2, <1>3 DEF AtNode
<1>5. r.cell <= Len(D!RowsOf(doc, r.part)[r.row].cells)
  BY DEF AtNode
<1>6. QED
  BY <1>2, <1>4, <1>5, SeenRead DEF Cursor

LEMMA CursorIs ==
    ASSUME NEW r
    PROVE  Cursor(r)[1] = r.part /\ Cursor(r)[2] = r.row /\ Cursor(r)[3] = r.cell
  BY DEF Cursor

LEMMA PassBlankGood ==
    ASSUME NEW doc, DocFit(doc), NEW done, NEW r, Good(doc, done, r, FALSE),
           AtNode(doc, r),
           NEW node, node = Cursor(r), D!TextOf(doc, node) = "",
           NEW s, PastNode(r, s)
    PROVE  Good(doc, done, s, FALSE)
<1> DEFINE pages == D!SoFar(doc, done, r)
<1>1. D!ReaderOK(doc, done, r)
  BY DEF Good
<1>2. Counts(r) /\ r.row \in Nat /\ r.paragraphs \in Nat
  BY <1>1, ReaderIs DEF Counts
<1>3. Past(r, s) /\ s.blocks = r.blocks /\ s.paragraphs = r.paragraphs
  BY <1>1, NodePast
<1>4. s.part = r.part /\ s.row = r.row /\ s.cell = r.cell + 1 /\ s.cell # 0 /\ s.tables = r.tables
  BY <1>3, PastIs
<1>5. D!SoFar(doc, done, s) = pages
  BY <1>3, <1>4 DEF D!SoFar
<1>6. r.part \in DOMAIN doc.parts /\ r.row # 0
  BY <1>1, <1>4, NodeRead DEF AtNode
<1>7. node \in D!Nodes(doc) /\ D!Seen(doc, s) = D!Seen(doc, r) \cup {node}
  BY <1>1, <1>4, NodeRead
<1>8. D!Filled(doc) \cap D!Seen(doc, s) = D!Filled(doc) \cap D!Seen(doc, r)
  BY <1>7 DEF D!Filled
<1> HIDE DEF pages
<1>9. Same(pages, pages)
  BY SameAnyway
<1>10. D!ReaderOK(doc, done, s)
  <2>1. s \in ReaderT({s.blocks})
    BY <1>3 DEF Past
  <2>2. QED
    BY <1>1, <1>3, <1>4, <1>5, <2>1 DEF D!ReaderOK, ReaderT, pages
<1>11. D!PagesOK(doc, pages, FALSE) /\ D!NamedByPlace(doc, pages, s) /\ D!NamedByCount(doc, pages, s)
  <2>1. D!PagesOK(doc, pages, FALSE) /\ D!NamedByPlace(doc, pages, r) /\ D!NamedByCount(doc, pages, r)
    BY DEF Good, pages
  <2>2. QED
    BY <1>3, <1>4, <1>6, <1>9, <2>1, PlaceKept, CountKept
<1>12. D!FoundIn(doc, pages, D!Seen(doc, s))
  BY <1>8, <1>9, FoundSame DEF Good, pages
<1>13. D!NothingYet(doc, s)
  <2>1. D!NothingYet(doc, r)
    BY DEF Good
  <2>2. QED
    BY <1>3, <1>4, <1>7, <2>1 DEF D!NothingYet
<1>14. QED
  BY <1>5, <1>10, <1>11, <1>12, <1>13 DEF Good

\* Where a paragraph and a cell of a table are named.
ParagraphAt(doc, r, s, loc) ==
    doc.parts[r.part].kind = "p" /\ loc = ParagraphName(r) /\ PastParagraph(r, s)
TableCellAt(doc, r, s, loc) ==
    doc.parts[r.part].kind = "tbl" /\ loc = CellName(r, r.row, r.cell) /\ PastNode(r, s)

LEMMA WordNodePast ==
    ASSUME NEW doc, NEW done, NEW r, D!ReaderOK(doc, done, r), NEW s, NEW loc,
           ParagraphAt(doc, r, s, loc) \/ TableCellAt(doc, r, s, loc)
    PROVE  /\ Past(r, s) /\ s.blocks = r.blocks
           /\ ParagraphAt(doc, r, s, loc) => s.paragraphs = r.paragraphs + 1
           /\ TableCellAt(doc, r, s, loc) => s.paragraphs = r.paragraphs
<1>1. ParagraphAt(doc, r, s, loc) => Past(r, s) /\ s.blocks = r.blocks /\ s.paragraphs = r.paragraphs + 1
  BY ParagraphPast DEF ParagraphAt
<1>2. TableCellAt(doc, r, s, loc) => Past(r, s) /\ s.blocks = r.blocks /\ s.paragraphs = r.paragraphs
  BY NodePast DEF TableCellAt
<1>3. QED
  BY <1>1, <1>2

\* A node of a Word document with text gets a page of its own.
LEMMA WordPageGood ==
    ASSUME NEW doc, DocFit(doc), NEW done, NEW r, Good(doc, done, r, FALSE),
           AtNode(doc, r),
           NEW node, node = Cursor(r),
           NEW t, t = D!TextOf(doc, node), HasText(doc, node), doc.suffix = "docx",
           NEW loc, NEW s, NEW n, n = Following(done),
           NEW sheet, sheet = OneText(t, n, loc, node),
           NEW more, more = Append(done, sheet),
           ParagraphAt(doc, r, s, loc) \/ TableCellAt(doc, r, s, loc)
    PROVE  Good(doc, more, s, FALSE)
<1> DEFINE b   == D!Block(t, loc, node)
           new == <<Len(done) + 1, 1>>
<1>1. D!ReaderOK(doc, done, r) /\ D!NamedByCount(doc, D!SoFar(doc, done, r), r)
  BY DEF Good
<1>2. /\ Counts(r) /\ r.row \in Nat
      /\ r.paragraphs \in Nat /\ r.tables \in Nat /\ D!Listed(done)
      /\ r.blocks = <<>>
  BY <1>1, ReaderIs DEF Counts
<1>3. /\ s \in ReaderT({s.blocks}) /\ s.blocks = r.blocks
      /\ s.part = r.part /\ s.row = r.row /\ s.cell = r.cell + 1 /\ s.cell # 0
      /\ s.tables = r.tables
      /\ ParagraphAt(doc, r, s, loc) => s.paragraphs = r.paragraphs + 1
      /\ TableCellAt(doc, r, s, loc) => s.paragraphs = r.paragraphs
  <2>1. /\ Past(r, s) /\ s.blocks = r.blocks
        /\ ParagraphAt(doc, r, s, loc) => s.paragraphs = r.paragraphs + 1
        /\ TableCellAt(doc, r, s, loc) => s.paragraphs = r.paragraphs
    BY <1>1, WordNodePast
  <2>2. QED
    BY <2>1 DEF Past
<1>4. D!SoFar(doc, done, r) = done /\ D!SoFar(doc, more, s) = more
  BY DEF D!SoFar
<1>5. r.part \in DOMAIN doc.parts /\ r.row # 0
  BY <1>1, <1>3, NodeRead DEF AtNode
<1>6. /\ node \in D!Nodes(doc) /\ D!Seen(doc, s) = D!Seen(doc, r) \cup {node}
      /\ \A m \in D!Seen(doc, r) : D!NodePrecedes(m, node)
  BY <1>1, <1>3, NodeRead
<1>7. node \in D!Filled(doc)
  BY <1>6 DEF D!Filled, HasText
<1>8. D!PagesOK(doc, done, FALSE) /\ \A i \in DOMAIN done : D!Listed(D!Sources(done[i]))
  BY <1>4, PagesSources DEF Good
<1>9. /\ Holds(sheet, b) /\ sheet.page = Len(done) + 1 /\ sheet.blocks = <<>>
      /\ sheet.has_text /\ ~sheet.ocr_required
  <2>1. /\ Holds(sheet, b) /\ sheet.page = n /\ sheet.blocks = <<>>
        /\ sheet.has_text /\ ~sheet.ocr_required
    BY OneTextHolds DEF b
  <2>2. QED
    BY <2>1 DEF Following
<1>10. b.text = t /\ b.locator = loc /\ b.node = node
  BY DEF D!Block
<1>11. b.node[1] = r.part /\ b.node[2] = r.row /\ b.node[3] = r.cell
  BY <1>10, CursorIs
<1> HIDE DEF b, new
<1>12. D!Sources(sheet) = <<b>>
  BY <1>9 DEF Holds
<1>13. Adds(done, more, new, b)
  BY <1>2, <1>8, <1>12, AddsPage DEF new
<1>14. D!PagesOK(doc, more, FALSE)
  <2>1. D!Listed(D!Sources(sheet))
    BY <1>12, ListedSingle
  <2>2. QED
    BY <1>2, <1>8, <1>9, <2>1, PagesGrow
<1>15. D!FoundIn(doc, more, D!Seen(doc, s))
  <2>1. D!FoundIn(doc, done, D!Seen(doc, r))
    BY <1>4 DEF Good
  <2>2. b.text = D!TextOf(doc, b.node)
    BY <1>10
  <2>3. D!Filled(doc) \cap D!Seen(doc, s) = (D!Filled(doc) \cap D!Seen(doc, r)) \cup {b.node}
    BY <1>6, <1>7, <1>10
  <2>4. \A m \in D!Filled(doc) \cap D!Seen(doc, r) : D!NodePrecedes(m, b.node)
    BY <1>6, <1>10
  <2>5. QED
    BY <1>13, <2>1, <2>2, <2>3, <2>4, FoundAdded
<1>16. D!NamedByCount(doc, more, s)
  <2>1. CASE ParagraphAt(doc, r, s, loc)
    <3>1. doc.parts[b.node[1]].kind = "p" /\ b.locator = ParagraphName(r)
      BY <1>10, <1>11, <2>1 DEF ParagraphAt
    <3>2. s.paragraphs = r.paragraphs + 1
      BY <1>3, <2>1
    <3>3. /\ Adds(done, more, new, b) /\ D!NamedByCount(doc, done, r) /\ r.paragraphs \in Nat
          /\ r.tables \in Nat /\ s.tables = r.tables /\ s.part = r.part /\ s.row = r.row
      BY <1>1, <1>2, <1>3, <1>4, <1>13
    <3>4. QED
      BY <3>1, <3>2, <3>3, ParagraphCounted
  <2>2. CASE TableCellAt(doc, r, s, loc)
    <3>1. b.locator = CellName(r, b.node[2], b.node[3]) /\ doc.parts[r.part].kind = "tbl"
      BY <1>10, <1>11, <2>2 DEF TableCellAt
    <3>2. s.paragraphs = r.paragraphs
      BY <1>3, <2>2
    <3>3. /\ Adds(done, more, new, b) /\ D!NamedByCount(doc, done, r) /\ b.node[1] = r.part
          /\ r.tables \in Nat /\ s.tables = r.tables /\ s.part = r.part /\ s.row = r.row
          /\ r.row # 0
      BY <1>1, <1>2, <1>3, <1>4, <1>5, <1>11, <1>13
    <3>4. QED
      BY <3>1, <3>2, <3>3, TableCellCounted
  <2>3. QED
    BY <2>1, <2>2
<1>17. D!NothingYet(doc, s) /\ D!NamedByPlace(doc, more, s)
  BY DEF D!NothingYet, D!NamedByPlace
<1>18. D!ReaderOK(doc, more, s)
  <2>1. D!Listed(more)
    BY <1>2, ListedAppended
  <2>2. QED
    BY <1>1, <1>2, <1>3, <2>1 DEF D!ReaderOK, ReaderT
<1>19. QED
  BY <1>4, <1>14, <1>15, <1>16, <1>17, <1>18 DEF Good

\* The reader's record after a block of a page, and what the block is.
PastBlock(r, s, b) == s = [r EXCEPT !.cell = @ + 1, !.blocks = Append(@, b)]
NextBlock(doc, done, r) ==
    D!Block(D!TextOf(doc, Cursor(r)), D!BlockLocator(doc, Cursor(r), Len(done) + 1, Len(r.blocks) + 1),
            Cursor(r))

LEMMA BlockPast ==
    ASSUME NEW doc, NEW done, NEW r, D!ReaderOK(doc, done, r), NEW b, NEW s, PastBlock(r, s, b)
    PROVE  Past(r, s) /\ s.blocks = Append(r.blocks, b) /\ s.paragraphs = r.paragraphs
<1> DEFINE Z    == {r.blocks}
           more == Append(r.blocks, b)
           m    == [r EXCEPT !.cell = @ + 1]
<1>1. r \in ReaderT(Z)
  BY ReaderIs
<1>2. PastNode(r, m)
  BY DEF PastNode
<1>3. s = [m EXCEPT !.blocks = more]
  BY <1>1 DEF PastBlock, ReaderT
<1> HIDE DEF Z, m, more
<1>4. /\ m \in ReaderT(Z) /\ m.part = r.part /\ m.row = r.row /\ m.cell = r.cell + 1
      /\ m.blocks = r.blocks /\ m.tables = r.tables /\ m.paragraphs = r.paragraphs
      /\ m.cell # 0
  BY <1>1, <1>2, PastNodeIs
<1>5. /\ s \in ReaderT({more}) /\ s.part = m.part /\ s.row = m.row /\ s.cell = m.cell
      /\ s.tables = m.tables /\ s.paragraphs = m.paragraphs /\ s.blocks = more
  BY <1>3, <1>4 DEF ReaderT
<1>6. QED
  BY <1>4, <1>5 DEF Past, more

LEMMA NextBlockIs ==
    ASSUME NEW doc, NEW done, NEW r, NEW b, b = NextBlock(doc, done, r)
    PROVE  /\ b.text = D!TextOf(doc, b.node) /\ b.node = Cursor(r) /\ b.node[1] = r.part
           /\ b.locator = D!BlockLocator(doc, b.node, Len(done) + 1, Len(r.blocks) + 1)
<1>1. b.node = Cursor(r)
  BY DEF NextBlock, D!Block
<1>2. Cursor(r)[1] = r.part
  BY CursorIs
<1>3. QED
  BY <1>1, <1>2 DEF NextBlock, D!Block

\* The pages with the one that is being read.
OpenPages(doc, done, blocks) == Append(done, D!PartPage(doc, blocks, Len(done) + 1))

LEMMA OpenPagesAre ==
    ASSUME NEW doc, NEW done, NEW r
    PROVE  /\ doc.suffix # "docx" /\ r.row # 0 => D!SoFar(doc, done, r) = OpenPages(doc, done, r.blocks)
           /\ doc.suffix = "docx" \/ r.row = 0 => D!SoFar(doc, done, r) = done
  BY DEF D!SoFar, OpenPages

\* What is on them.
LEMMA OpenPagesOK ==
    ASSUME NEW doc, doc.suffix # "docx", NEW done, D!Listed(done), D!PagesOK(doc, done, FALSE),
           NEW blocks, D!Listed(blocks)
    PROVE  /\ D!PagesOK(doc, OpenPages(doc, done, blocks), FALSE)
           /\ D!Listed(OpenPages(doc, done, blocks)) /\ Len(OpenPages(doc, done, blocks)) = Len(done) + 1
<1> DEFINE n     == Len(done) + 1
           sheet == D!PartPage(doc, blocks, n)
<1>1. /\ D!Sources(sheet) = blocks /\ sheet.page = n /\ sheet.locator = D!PageLocator(doc, n)
      /\ sheet.ocr_required => blocks = <<>>
  BY PartPageHolds
<1> HIDE DEF sheet
<1>2. D!PagesOK(doc, Append(done, sheet), FALSE)
  BY <1>1, PagesGrow
<1>3. D!Listed(Append(done, sheet)) /\ Len(Append(done, sheet)) = Len(done) + 1
  BY ListedAppended
<1>4. OpenPages(doc, done, blocks) = Append(done, sheet)
  BY DEF OpenPages, sheet
<1>5. QED
  BY <1>2, <1>3, <1>4

\* A page without blocks has no place.
LEMMA OpenPagesEmpty ==
    ASSUME NEW doc, NEW done, D!Listed(done), \A i \in DOMAIN done : D!Listed(D!Sources(done[i])),
           NEW blocks, D!Listed(blocks), blocks = <<>>
    PROVE  Same(done, OpenPages(doc, done, blocks))
<1> DEFINE sheet == D!PartPage(doc, blocks, Len(done) + 1)
<1>1. D!Sources(sheet) = <<>>
  BY PartPageHolds
<1> HIDE DEF sheet
<1>2. Same(done, Append(done, sheet))
  BY <1>1, SamePages
<1>3. QED
  BY <1>2 DEF OpenPages, sheet

\* The places of done, and page n with as many as there are blocks.
OpenPlacesAre(doc, done, blocks, n) ==
    /\ \A x : x \in D!Places(OpenPages(doc, done, blocks)) <=>
          x \in D!Places(done) \/ \E k \in 1..Len(blocks) : x = <<n, k>>
    /\ \A x \in D!Places(done) : D!At(OpenPages(doc, done, blocks), x) = D!At(done, x) /\ x[1] # n
    /\ \A k : D!At(OpenPages(doc, done, blocks), <<n, k>>) = blocks[k]

LEMMA OpenPlaces ==
    ASSUME NEW doc, NEW done, D!Listed(done), \A i \in DOMAIN done : D!Listed(D!Sources(done[i])),
           NEW blocks, D!Listed(blocks)
    PROVE  OpenPlacesAre(doc, done, blocks, Len(done) + 1)
<1> DEFINE n     == Len(done) + 1
           sheet == D!PartPage(doc, blocks, n)
<1>1. D!Sources(sheet) = blocks
  BY PartPageHolds
<1> HIDE DEF sheet
<1> DEFINE pages == OpenPages(doc, done, blocks)
<1>2. pages = Append(done, sheet)
  BY DEF OpenPages, sheet
<1>3. /\ \A x : x \in D!Places(pages) <=>
            x \in D!Places(done) \/ \E k \in 1..Len(blocks) : x = <<Len(done) + 1, k>>
      /\ \A x \in D!Places(done) : D!At(pages, x) = D!At(done, x)
      /\ \A k : D!At(pages, <<Len(done) + 1, k>>) = blocks[k]
  BY <1>1, <1>2, PageAppended
<1>4. ASSUME NEW x \in D!Places(done) PROVE x[1] # Len(done) + 1
  BY PlacesAreNumbers
<1>5. QED
  BY <1>3, <1>4 DEF OpenPlacesAre

\* Before the page that is being read all is well.
LEMMA PagesBefore ==
    ASSUME NEW doc, NEW done, NEW r, Good(doc, done, r, FALSE)
    PROVE  D!PagesOK(doc, done, FALSE) /\ \A i \in DOMAIN done : D!Listed(D!Sources(done[i]))
<1>1. D!ReaderOK(doc, done, r) /\ D!PagesOK(doc, D!SoFar(doc, done, r), FALSE)
  BY DEF Good
<1>2. D!Listed(done)
  BY <1>1, ReaderIs
<1>3. D!PagesOK(doc, done, FALSE)
  <2>1. CASE doc.suffix = "docx" \/ r.row = 0
    BY <1>1, <2>1, OpenPagesAre
  <2>2. CASE doc.suffix # "docx" /\ r.row # 0
    <3>1. D!PagesOK(doc, OpenPages(doc, done, r.blocks), FALSE)
      BY <1>1, <2>2, OpenPagesAre
    <3>2. QED
      BY <1>2, <2>2, <3>1, PagesShrink DEF OpenPages
  <2>3. QED
    BY <2>1, <2>2
<1>4. QED
  BY <1>3, PagesSources

\* A place on the page that is being read is a block of it.
LEMMA OpenPlaceIn ==
    ASSUME NEW doc, NEW done, D!Listed(done), \A i \in DOMAIN done : D!Listed(D!Sources(done[i])),
           NEW blocks, D!Listed(blocks), NEW p, \A k \in DOMAIN blocks : blocks[k].node[1] = p
    PROVE  \A x \in D!Places(OpenPages(doc, done, blocks)) :
              x[1] = Len(done) + 1 => D!At(OpenPages(doc, done, blocks), x).node[1] = p
<1> DEFINE pages == OpenPages(doc, done, blocks)
           n     == Len(done) + 1
<1>4. OpenPlacesAre(doc, done, blocks, n)
  BY OpenPlaces
<1> HIDE DEF n
<1>1. /\ \A y : y \in D!Places(pages) <=>
            y \in D!Places(done) \/ \E k \in 1..Len(blocks) : y = <<n, k>>
      /\ \A y \in D!Places(done) : y[1] # n
      /\ \A k : D!At(pages, <<n, k>>) = blocks[k]
  BY <1>4 DEF OpenPlacesAre
<1>2. DOMAIN blocks = 1..Len(blocks)
  BY ListedShape
<1> HIDE DEF pages
<1>3. ASSUME NEW x \in D!Places(pages), x[1] = n PROVE D!At(pages, x).node[1] = p
  <2>1. x \notin D!Places(done)
    BY <1>1, <1>3
  <2>2. \E k \in 1..Len(blocks) : x = <<n, k>>
    BY <1>1, <2>1, Zenon
  <2>3. PICK k \in 1..Len(blocks) : x = <<n, k>>
    BY <2>2
  <2>4. D!At(pages, x) = blocks[k]
    BY <1>1, <2>3
  <2>5. QED
    BY <1>2, <2>4
<1>5. QED
  BY <1>3 DEF pages, n

LEMMA ReadBlockGood ==
    ASSUME NEW doc, DocFit(doc), NEW done, NEW r, Good(doc, done, r, FALSE),
           AtNode(doc, r), HasText(doc, Cursor(r)), doc.suffix # "docx",
           NEW b, b = NextBlock(doc, done, r), NEW s, PastBlock(r, s, b)
    PROVE  Good(doc, done, s, FALSE)
<1> DEFINE old   == OpenPages(doc, done, r.blocks)
           new   == OpenPages(doc, done, s.blocks)
           place == <<Len(done) + 1, Len(r.blocks) + 1>>
<1>1. D!ReaderOK(doc, done, r)
  BY DEF Good
<1>2. /\ Counts(r) /\ r.row \in Nat /\ D!Listed(done) /\ Len(done) \in Nat
      /\ D!Listed(r.blocks) /\ Len(r.blocks) \in Nat
  BY <1>1, ReaderIs, ListedShape DEF Counts
<1>3. Past(r, s) /\ s.blocks = Append(r.blocks, b) /\ s.paragraphs = r.paragraphs
  BY <1>1, BlockPast
<1>4. s.part = r.part /\ s.row = r.row /\ s.cell = r.cell + 1 /\ s.cell # 0 /\ s.tables = r.tables
  BY <1>3, PastIs
<1>5. r.part \in DOMAIN doc.parts /\ r.row # 0 /\ r.row <= Len(D!RowsOf(doc, r.part))
  BY <1>1, <1>4, NodeRead DEF AtNode
<1>6. /\ Cursor(r) \in D!Nodes(doc) /\ D!Seen(doc, s) = D!Seen(doc, r) \cup {Cursor(r)}
      /\ \A m \in D!Seen(doc, r) : D!NodePrecedes(m, Cursor(r))
  BY <1>1, <1>4, NodeRead
<1>7. /\ b.text = D!TextOf(doc, b.node) /\ b.node = Cursor(r) /\ b.node[1] = r.part
      /\ b.locator = D!BlockLocator(doc, b.node, Len(done) + 1, Len(r.blocks) + 1)
  BY NextBlockIs
<1>8. D!SoFar(doc, done, r) = old /\ D!SoFar(doc, done, s) = new
  BY <1>4, <1>5, OpenPagesAre
<1>9. D!PagesOK(doc, done, FALSE) /\ \A i \in DOMAIN done : D!Listed(D!Sources(done[i]))
  BY PagesBefore
<1>10. /\ D!Listed(s.blocks) /\ DOMAIN s.blocks = 1..(Len(r.blocks) + 1) /\ s.blocks # <<>>
       /\ \A k \in 1..Len(r.blocks) : s.blocks[k] = r.blocks[k]
       /\ s.blocks[Len(r.blocks) + 1] = b
  BY <1>2, <1>3, ListedAppended
<1>11. /\ D!PagesOK(doc, new, FALSE) /\ Len(new) = Len(done) + 1 /\ Len(old) = Len(done) + 1
  BY <1>2, <1>9, <1>10, OpenPagesOK
<1>12. Adds(old, new, place, b)
  BY <1>2, <1>3, <1>9, AddsBlock DEF OpenPages
<1>13. /\ D!FoundIn(doc, old, D!Seen(doc, r)) /\ D!NothingYet(doc, r) /\ D!NamedByPlace(doc, old, r)
  BY <1>8 DEF Good
<1>14. Cursor(r) \in D!Filled(doc)
  <2>1. D!TextOf(doc, Cursor(r)) # ""
    BY DEF HasText
  <2>2. ASSUME doc.suffix = "pptx", NEW m \in D!Nodes(doc), m[1] = Cursor(r)[1], m[2] < Cursor(r)[2]
        PROVE  D!TextOf(doc, m) = ""
    <3>1. m[1] = r.part /\ m[2] < r.row
      BY <2>2, CursorIs
    <3>2. QED
      BY <1>5, <1>13, <2>2, <3>1 DEF D!NothingYet
  <2>3. QED
    BY <1>6, <2>1, <2>2 DEF D!Filled
<1> HIDE DEF old, new, place
<1>15. D!FoundIn(doc, new, D!Seen(doc, s))
  <2>1. D!Filled(doc) \cap D!Seen(doc, s) = (D!Filled(doc) \cap D!Seen(doc, r)) \cup {b.node}
    BY <1>6, <1>7, <1>14
  <2>2. \A m \in D!Filled(doc) \cap D!Seen(doc, r) : D!NodePrecedes(m, b.node)
    BY <1>6, <1>7
  <2>3. b.text = D!TextOf(doc, b.node)
    BY <1>7
  <2>4. QED
    BY <1>12, <1>13, <2>1, <2>2, <2>3, FoundAdded
<1>16. D!NothingYet(doc, s)
  <2>1. CASE doc.suffix = "pptx"
    BY <1>4, <1>10, <1>13, <2>1 DEF D!NothingYet
  <2>2. CASE doc.suffix # "pptx"
    BY <1>10, <2>2 DEF D!NothingYet
  <2>3. QED
    BY <2>1, <2>2
<1>17. D!NamedByPlace(doc, new, s)
  <2>1. \A k \in DOMAIN r.blocks : r.blocks[k].node[1] = r.part
    BY <1>13 DEF D!NamedByPlace
  <2>2. DOMAIN r.blocks = 1..Len(r.blocks)
    BY <1>2, ListedShape
  <2>3. \A x \in D!Places(old) : x[1] = Len(done) + 1 => D!At(old, x).node[1] = r.part
    BY <1>2, <1>9, <2>1, OpenPlaceIn DEF old
  <2>4. \A k \in DOMAIN s.blocks : s.blocks[k].node[1] = r.part
    <3>1. \A k \in 1..(Len(r.blocks) + 1) : k \in 1..Len(r.blocks) \/ k = Len(r.blocks) + 1
      BY <1>2
    <3>2. QED
      BY <1>7, <1>10, <2>1, <2>2, <3>1
  <2>5. place[1] = Len(done) + 1 /\ place[2] = Len(r.blocks) + 1
    BY DEF place
  <2>6. b.locator = D!BlockLocator(doc, b.node, place[1], place[2])
    BY <1>7, <2>5
  <2>7. \A x \in D!Places(old) : x[1] = place[1] => D!At(old, x).node[1] = r.part
    BY <2>3, <2>5
  <2>8. QED
    <3>1. PlaceGained(doc, old, new, place, b, r, s)
      BY <1>4, <1>7, <1>12, <1>13, <2>4, <2>6, <2>7 DEF PlaceGained
    <3>2. QED
      BY <3>1, PlaceAdded
<1>18. D!NamedByCount(doc, new, s)
  BY DEF D!NamedByCount
<1>19. D!ReaderOK(doc, done, s)
  <2>1. s \in [part : Nat, row : Nat, cell : Nat, paragraphs : Nat, tables : Nat, blocks : {s.blocks}]
    BY <1>3 DEF Past, ReaderT
  <2>2. D!Listed(s.blocks) /\ D!Listed(done) /\ s.row # 0 /\ s.part \in DOMAIN doc.parts
    BY <1>2, <1>4, <1>5, <1>10
  <2>3. doc.suffix = "txt" => r.part \in {0, 1} /\ Len(old) = r.part
    BY <1>1, <1>8 DEF D!ReaderOK
  <2>4. doc.suffix = "txt" => s.part \in {0, 1} /\ Len(D!SoFar(doc, done, s)) = s.part
    BY <1>4, <1>8, <1>11, <2>3
  <2>5. QED
    BY <1>4, <2>1, <2>2, <2>4 DEF D!ReaderOK
<1>20. QED
  BY <1>8, <1>11, <1>15, <1>16, <1>17, <1>18, <1>19 DEF Good

\* The reader's record after a row.
NextRowOf(doc, r) ==
    IF doc.suffix = "pptx" /\ r.blocks # <<>> THEN Len(D!RowsOf(doc, r.part)) + 1 ELSE r.row + 1
PastRow(doc, r, s) == s = [r EXCEPT !.cell = 1, !.row = NextRowOf(doc, r)]

LEMMA RowPast ==
    ASSUME NEW doc, NEW done, NEW r, D!ReaderOK(doc, done, r), NEW s, PastRow(doc, r, s),
           NextRowOf(doc, r) \in Nat
    PROVE  /\ s \in ReaderT({s.blocks}) /\ s.part = r.part /\ s.row = NextRowOf(doc, r) /\ s.cell = 1
           /\ s.blocks = r.blocks /\ s.tables = r.tables /\ s.paragraphs = r.paragraphs
<1> DEFINE Z == {r.blocks}
           n == NextRowOf(doc, r)
           m == [r EXCEPT !.cell = 1]
<1>1. r \in ReaderT(Z) /\ n \in Nat
  BY ReaderIs
<1>2. Z = {r.blocks}
  OBVIOUS
<1>3. s = [m EXCEPT !.row = n]
  BY <1>1 DEF PastRow, ReaderT
<1> HIDE DEF Z, n
<1>4. /\ m \in ReaderT(Z) /\ m.part = r.part /\ m.cell = 1
      /\ m.blocks = r.blocks /\ m.tables = r.tables /\ m.paragraphs = r.paragraphs
  BY <1>1 DEF ReaderT
<1> HIDE DEF m
<1>5. /\ s \in ReaderT(Z) /\ s.part = m.part /\ s.row = n /\ s.cell = m.cell
      /\ s.tables = m.tables /\ s.paragraphs = m.paragraphs /\ s.blocks = m.blocks
  BY <1>1, <1>3, <1>4 DEF ReaderT
<1>6. s \in ReaderT({s.blocks})
  BY <1>2, <1>4, <1>5
<1>7. QED
  BY <1>4, <1>5, <1>6 DEF n

\* The reader is past the cells of a row.
AtRowEnd(doc, r) ==
    /\ r.row # 0 /\ r.row <= Len(D!RowsOf(doc, r.part))
    /\ ~(r.cell <= Len(D!RowsOf(doc, r.part)[r.row].cells))

\* The first block of a page is the text of a node of its part that was seen.
LEMMA FirstBlock ==
    ASSUME NEW doc, doc.suffix # "docx", NEW done, NEW r, Good(doc, done, r, FALSE), r.row # 0,
           r.blocks # <<>>
    PROVE  \E m \in D!Filled(doc) \cap D!Seen(doc, r) : m[1] = r.part
<1> DEFINE pages == OpenPages(doc, done, r.blocks)
           n     == Len(done) + 1
           x     == <<n, 1>>
<1>1. D!ReaderOK(doc, done, r) /\ D!SoFar(doc, done, r) = pages
  BY OpenPagesAre DEF Good
<1>2. D!Listed(done) /\ D!Listed(r.blocks) /\ Len(r.blocks) \in Nat /\ DOMAIN r.blocks = 1..Len(r.blocks)
  BY <1>1, ReaderIs, ListedShape
<1>3. 1 \in 1..Len(r.blocks)
  BY <1>2, ListedSome
<1>4. OpenPlacesAre(doc, done, r.blocks, n)
  BY <1>2, PagesBefore, OpenPlaces
<1>5. D!FoundIn(doc, pages, D!Seen(doc, r)) /\ D!NamedByPlace(doc, pages, r)
  BY <1>1 DEF Good
<1> HIDE DEF n
<1>6. x \in D!Places(pages) /\ D!At(pages, x) = r.blocks[1]
  BY <1>3, <1>4 DEF OpenPlacesAre
<1> HIDE DEF pages, x
<1>7. D!At(pages, x).node \in D!Filled(doc) \cap D!Seen(doc, r)
  BY <1>5, <1>6 DEF D!FoundIn
<1>8. r.blocks[1].node[1] = r.part
  BY <1>2, <1>3, <1>5 DEF D!NamedByPlace
<1>9. QED
  BY <1>6, <1>7, <1>8

\* On a slide, the rows after one with text are not looked at.
LEMMA BehindFilled ==
    ASSUME NEW doc, DocFit(doc), doc.suffix = "pptx", NEW r, Counts(r), r.row # 0,
           NEW m \in D!Filled(doc) \cap D!Seen(doc, r), m[1] = r.part
    PROVE  \A n \in D!Nodes(doc) : n[1] = r.part /\ n[2] > r.row => n \notin D!Filled(doc)
<1>1. m \in D!Nodes(doc) /\ D!TextOf(doc, m) # ""
  BY DEF D!Filled
<1>2. m[1] \in Nat /\ m[2] \in Nat /\ m[3] \in Nat
  BY <1>1, NodesAreNumbers
<1>3. r.row \in Nat /\ r.part \in Nat
  BY DEF Counts
<1>4. m[2] < r.row \/ m[2] = r.row
  <2>1. m[1] < r.part \/ (m[1] = r.part /\ (r.row = 0 \/ m[2] < r.row \/ (m[2] = r.row /\ m[3] < r.cell)))
    BY SeenIs
  <2>2. ~(m[1] < r.part)
    BY <1>2
  <2>3. QED
    BY <2>1, <2>2
<1>5. ASSUME NEW n \in D!Nodes(doc), n[1] = r.part, n[2] > r.row PROVE n \notin D!Filled(doc)
  <2>1. n[2] \in Nat
    BY NodesAreNumbers
  <2>2. m[2] < n[2]
    BY <1>2, <1>3, <1>4, <1>5, <2>1
  <2>3. m[1] = n[1]
    BY <1>5
  <2>4. QED
    BY <1>1, <2>2, <2>3 DEF D!Filled
<1>6. QED
  BY <1>5

LEMMA NextRowGood ==
    ASSUME NEW doc, DocFit(doc), NEW done, NEW r, Good(doc, done, r, FALSE),
           AtRowEnd(doc, r), NEW s, PastRow(doc, r, s)
    PROVE  Good(doc, done, s, FALSE)
<1> DEFINE pages == D!SoFar(doc, done, r)
           rows  == Len(D!RowsOf(doc, r.part))
           skip  == doc.suffix = "pptx" /\ r.blocks # <<>>
<1>1. D!ReaderOK(doc, done, r) /\ r.row # 0 /\ r.row <= rows
  BY DEF Good, AtRowEnd
<1>2. /\ Counts(r) /\ r.row \in Nat /\ r.cell \in Nat /\ r.part \in DOMAIN doc.parts
      /\ D!Listed(r.blocks) /\ r.paragraphs \in Nat
  BY <1>1, ReaderIs DEF Counts
<1>3. rows \in Nat /\ r.row \in 1..rows
  BY <1>1, <1>2, RowsListed
<1>4. Len(D!RowsOf(doc, r.part)[r.row].cells) \in Nat
  BY <1>2, <1>3, RowsListed
<1>5. NextRowOf(doc, r) = IF skip THEN rows + 1 ELSE r.row + 1
  BY DEF NextRowOf
<1> HIDE DEF rows, skip
<1>6. NextRowOf(doc, r) \in Nat /\ NextRowOf(doc, r) > r.row /\ NextRowOf(doc, r) # 0
  BY <1>2, <1>3, <1>5
<1>7. /\ s \in ReaderT({s.blocks}) /\ s.part = r.part /\ s.row = NextRowOf(doc, r) /\ s.cell = 1
      /\ s.blocks = r.blocks /\ s.tables = r.tables /\ s.paragraphs = r.paragraphs
  BY <1>1, <1>6, RowPast
<1>8. \A n : n \in D!Seen(doc, s) <=>
         n \in D!Seen(doc, r) \/ (n \in D!Nodes(doc) /\ n[1] = r.part /\ n[2] > r.row /\ n[2] < s.row)
  <2>1. r.cell > Len(D!RowsOf(doc, r.part)[r.row].cells)
    BY <1>2, <1>4 DEF AtRowEnd
  <2>2. s.row \in Nat /\ s.row > r.row
    BY <1>6, <1>7
  <2>3. QED
    BY <1>2, <1>3, <1>7, <2>1, <2>2, SeenRow DEF rows
<1>9. D!NothingYet(doc, r)
  BY DEF Good
<1>10. ASSUME ~skip PROVE D!Seen(doc, s) = D!Seen(doc, r)
  <2>1. s.row = r.row + 1
    BY <1>5, <1>7, <1>10
  <2>2. ASSUME NEW n \in D!Nodes(doc) PROVE ~(n[2] > r.row /\ n[2] < s.row)
    BY <1>2, <2>1, NodesAreNumbers
  <2>3. \A n : n \in D!Seen(doc, s) <=> n \in D!Seen(doc, r)
    BY <1>8, <2>2
  <2>4. QED
    BY <2>3
\* The nodes skipped on a slide are not those its text is in.
<1>11. D!Filled(doc) \cap D!Seen(doc, s) = D!Filled(doc) \cap D!Seen(doc, r)
  <2>1. CASE skip
    <3>1. doc.suffix = "pptx" /\ r.blocks # <<>> /\ doc.suffix # "docx"
      BY <2>1 DEF skip
    <3>2. PICK m \in D!Filled(doc) \cap D!Seen(doc, r) : m[1] = r.part
      BY <1>1, <3>1, FirstBlock
    <3>5. \A n \in D!Nodes(doc) : n[1] = r.part /\ n[2] > r.row => n \notin D!Filled(doc)
      BY <1>1, <1>2, <3>1, <3>2, BehindFilled
    <3>6. \A n : n \in D!Filled(doc) \cap D!Seen(doc, s) <=> n \in D!Filled(doc) \cap D!Seen(doc, r)
      BY <1>8, <3>5
    <3>7. QED
      BY <3>6
  <2>2. CASE ~skip
    BY <1>10, <2>2
  <2>3. QED
    BY <2>1, <2>2
<1>12. D!SoFar(doc, done, s) = pages
  BY <1>1, <1>6, <1>7 DEF D!SoFar
<1> HIDE DEF pages
<1>13. Same(pages, pages)
  BY SameAnyway
<1>14. D!ReaderOK(doc, done, s)
  <2>1. s \in [part : Nat, row : Nat, cell : Nat, paragraphs : Nat, tables : Nat, blocks : {s.blocks}]
    BY <1>7 DEF ReaderT
  <2>2. QED
    BY <1>1, <1>6, <1>7, <1>12, <2>1 DEF D!ReaderOK, pages
<1>15. D!PagesOK(doc, pages, FALSE) /\ D!NamedByPlace(doc, pages, s) /\ D!NamedByCount(doc, pages, s)
  <2>1. D!PagesOK(doc, pages, FALSE) /\ D!NamedByPlace(doc, pages, r) /\ D!NamedByCount(doc, pages, r)
    BY DEF Good, pages
  <2>2. QED
    BY <1>1, <1>7, <1>13, <2>1, PlaceKept, CountKept
<1>16. D!FoundIn(doc, pages, D!Seen(doc, s))
  BY <1>11, <1>13, FoundSame DEF Good, pages
<1>17. D!NothingYet(doc, s)
  <2> SUFFICES ASSUME doc.suffix # "docx"
               PROVE  /\ s.blocks = <<>> => \A n \in D!Seen(doc, s) : n[1] = s.part => D!TextOf(doc, n) = ""
                      /\ doc.suffix = "pptx" /\ s.row <= Len(D!RowsOf(doc, s.part)) =>
                            \A n \in D!Nodes(doc) : n[1] = s.part /\ n[2] < s.row => D!TextOf(doc, n) = ""
    BY DEF D!NothingYet
  <2>1. ASSUME s.blocks = <<>> PROVE \A n \in D!Seen(doc, s) : n[1] = s.part => D!TextOf(doc, n) = ""
    <3>1. ~skip /\ r.blocks = <<>>
      BY <1>7, <2>1 DEF skip
    <3>2. QED
      BY <1>1, <1>7, <1>9, <1>10, <3>1 DEF D!NothingYet
  <2>2. ASSUME doc.suffix = "pptx", s.row <= Len(D!RowsOf(doc, s.part)), NEW n \in D!Nodes(doc),
               n[1] = s.part, n[2] < s.row
        PROVE  D!TextOf(doc, n) = ""
    <3>1. s.row <= rows
      BY <1>7, <2>2 DEF rows
    <3>2. ~skip
      BY <1>3, <1>5, <1>7, <3>1
    <3>3. r.blocks = <<>>
      BY <2>2, <3>2 DEF skip
    <3>4. n \in D!Seen(doc, s)
      BY <2>2, SeenIs
    <3>5. QED
      BY <1>7, <2>1, <2>2, <3>3, <3>4
  <2>3. QED
    BY <2>1, <2>2
<1>18. QED
  BY <1>12, <1>14, <1>15, <1>16, <1>17 DEF Good

\* The reader's record after a part.
PastPart(r, s) == s = [r EXCEPT !.row = 0, !.blocks = <<>>]

LEMMA PartPast ==
    ASSUME NEW doc, NEW done, NEW r, D!ReaderOK(doc, done, r), NEW s, PastPart(r, s)
    PROVE  /\ s \in ReaderT({s.blocks}) /\ s.part = r.part /\ s.row = 0 /\ s.blocks = <<>>
           /\ s.tables = r.tables /\ s.paragraphs = r.paragraphs
<1> DEFINE Z == {r.blocks}
           m == [r EXCEPT !.row = 0]
           none == <<>>
<1>1. r \in ReaderT(Z)
  BY ReaderIs
<1>2. s = [m EXCEPT !.blocks = none]
  BY <1>1 DEF PastPart, ReaderT
<1> HIDE DEF Z, none
<1>3. /\ m \in ReaderT(Z) /\ m.part = r.part /\ m.row = 0
      /\ m.tables = r.tables /\ m.paragraphs = r.paragraphs
  BY <1>1 DEF ReaderT
<1> HIDE DEF m
<1>4. /\ s \in ReaderT({none}) /\ s.part = m.part /\ s.row = m.row /\ s.blocks = none
      /\ s.tables = m.tables /\ s.paragraphs = m.paragraphs
  BY <1>2, <1>3 DEF ReaderT
<1>5. s \in ReaderT({s.blocks})
  BY <1>4
<1>6. QED
  BY <1>3, <1>4, <1>5 DEF none

\* The pages after it.
ClosedPages(doc, done, r) == IF doc.suffix = "docx" THEN done ELSE OpenPages(doc, done, r.blocks)

LEMMA ClosePartGood ==
    ASSUME NEW doc, DocFit(doc), NEW done, NEW r, Good(doc, done, r, FALSE),
           r.row # 0, ~(r.row <= Len(D!RowsOf(doc, r.part))),
           NEW more, more = ClosedPages(doc, done, r), NEW s, PastPart(r, s)
    PROVE  Good(doc, more, s, FALSE)
<1>1. D!ReaderOK(doc, done, r)
  BY DEF Good
<1>2. /\ Counts(r) /\ r.row \in Nat /\ r.part \in DOMAIN doc.parts /\ D!Listed(done)
      /\ D!Listed(r.blocks)
  BY <1>1, ReaderIs DEF Counts
<1>3. /\ s \in ReaderT({s.blocks}) /\ s.part = r.part /\ s.row = 0 /\ s.blocks = <<>>
      /\ s.tables = r.tables /\ s.paragraphs = r.paragraphs
  BY <1>1, PartPast
<1>4. r.row > Len(D!RowsOf(doc, r.part))
  <2>1. Len(D!RowsOf(doc, r.part)) \in Nat
    BY <1>2, RowsListed
  <2>2. QED
    BY <1>2, <2>1
<1>5. D!Seen(doc, s) = D!Seen(doc, r)
  BY <1>2, <1>3, <1>4, SeenPart
<1>6. D!SoFar(doc, done, r) = more
  BY OpenPagesAre DEF ClosedPages
<1>7. D!SoFar(doc, more, s) = more
  BY <1>3, OpenPagesAre
<1>8. Same(more, more)
  BY SameAnyway
<1>9. /\ D!PagesOK(doc, more, FALSE) /\ D!FoundIn(doc, more, D!Seen(doc, s))
      /\ D!NamedByPlace(doc, more, r) /\ D!NamedByCount(doc, more, r)
  BY <1>5, <1>6 DEF Good
<1>10. D!NamedByPlace(doc, more, s)
  BY <1>3, <1>8, <1>9, PlaceEmptied
<1>11. D!NamedByCount(doc, more, s)
  BY <1>3, <1>8, <1>9, CountKept
<1>12. D!NothingYet(doc, s)
  BY <1>3 DEF D!NothingYet
<1>13. D!ReaderOK(doc, more, s)
  <2>1. s \in [part : Nat, row : Nat, cell : Nat, paragraphs : Nat, tables : Nat, blocks : {s.blocks}]
    BY <1>3 DEF ReaderT
  <2>2. D!Listed(more)
    <3>1. D!Listed(OpenPages(doc, done, r.blocks))
      BY <1>2, ListedAppended DEF OpenPages
    <3>2. QED
      BY <1>2, <3>1 DEF ClosedPages
  <2>3. D!Listed(s.blocks)
    BY <1>3, ListedEmpty
  <2>4. doc.suffix = "txt" => s.part \in {0, 1} /\ Len(D!SoFar(doc, more, s)) = s.part
    BY <1>1, <1>3, <1>6, <1>7 DEF D!ReaderOK
  <2>5. QED
    BY <1>3, <2>1, <2>2, <2>3, <2>4 DEF D!ReaderOK
<1>14. QED
  BY <1>7, <1>9, <1>10, <1>11, <1>12, <1>13 DEF Good

\* The reader's record at the start of a part.
TablesAt(doc, r, p) == IF doc.parts[p].kind = "tbl" THEN r.tables + 1 ELSE r.tables
PartOpened(doc, r, p, s) ==
    s = [r EXCEPT !.part = p, !.row = 1, !.cell = 1, !.blocks = <<>>, !.tables = TablesAt(doc, r, p)]

LEMMA OpenedIs ==
    ASSUME NEW doc, NEW done, NEW r, D!ReaderOK(doc, done, r), NEW p \in Nat, NEW s,
           PartOpened(doc, r, p, s)
    PROVE  /\ s \in ReaderT({s.blocks}) /\ s.part = p /\ s.row = 1 /\ s.cell = 1 /\ s.blocks = <<>>
           /\ s.tables = TablesAt(doc, r, p) /\ s.paragraphs = r.paragraphs
<1> DEFINE Z == {r.blocks}
           none == <<>>
           n    == TablesAt(doc, r, p)
           a    == [r EXCEPT !.part = p]
           b    == [a EXCEPT !.row = 1]
           c    == [b EXCEPT !.cell = 1]
           d    == [c EXCEPT !.blocks = none]
<1>1. r \in ReaderT(Z) /\ n \in Nat
  <2>1. r \in ReaderT(Z) /\ r.tables \in Nat
    BY ReaderIs
  <2>2. n = r.tables \/ n = r.tables + 1
    BY Zenon DEF TablesAt
  <2>3. QED
    BY <2>1, <2>2
<1>2. s = [d EXCEPT !.tables = n]
  BY <1>1 DEF PartOpened, ReaderT
<1> HIDE DEF Z, none, n
<1>3. a \in ReaderT(Z) /\ a.part = p /\ a.paragraphs = r.paragraphs
  BY <1>1 DEF ReaderT
<1> HIDE DEF a
<1>4. b \in ReaderT(Z) /\ b.part = p /\ b.paragraphs = r.paragraphs /\ b.row = 1
  BY <1>3 DEF ReaderT
<1> HIDE DEF b
<1>5. c \in ReaderT(Z) /\ c.part = p /\ c.paragraphs = r.paragraphs /\ c.row = 1 /\ c.cell = 1
  BY <1>4 DEF ReaderT
<1> HIDE DEF c
<1>6. /\ d \in ReaderT({none}) /\ d.part = p /\ d.paragraphs = r.paragraphs /\ d.row = 1
      /\ d.cell = 1 /\ d.blocks = none
  BY <1>5 DEF ReaderT
<1> HIDE DEF d
<1>7. /\ s \in ReaderT({none}) /\ s.part = p /\ s.paragraphs = r.paragraphs /\ s.row = 1
      /\ s.cell = 1 /\ s.blocks = none /\ s.tables = n
  BY <1>1, <1>2, <1>6 DEF ReaderT
<1>8. s \in ReaderT({s.blocks})
  BY <1>7
<1>9. QED
  BY <1>7, <1>8 DEF none, n

LEMMA OpenPartGood ==
    ASSUME NEW doc, DocFit(doc), NEW done, NEW r, Good(doc, done, r, FALSE), r.row = 0,
           NEW p \in DOMAIN doc.parts, p > r.part, \A q \in DOMAIN doc.parts : q > r.part => p <= q,
           NEW s, PartOpened(doc, r, p, s)
    PROVE  Good(doc, done, s, FALSE)
<1> DEFINE new == D!SoFar(doc, done, s)
<1>1. D!ReaderOK(doc, done, r)
  BY DEF Good
<1>2. /\ Counts(r) /\ r.part \in Nat /\ D!Listed(done) /\ Len(done) \in Nat /\ r.tables \in Nat
      /\ r.blocks = <<>>
  BY <1>1, ReaderIs DEF Counts
<1>3. p \in Nat /\ p # 0
  BY RowsListed
<1>4. /\ s \in ReaderT({s.blocks}) /\ s.part = p /\ s.row = 1 /\ s.cell = 1 /\ s.blocks = <<>>
      /\ s.tables = TablesAt(doc, r, p) /\ s.paragraphs = r.paragraphs
  BY <1>1, <1>3, OpenedIs
<1>5. D!Seen(doc, s) = D!Seen(doc, r)
  BY <1>2, <1>4, SeenOpened
<1>6. D!SoFar(doc, done, r) = done
  BY OpenPagesAre
<1>7. /\ D!PagesOK(doc, done, FALSE) /\ D!FoundIn(doc, done, D!Seen(doc, r))
      /\ D!NamedByPlace(doc, done, r) /\ D!NamedByCount(doc, done, r)
      /\ \A i \in DOMAIN done : D!Listed(D!Sources(done[i]))
  BY <1>6, PagesBefore DEF Good
<1>8. D!Listed(s.blocks) /\ DOMAIN s.blocks = {}
  BY <1>4, ListedEmpty
<1>9. /\ Same(done, new) /\ D!PagesOK(doc, new, FALSE)
      /\ doc.suffix # "docx" => Len(new) = Len(done) + 1
  <2>1. CASE doc.suffix = "docx"
    <3>1. new = done
      BY <2>1, OpenPagesAre
    <3>2. QED
      BY <1>7, <2>1, <3>1, SameAnyway
  <2>2. CASE doc.suffix # "docx"
    <3>1. new = OpenPages(doc, done, s.blocks)
      BY <1>4, <2>2, OpenPagesAre
    <3>2. /\ D!PagesOK(doc, OpenPages(doc, done, s.blocks), FALSE)
          /\ Len(OpenPages(doc, done, s.blocks)) = Len(done) + 1
      BY <1>2, <1>7, <1>8, <2>2, OpenPagesOK
    <3>4. Same(done, OpenPages(doc, done, s.blocks))
      BY <1>2, <1>4, <1>7, <1>8, OpenPagesEmpty
    <3>5. QED
      BY <3>1, <3>2, <3>4
  <2>3. QED
    BY <2>1, <2>2
<1> HIDE DEF new
<1>10. D!FoundIn(doc, new, D!Seen(doc, s))
  BY <1>5, <1>7, <1>9, FoundSame
<1>11. D!NamedByPlace(doc, new, s)
  BY <1>4, <1>7, <1>9, PlaceEmptied
<1>12. D!NamedByCount(doc, new, s)
  BY <1>2, <1>4, <1>7, <1>9, CountOpened DEF TablesAt
<1>13. D!NothingYet(doc, s)
  <2>1. ASSUME NEW n \in D!Nodes(doc), n[1] = s.part PROVE n \notin D!Seen(doc, s) /\ ~(n[2] < s.row)
    <3>1. n[1] \in Nat /\ n[2] \in Nat /\ n[2] >= 1
      BY NodesAreNumbers
    <3>2. n \notin D!Seen(doc, r)
      <4>1. ~(n[1] < r.part) /\ n[1] # r.part
        BY <1>2, <1>3, <1>4, <2>1
      <4>2. QED
        BY <4>1, SeenIs
    <3>3. QED
      BY <1>4, <1>5, <3>1, <3>2
  <2>2. \A n \in D!Seen(doc, s) : n \in D!Nodes(doc)
    BY SeenIs
  <2>3. QED
    BY <2>1, <2>2 DEF D!NothingYet
<1>14. D!ReaderOK(doc, done, s)
  <2>1. s \in [part : Nat, row : Nat, cell : Nat, paragraphs : Nat, tables : Nat, blocks : {s.blocks}]
    BY <1>4 DEF ReaderT
  <2>2. ASSUME doc.suffix = "txt" PROVE s.part \in {0, 1} /\ Len(new) = s.part
    <3>1. p = 1
      BY <2>2 DEF DocFit
    <3>2. r.part \in {0, 1} /\ Len(done) = r.part
      BY <1>1, <1>6, <2>2 DEF D!ReaderOK
    <3>3. r.part = 0
      BY <3>1, <3>2
    <3>4. QED
      BY <1>4, <1>9, <2>2, <3>1, <3>2, <3>3
  <2>3. QED
    BY <1>2, <1>4, <1>8, <2>1, <2>2 DEF D!ReaderOK, new
<1>15. QED
  BY <1>9, <1>10, <1>11, <1>12, <1>13, <1>14 DEF Good, new

\* A document without a page gets an empty one.
LastPages(doc, done) ==
    IF done = <<>> THEN <<D!TextPage(<<>>, 1, D!PageLocator(doc, 1), D!Nowhere)>> ELSE done

LEMMA NoPlaces ==
    ASSUME NEW p, D!Listed(p), \A i \in DOMAIN p : D!Sources(p[i]) = <<>>
    PROVE  D!Places(p) = {}
<1>1. \A i \in DOMAIN p : DOMAIN D!Sources(p[i]) = {}
  BY ListedEmpty
<1>2. QED
  BY <1>1 DEF D!Places

\* The one page of such a document.
EmptyPage(doc, sheet) == sheet = D!TextPage(<<>>, 1, D!PageLocator(doc, 1), D!Nowhere)

LEMMA EmptyPageOK ==
    ASSUME NEW doc, NEW sheet, EmptyPage(doc, sheet), NEW more, D!Listed(more), Len(more) = 1,
           DOMAIN more = {1}, more[1] = sheet
    PROVE  D!PagesOK(doc, more, TRUE) /\ D!Places(more) = {}
<1>1. /\ D!Sources(sheet) = <<>> /\ sheet.page = 1 /\ sheet.blocks = <<>>
      /\ sheet.locator = D!PageLocator(doc, 1)
  BY EmptyPageHolds DEF EmptyPage
<1>2. D!Listed(D!Sources(sheet))
  BY <1>1, ListedEmpty
<1>3. D!PagesOK(doc, more, TRUE)
  BY <1>1, <1>2 DEF D!PagesOK
<1>4. D!Places(more) = {}
  BY <1>1, NoPlaces
<1>5. QED
  BY <1>3, <1>4

LEMMA LastPagesOK ==
    ASSUME NEW doc, NEW done, D!Listed(done), D!PagesOK(doc, done, FALSE),
           NEW more, more = LastPages(doc, done)
    PROVE  D!PagesOK(doc, more, TRUE) /\ Same(done, more) /\ D!Listed(more) /\ (done # <<>> => more = done)
<1>1. CASE done = <<>>
  <2> DEFINE sheet == D!TextPage(<<>>, 1, D!PageLocator(doc, 1), D!Nowhere)
  <2>1. more = <<sheet>> /\ EmptyPage(doc, sheet)
    BY <1>1 DEF LastPages, EmptyPage
  <2> HIDE DEF sheet
  <2>2. D!Listed(more) /\ Len(more) = 1 /\ DOMAIN more = {1} /\ more[1] = sheet
    BY <2>1, ListedSingle
  <2>3. D!PagesOK(doc, more, TRUE) /\ D!Places(more) = {}
    BY <2>1, <2>2, EmptyPageOK
  <2>4. D!Places(done) = {}
    BY <1>1, ListedEmpty, NoPlaces
  <2>5. QED
    BY <1>1, <2>2, <2>3, <2>4 DEF Same
<1>2. CASE done # <<>>
  <2>1. more = done
    BY <1>2 DEF LastPages
  <2>2. D!PagesOK(doc, done, TRUE)
    BY DEF D!PagesOK
  <2>3. QED
    BY <2>1, <2>2, SameAnyway
<1>3. QED
  BY <1>1, <1>2

LEMMA FinishGood ==
    ASSUME NEW doc, DocFit(doc), NEW done, NEW r, Good(doc, done, r, FALSE), r.row = 0,
           \A q \in DOMAIN doc.parts : ~(q > r.part), NEW more, more = LastPages(doc, done)
    PROVE  Good(doc, more, r, TRUE) /\ D!Seen(doc, r) = D!Nodes(doc)
<1>1. D!ReaderOK(doc, done, r)
  BY DEF Good
<1>2. Counts(r) /\ r.part \in Nat /\ D!Listed(done) /\ Len(done) \in Nat /\ r.tables \in Nat
  BY <1>1, ReaderIs DEF Counts
<1>3. D!Seen(doc, r) = D!Nodes(doc)
  BY <1>2, SeenAll
<1>4. D!SoFar(doc, done, r) = done /\ D!SoFar(doc, more, r) = more
  BY OpenPagesAre
<1>5. D!PagesOK(doc, done, FALSE) /\ D!FoundIn(doc, done, D!Seen(doc, r)) /\ D!NothingYet(doc, r)
      /\ D!NamedByPlace(doc, done, r) /\ D!NamedByCount(doc, done, r)
  BY <1>4 DEF Good
<1>6. D!PagesOK(doc, more, TRUE) /\ Same(done, more) /\ D!Listed(more) /\ (done # <<>> => more = done)
  BY <1>2, <1>5, LastPagesOK
<1>7. D!FoundIn(doc, more, D!Seen(doc, r)) /\ D!NamedByPlace(doc, more, r) /\ D!NamedByCount(doc, more, r)
  BY <1>5, <1>6, FoundSame, PlaceKept, CountKept
<1>8. D!ReaderOK(doc, more, r)
  <2>1. ASSUME doc.suffix = "txt" PROVE more = done
    <3>1. r.part \in {0, 1} /\ Len(done) = r.part
      BY <1>1, <1>4, <2>1 DEF D!ReaderOK
    <3>2. 1 \in DOMAIN doc.parts
      BY <2>1 DEF DocFit
    <3>3. Len(done) = 1
      BY <3>1, <3>2
    <3>4. QED
      BY <1>6, <3>3, ListedEmpty
  <2>2. QED
    BY <1>1, <1>4, <1>6, <2>1 DEF D!ReaderOK
<1>9. QED
  BY <1>3, <1>4, <1>5, <1>6, <1>7, <1>8 DEF Good

\* Before the first part.
LEMMA StartGood ==
    ASSUME NEW doc, DocFit(doc), NEW r, r \in ReaderT({r.blocks}), r.part = 0, r.row = 0,
           r.blocks = <<>>
    PROVE  Good(doc, <<>>, r, FALSE)
<1> DEFINE none == <<>>
<1>1. D!Listed(none) /\ DOMAIN none = {} /\ Len(none) = 0
  BY ListedEmpty
<1>2. D!SoFar(doc, none, r) = none
  BY OpenPagesAre
<1>3. r \in [part : Nat, row : Nat, cell : Nat, paragraphs : Nat, tables : Nat, blocks : {r.blocks}]
  BY DEF ReaderT
<1>4. D!Seen(doc, r) = {}
  <2>1. ASSUME NEW n \in D!Nodes(doc) PROVE n \notin D!Seen(doc, r)
    <3>1. n[1] \in Nat /\ n[1] # 0
      BY NodesAreNumbers
    <3>2. QED
      BY <3>1, SeenIs
  <2>2. QED
    BY <2>1, SeenIs
<1>5. r.blocks = none
  OBVIOUS
<1> HIDE DEF none
<1>6. D!Places(none) = {}
  BY <1>1, NoPlaces
<1>7. D!PagesOK(doc, none, FALSE)
  BY <1>1 DEF D!PagesOK
<1>8. D!FoundIn(doc, none, D!Seen(doc, r))
  BY <1>4, <1>6 DEF D!FoundIn
<1>9. D!NothingYet(doc, r)
  BY DEF D!NothingYet
<1>10. D!NamedByPlace(doc, none, r) /\ D!NamedByCount(doc, none, r)
  BY <1>1, <1>5, <1>6 DEF D!NamedByPlace, D!NamedByCount
<1>11. D!ReaderOK(doc, none, r)
  BY <1>1, <1>2, <1>3, <1>5 DEF D!ReaderOK, none
<1>12. QED
  BY <1>2, <1>7, <1>8, <1>9, <1>10, <1>11 DEF Good, none

\* What the invariant says of a document.
LEMMA ReadInvIs ==
    D!ReadInv <=>
       /\ input \in Inputs
       /\ outcome = "read" => input.what = "document"
       /\ input.what = "document" /\ outcome \in {"pending", "read"} =>
             /\ Good(input.doc, output, reader, outcome = "read")
             /\ outcome = "read" => reader.row = 0 /\ D!Seen(input.doc, reader) = D!Nodes(input.doc)
  BY DEF D!ReadInv, Good

LEMMA ReadingNow ==
    ASSUME D!ReadInv, input.what = "document", outcome = "pending"
    PROVE  /\ DocFit(input.doc) /\ Good(input.doc, output, reader, FALSE) /\ input \in Inputs
<1>1. input \in Inputs
  BY ReadInvIs
<1>2. DocFit(input.doc)
  BY <1>1, PipelineAssumption DEF D!DocumentsFit, DocFit
<1>3. Good(input.doc, output, reader, outcome = "read")
  BY ReadInvIs
<1>4. (outcome = "read") = FALSE
  OBVIOUS
<1>5. QED
  BY <1>1, <1>2, <1>3, <1>4

\* A reader goes on, or is done.
LEMMA GoesOn ==
    ASSUME input \in Inputs, input' = input, outcome' = "pending",
           Good(input.doc, output', reader', FALSE)
    PROVE  D!ReadInv'
<1>1. Good(input.doc, output', reader', outcome' = "read")
  <2>1. (outcome' = "read") = FALSE
    OBVIOUS
  <2>2. QED
    BY <2>1
<1>2. QED
  BY <1>1 DEF D!ReadInv, Good

LEMMA IsDone ==
    ASSUME input \in Inputs, input' = input, input.what = "document", outcome' = "read",
           Good(input.doc, output', reader', TRUE), reader'.row = 0,
           D!Seen(input.doc, reader') = D!Nodes(input.doc)
    PROVE  D!ReadInv'
<1>1. Good(input.doc, output', reader', outcome' = "read")
  <2>1. (outcome' = "read") = TRUE
    OBVIOUS
  <2>2. QED
    BY <2>1
<1>2. QED
  BY <1>1 DEF D!ReadInv, Good

LEMMA IsOver ==
    ASSUME input \in Inputs, input' = input,
           outcome' \notin {"pending", "read"} \/ (outcome' # "read" /\ input.what # "document")
    PROVE  D!ReadInv'
  BY DEF D!ReadInv

LEMMA ReadStart == D!Init => D!ReadInv
<1> SUFFICES ASSUME D!Init PROVE D!ReadInv
  OBVIOUS
<1>1. input \in Inputs /\ outcome = "pending" /\ output = <<>>
  BY DEF D!Init
<1>2. ASSUME input.what = "document" PROVE Good(input.doc, output, reader, FALSE)
  <2>1. DocFit(input.doc)
    BY <1>1, <1>2, PipelineAssumption DEF D!DocumentsFit, DocFit
  <2>2. reader = [part |-> 0, row |-> 0, cell |-> 0, paragraphs |-> 0, tables |-> 0, blocks |-> <<>>]
    BY DEF D!Init
  <2>3. reader \in ReaderT({reader.blocks}) /\ reader.part = 0 /\ reader.row = 0 /\ reader.blocks = <<>>
    BY <2>2 DEF ReaderT
  <2>4. QED
    BY <1>1, <2>1, <2>3, StartGood
<1>3. (outcome = "read") = FALSE
  BY <1>1
<1>4. QED
  BY <1>1, <1>2, <1>3, ReadInvIs

LEMMA RefuseReads == D!ReadInv /\ D!Refuse => D!ReadInv'
<1> SUFFICES ASSUME D!ReadInv, D!Refuse PROVE D!ReadInv'
  OBVIOUS
<1>1. input \in Inputs
  BY ReadInvIs
<1>2. input' = input /\ outcome' = "error"
  BY DEF D!Refuse
<1>3. QED
  BY <1>1, <1>2, IsOver

LEMMA PassBlankReads == D!ReadInv /\ D!PassBlank => D!ReadInv'
<1> SUFFICES ASSUME D!ReadInv, D!PassBlank PROVE D!ReadInv'
  OBVIOUS
<1>1. input.what = "document" /\ outcome = "pending" /\ AtNode(input.doc, reader)
  BY DEF D!PassBlank, D!InRow, D!InPart, D!Reading, AtNode
<1>2. DocFit(input.doc) /\ Good(input.doc, output, reader, FALSE) /\ input \in Inputs
  BY <1>1, ReadingNow
<1>3. D!TextOf(input.doc, Cursor(reader)) = ""
  BY DEF D!PassBlank, D!Node, Cursor
<1>4. PastNode(reader, reader')
  BY DEF D!PassBlank, PastNode
<1>5. input' = input /\ outcome' = "pending" /\ output' = output
  BY <1>1 DEF D!PassBlank
<1>6. Good(input.doc, output, reader', FALSE)
  BY <1>1, <1>2, <1>3, <1>4, PassBlankGood
<1>7. QED
  BY <1>2, <1>5, <1>6, GoesOn

LEMMA WordPageReads ==
    ASSUME D!ReadInv, D!ReadParagraph \/ D!ReadTableCell
    PROVE  D!ReadInv'
<1> DEFINE node == Cursor(reader)
           t    == D!TextOf(input.doc, node)
           loc  == IF input.doc.parts[reader.part].kind = "p" THEN ParagraphName(reader)
                   ELSE CellName(reader, reader.row, reader.cell)
<1>1. /\ input.what = "document" /\ outcome = "pending" /\ AtNode(input.doc, reader)
      /\ input.doc.suffix = "docx" /\ HasText(input.doc, node)
  BY DEF D!ReadParagraph, D!ReadTableCell, D!InRow, D!InPart, D!Reading, AtNode, HasText, D!Node, Cursor
<1>2. DocFit(input.doc) /\ Good(input.doc, output, reader, FALSE) /\ input \in Inputs
  BY <1>1, ReadingNow
<1>3. ParagraphAt(input.doc, reader, reader', loc) \/ TableCellAt(input.doc, reader, reader', loc)
  <2>1. CASE D!ReadParagraph
    BY <2>1 DEF D!ReadParagraph, D!Kind, ParagraphAt, PastParagraph
  <2>2. CASE D!ReadTableCell
    BY <2>2 DEF D!ReadTableCell, D!Kind, TableCellAt, PastNode
  <2>3. QED
    BY <2>1, <2>2
<1>4. output' = Append(output, OneText(t, Following(output), loc, node))
  <2>1. CASE D!ReadParagraph
    <3>1. loc = <<"paragraph", reader.paragraphs + 1>>
      BY <2>1 DEF D!ReadParagraph, D!Kind, ParagraphName
    <3>2. QED
      BY <2>1, <3>1 DEF D!ReadParagraph, OneText, D!Node, Cursor, D!Fresh, Following
  <2>2. CASE D!ReadTableCell
    <3>1. loc = <<"table_cell", reader.tables, reader.row, reader.cell>>
      BY <2>2 DEF D!ReadTableCell, D!Kind, CellName
    <3>2. QED
      BY <2>2, <3>1 DEF D!ReadTableCell, OneText, D!Node, Cursor, D!Fresh, Following
  <2>3. QED
    BY <2>1, <2>2
<1>5. input' = input /\ outcome' = "pending"
  BY <1>1 DEF D!ReadParagraph, D!ReadTableCell
<1> HIDE DEF node, t, loc
<1>6. Good(input.doc, output', reader', FALSE)
  BY <1>1, <1>2, <1>3, <1>4, WordPageGood DEF node, t
<1>7. QED
  BY <1>2, <1>5, <1>6, GoesOn

LEMMA ReadBlockReads == D!ReadInv /\ D!ReadBlock => D!ReadInv'
<1> SUFFICES ASSUME D!ReadInv, D!ReadBlock PROVE D!ReadInv'
  OBVIOUS
<1>1. /\ input.what = "document" /\ outcome = "pending" /\ AtNode(input.doc, reader)
      /\ input.doc.suffix # "docx" /\ HasText(input.doc, Cursor(reader))
  BY DEF D!ReadBlock, D!InRow, D!InPart, D!Reading, AtNode, HasText, D!Node, Cursor
<1>2. DocFit(input.doc) /\ Good(input.doc, output, reader, FALSE) /\ input \in Inputs
  BY <1>1, ReadingNow
<1>3. PastBlock(reader, reader', NextBlock(input.doc, output, reader))
  BY DEF D!ReadBlock, PastBlock, NextBlock, D!Node, Cursor, D!Fresh
<1>4. input' = input /\ outcome' = "pending" /\ output' = output
  BY <1>1 DEF D!ReadBlock
<1>5. Good(input.doc, output, reader', FALSE)
  BY <1>1, <1>2, <1>3, ReadBlockGood
<1>6. QED
  BY <1>2, <1>4, <1>5, GoesOn

LEMMA NextRowReads == D!ReadInv /\ D!NextRow => D!ReadInv'
<1> SUFFICES ASSUME D!ReadInv, D!NextRow PROVE D!ReadInv'
  OBVIOUS
<1>1. input.what = "document" /\ outcome = "pending" /\ AtRowEnd(input.doc, reader)
  BY DEF D!NextRow, D!InRow, D!InPart, D!Reading, AtRowEnd
<1>2. DocFit(input.doc) /\ Good(input.doc, output, reader, FALSE) /\ input \in Inputs
  BY <1>1, ReadingNow
<1>3. PastRow(input.doc, reader, reader')
  BY DEF D!NextRow, PastRow, NextRowOf
<1>4. input' = input /\ outcome' = "pending" /\ output' = output
  BY <1>1 DEF D!NextRow
<1>5. Good(input.doc, output, reader', FALSE)
  BY <1>1, <1>2, <1>3, NextRowGood
<1>6. QED
  BY <1>2, <1>4, <1>5, GoesOn

LEMMA ClosePartReads == D!ReadInv /\ D!ClosePart => D!ReadInv'
<1> SUFFICES ASSUME D!ReadInv, D!ClosePart PROVE D!ReadInv'
  OBVIOUS
<1>1. /\ input.what = "document" /\ outcome = "pending" /\ reader.row # 0
      /\ reader.row > Len(D!RowsOf(input.doc, reader.part))
  BY DEF D!ClosePart, D!Reading
<1>2. DocFit(input.doc) /\ Good(input.doc, output, reader, FALSE) /\ input \in Inputs
  BY <1>1, ReadingNow
<1>3. ~(reader.row <= Len(D!RowsOf(input.doc, reader.part)))
  <2>1. D!ReaderOK(input.doc, output, reader)
    BY <1>2 DEF Good
  <2>2. reader.row \in Nat /\ reader.part \in DOMAIN input.doc.parts
    BY <1>1, <2>1, ReaderIs DEF Counts
  <2>3. Len(D!RowsOf(input.doc, reader.part)) \in Nat
    BY <1>2, <2>2, RowsListed
  <2>4. QED
    BY <1>1, <2>2, <2>3
<1>4. output' = ClosedPages(input.doc, output, reader) /\ PastPart(reader, reader')
  BY DEF D!ClosePart, ClosedPages, OpenPages, PastPart, D!Fresh
<1>5. input' = input /\ outcome' = "pending"
  BY <1>1 DEF D!ClosePart
<1>6. Good(input.doc, output', reader', FALSE)
  BY <1>1, <1>2, <1>3, <1>4, ClosePartGood
<1>7. QED
  BY <1>2, <1>5, <1>6, GoesOn

LEMMA OpenPartReads == D!ReadInv /\ D!OpenPart => D!ReadInv'
<1> SUFFICES ASSUME D!ReadInv, D!OpenPart PROVE D!ReadInv'
  OBVIOUS
<1> DEFINE p == CHOOSE p \in D!Ahead : \A q \in D!Ahead : p <= q
<1>1. input.what = "document" /\ outcome = "pending" /\ reader.row = 0 /\ input' = input
  BY DEF D!OpenPart, D!Reading
<1>2. DocFit(input.doc) /\ Good(input.doc, output, reader, FALSE) /\ input \in Inputs
  BY <1>1, ReadingNow
<1>3. p \in DOMAIN input.doc.parts /\ p > reader.part
      /\ \A q \in DOMAIN input.doc.parts : q > reader.part => p <= q
  <2>1. D!Ahead \subseteq Nat /\ D!Ahead # {}
    BY <1>2 DEF D!Ahead, D!OpenPart, DocFit
  <2>2. \E m \in D!Ahead : \A q \in D!Ahead : m <= q
    BY <2>1, LeastNumber
  <2>3. p \in D!Ahead /\ \A q \in D!Ahead : p <= q
    BY <2>2
  <2> HIDE DEF p
  <2>4. QED
    BY <2>3 DEF D!Ahead
<1>4. CASE input.doc.parts[p].kind = "broken"
  <2>1. outcome' = "error"
    BY <1>4 DEF D!OpenPart
  <2>2. QED
    BY <1>1, <1>2, <2>1, IsOver
<1>5. CASE input.doc.parts[p].kind # "broken"
  <2>1. PartOpened(input.doc, reader, p, reader') /\ outcome' = "pending" /\ output' = output
    BY <1>1, <1>5 DEF D!OpenPart, PartOpened, TablesAt
  <2> HIDE DEF p
  <2>2. Good(input.doc, output', reader', FALSE)
    BY <1>1, <1>2, <1>3, <2>1, OpenPartGood
  <2>3. QED
    BY <1>1, <1>2, <2>1, <2>2, GoesOn
<1>6. QED
  BY <1>4, <1>5

LEMMA FinishReads == D!ReadInv /\ D!Finish => D!ReadInv'
<1> SUFFICES ASSUME D!ReadInv, D!Finish PROVE D!ReadInv'
  OBVIOUS
<1>1. input.what = "document" /\ outcome = "pending" /\ reader.row = 0 /\ D!Ahead = {}
  BY DEF D!Finish, D!Reading
<1>2. DocFit(input.doc) /\ Good(input.doc, output, reader, FALSE) /\ input \in Inputs
  BY <1>1, ReadingNow
<1>3. \A q \in DOMAIN input.doc.parts : ~(q > reader.part)
  BY <1>1 DEF D!Ahead
<1>4. output' = LastPages(input.doc, output)
  BY DEF D!Finish, LastPages
<1>5. input' = input /\ outcome' = "read" /\ reader' = reader
  BY DEF D!Finish
<1>6. Good(input.doc, output', reader, TRUE) /\ D!Seen(input.doc, reader) = D!Nodes(input.doc)
  BY <1>1, <1>2, <1>3, <1>4, FinishGood
<1>7. QED
  BY <1>1, <1>2, <1>5, <1>6, IsDone

\* Uploads are not read.
LEMMA IntakeReads == D!ReadInv /\ D!ScanInv /\ (D!Accept \/ D!ScanChunk) => D!ReadInv'
<1> SUFFICES ASSUME D!ReadInv, D!ScanInv, D!Accept \/ D!ScanChunk PROVE D!ReadInv'
  OBVIOUS
<1>1. input \in Inputs /\ input.what = "upload" /\ input' = input
  BY ReadInvIs DEF D!Accept, D!ScanChunk, D!ScanInv
<1>2. outcome' # "read"
  <2>1. CASE D!Accept
    BY <2>1 DEF D!Accept, D!Intake
  <2>2. CASE D!ScanChunk
    BY <2>2 DEF D!ScanChunk
  <2>3. QED
    BY <2>1, <2>2
<1>3. input.what # "document"
  BY <1>1
<1>4. QED
  BY <1>1, <1>2, <1>3, IsOver

LEMMA ReadStep == D!ReadInv /\ D!ScanInv /\ [D!Next]_(D!vars) => D!ReadInv'
<1> SUFFICES ASSUME D!ReadInv, D!ScanInv, [D!Next]_(D!vars) PROVE D!ReadInv'
  OBVIOUS
<1>1. CASE D!Refuse
  BY <1>1, RefuseReads
<1>2. CASE D!OpenPart
  BY <1>2, OpenPartReads
<1>3. CASE D!PassBlank
  BY <1>3, PassBlankReads
<1>4. CASE D!ReadParagraph \/ D!ReadTableCell
  BY <1>4, WordPageReads
<1>5. CASE D!ReadBlock
  BY <1>5, ReadBlockReads
<1>6. CASE D!NextRow
  BY <1>6, NextRowReads
<1>7. CASE D!ClosePart
  BY <1>7, ClosePartReads
<1>8. CASE D!Finish
  BY <1>8, FinishReads
<1>9. CASE D!Accept \/ D!ScanChunk
  BY <1>9, IntakeReads
<1>10. CASE UNCHANGED D!vars
  BY <1>10 DEF D!vars, D!ReadInv
<1>11. QED
  BY <1>1, <1>2, <1>3, <1>4, <1>5, <1>6, <1>7, <1>8, <1>9, <1>10 DEF D!Next

-----------------------------------------------------------------------------
(* Labels of columns.                                                        *)

\* What a function f says of x when it is given by what it says of rest[x].
Value(f, x, rest, stop, base, step) == IF x \in stop THEN base ELSE step[x][f[rest[x]]]

\* f is right up to size n.
Right(f, n, X, size, rest, stop, base, step) ==
    \A x \in X : size[x] < n => f[x] = Value(f, x, rest, stop, base, step)

\* What it says depends on smaller ones only.
Shrinks(X, V, size, rest, stop, base, step) ==
    /\ size \in [X -> Nat] /\ rest \in [X -> X] /\ base \in V /\ step \in [X -> [V -> V]]
    /\ \A x \in X : x \notin stop => size[rest[x]] < size[x]

LEMMA RightAgree ==
    ASSUME NEW X, NEW V, NEW size, NEW rest, NEW stop, NEW base, NEW step,
           Shrinks(X, V, size, rest, stop, base, step),
           NEW f \in [X -> V], NEW g \in [X -> V], NEW m \in Nat, NEW n \in Nat,
           Right(f, m, X, size, rest, stop, base, step),
           Right(g, n, X, size, rest, stop, base, step),
           NEW y \in X, size[y] < m, size[y] < n
    PROVE  f[y] = g[y]
<1> USE DEF Shrinks
<1> DEFINE Bad == {x \in X : size[x] < m /\ size[x] < n /\ f[x] # g[x]}
           N   == {size[x] : x \in Bad}
<1>1. CASE Bad = {}
  BY <1>1
<1>2. CASE Bad # {}
  <2>1. N \subseteq Nat /\ N # {}
    BY <1>2
  <2> HIDE DEF N
  <2>2. PICK k \in N : \A q \in N : k <= q
    BY <2>1, LeastNumber
  <2>3. PICK x \in Bad : size[x] = k
    BY DEF N
  <2>4. x \in X /\ size[x] \in Nat /\ size[x] < m /\ size[x] < n /\ f[x] # g[x]
    OBVIOUS
  <2>5. /\ f[x] = IF x \in stop THEN base ELSE step[x][f[rest[x]]]
        /\ g[x] = IF x \in stop THEN base ELSE step[x][g[rest[x]]]
    BY <2>4 DEF Right, Value
  <2>6. x \notin stop /\ f[rest[x]] # g[rest[x]]
    BY <2>4, <2>5
  <2>7. rest[x] \in X /\ size[rest[x]] \in Nat /\ size[rest[x]] < size[x]
    BY <2>4, <2>6
  <2>8. size[rest[x]] < m /\ size[rest[x]] < n
    BY <2>4, <2>7
  <2>9. rest[x] \in Bad
    BY <2>6, <2>7, <2>8
  <2>10. size[rest[x]] \in N
    BY <2>9 DEF N
  <2>11. k <= size[rest[x]] /\ k = size[x]
    BY <2>2, <2>3, <2>10
  <2>12. QED
    BY <2>4, <2>7, <2>11
<1>3. QED
  BY <1>1, <1>2

LEMMA RightFurther ==
    ASSUME NEW X, NEW V, NEW size \in [X -> Nat], NEW rest \in [X -> X], NEW stop, NEW base \in V,
           NEW step \in [X -> [V -> V]],
           \A x \in X : x \notin stop => size[rest[x]] < size[x],
           NEW f \in [X -> V], NEW n \in Nat, Right(f, n, X, size, rest, stop, base, step)
    PROVE  \E g \in [X -> V] : Right(g, n + 1, X, size, rest, stop, base, step)
<1> DEFINE g == [x \in X |-> Value(f, x, rest, stop, base, step)]
<1>1. \A x \in X : Value(f, x, rest, stop, base, step) \in V
  BY DEF Value
<1>2. g \in [X -> V]
  BY <1>1
<1>3. ASSUME NEW x \in X, size[x] < n + 1 PROVE g[x] = Value(g, x, rest, stop, base, step)
  <2>1. CASE x \in stop
    BY <2>1 DEF Value
  <2>2. CASE x \notin stop
    <3>1. rest[x] \in X /\ size[rest[x]] \in Nat /\ size[x] \in Nat /\ size[rest[x]] < size[x]
      BY <2>2
    <3>2. size[rest[x]] < n
      BY <1>3, <3>1
    <3>3. g[rest[x]] = Value(f, rest[x], rest, stop, base, step)
      BY <3>1
    <3>4. f[rest[x]] = Value(f, rest[x], rest, stop, base, step)
      BY <3>1, <3>2 DEF Right
    <3>5. g[x] = Value(f, x, rest, stop, base, step)
      OBVIOUS
    <3> HIDE DEF g
    <3>6. QED
      BY <2>2, <3>3, <3>4, <3>5 DEF Value
  <2>3. QED
    BY <2>1, <2>2
<1> HIDE DEF g
<1>4. Right(g, n + 1, X, size, rest, stop, base, step)
  BY <1>3 DEF Right
<1>5. QED
  BY <1>2, <1>4

LEMMA RightUpTo ==
    ASSUME NEW X, NEW V, NEW size \in [X -> Nat], NEW rest \in [X -> X], NEW stop, NEW base \in V,
           NEW step \in [X -> [V -> V]],
           \A x \in X : x \notin stop => size[rest[x]] < size[x], NEW n \in Nat
    PROVE  \E f \in [X -> V] : Right(f, n, X, size, rest, stop, base, step)
<1> DEFINE Ok(k) == \E f \in [X -> V] : Right(f, k, X, size, rest, stop, base, step)
           Bad   == {k \in Nat : ~Ok(k)}
<1>1. Ok(0)
  <2> DEFINE f == [x \in X |-> base]
  <2>1. f \in [X -> V]
    OBVIOUS
  <2>2. Right(f, 0, X, size, rest, stop, base, step)
    BY DEF Right
  <2>3. QED
    BY <2>1, <2>2
<1>2. ASSUME NEW k \in Nat, Ok(k) PROVE Ok(k + 1)
  <2>1. PICK f \in [X -> V] : Right(f, k, X, size, rest, stop, base, step)
    BY <1>2
  <2>2. QED
    BY <2>1, RightFurther
<1> HIDE DEF Ok
<1>3. CASE Bad # {}
  <2>1. Bad \subseteq Nat
    OBVIOUS
  <2>2. PICK k \in Bad : \A q \in Bad : k <= q
    BY <1>3, <2>1, LeastNumber
  <2>3. k \in Nat /\ ~Ok(k) /\ k # 0
    BY <1>1
  <2>4. k - 1 \in Nat /\ ~(k <= k - 1) /\ (k - 1) + 1 = k
    BY <2>3
  <2>5. Ok(k - 1)
    BY <2>2, <2>4
  <2>6. QED
    BY <1>2, <2>3, <2>4, <2>5
<1>4. CASE Bad = {}
  BY <1>4 DEF Ok
<1>5. QED
  BY <1>3, <1>4

\* A definition by recursion on something that gets smaller defines a function.
LEMMA RecursionDefines ==
    ASSUME NEW X, NEW V, NEW size, NEW rest, NEW stop, NEW base, NEW step,
           Shrinks(X, V, size, rest, stop, base, step)
    PROVE  \E f \in [X -> V] : \A x \in X : f[x] = Value(f, x, rest, stop, base, step)
<1>0. /\ size \in [X -> Nat] /\ rest \in [X -> X] /\ base \in V /\ step \in [X -> [V -> V]]
      /\ \A x \in X : x \notin stop => size[rest[x]] < size[x]
  BY DEF Shrinks
<1> DEFINE Fits(f, n) == Right(f, n, X, size, rest, stop, base, step)
           upto(n) == CHOOSE f \in [X -> V] : Fits(f, n)
           f       == [x \in X |-> upto(size[x] + 1)[x]]
<1>1. ASSUME NEW n \in Nat PROVE upto(n) \in [X -> V] /\ Fits(upto(n), n)
  <2>1. \E g \in [X -> V] : Fits(g, n)
    BY <1>0, RightUpTo
  <2> HIDE DEF Fits
  <2>2. QED
    BY <2>1
<1> HIDE DEF Fits, upto
<1>2. \A x \in X : size[x] \in Nat /\ size[x] + 1 \in Nat /\ size[x] < size[x] + 1
  BY <1>0
<1>3. f \in [X -> V]
  BY <1>1, <1>2
<1>4. ASSUME NEW x \in X PROVE f[x] = Value(f, x, rest, stop, base, step)
  <2> DEFINE g == upto(size[x] + 1)
  <2>1. g \in [X -> V] /\ Fits(g, size[x] + 1) /\ f[x] = g[x]
    BY <1>1, <1>2
  <2>2. g[x] = Value(g, x, rest, stop, base, step)
    BY <1>2, <2>1 DEF Fits, Right
  <2>3. CASE x \in stop
    BY <2>1, <2>2, <2>3 DEF Value
  <2>4. CASE x \notin stop
    <3> DEFINE y == rest[x]
               h == upto(size[y] + 1)
    <3>1. y \in X /\ size[y] < size[x]
      BY <1>0, <2>4
    <3>2. h \in [X -> V] /\ Fits(h, size[y] + 1) /\ f[y] = h[y]
      BY <1>1, <1>2, <3>1
    <3>3. size[y] < size[x] + 1 /\ size[y] < size[y] + 1
      BY <1>2, <3>1
    <3>4. size[x] + 1 \in Nat /\ size[y] + 1 \in Nat
      BY <1>2, <3>1
    <3> HIDE DEF h, g, f, y
    <3>5. g[y] = h[y]
      <4> DEFINE m == size[x] + 1
                 n == size[y] + 1
      <4>1. /\ Right(g, m, X, size, rest, stop, base, step)
            /\ Right(h, n, X, size, rest, stop, base, step)
        BY <2>1, <3>2 DEF Fits
      <4>2. m \in Nat /\ n \in Nat /\ size[y] < m /\ size[y] < n
        BY <3>3, <3>4
      <4>4. g \in [X -> V] /\ h \in [X -> V] /\ y \in X
        BY <2>1, <3>1, <3>2
      <4> HIDE DEF m, n
      <4>5. QED
        BY <4>1, <4>2, <4>4, RightAgree
    <3>6. QED
      BY <2>1, <2>2, <2>4, <3>2, <3>5 DEF Value, y
  <2>5. QED
    BY <2>3, <2>4
<1>5. QED
  BY <1>3, <1>4

LEMMA LettersFit == Letters \in Nat \ {0}
  BY PipelineAssumption DEF D!DocumentsFit

LEMMA RestIsLess ==
    ASSUME NEW n \in Nat, n # 0
    PROVE  /\ D!Rest(n) \in Nat /\ D!Rest(n) < n /\ D!Letter(n) \in Nat
           /\ D!Rest(n) * Letters + D!Letter(n) = n
<1> DEFINE m == n - 1
           d == Letters
<1>1. m \in Nat /\ d \in Nat \ {0} /\ n = m + 1
  BY LettersFit
<1> HIDE DEF m, d
<1>2. /\ (m \div d) \in Nat /\ (m % d) \in Nat /\ (m \div d) * d + (m % d) = m /\ (m \div d) <= m
  BY <1>1
<1>3. /\ D!Rest(n) = m \div d /\ D!Letter(n) = (m % d) + 1
  BY DEF D!Rest, D!Letter, m, d
<1>4. D!Rest(n) * d + D!Letter(n) = n
  <2> DEFINE a == (m \div d) * d
             b == m % d
  <2>1. a + b = m /\ b \in Nat /\ a \in Nat
    BY <1>1, <1>2
  <2> HIDE DEF a, b
  <2>2. a + (b + 1) = m + 1
    BY <1>1, <2>1
  <2>3. QED
    BY <1>1, <1>3, <2>2 DEF a, b
<1>5. D!Rest(n) \in Nat /\ D!Letter(n) \in Nat /\ D!Rest(n) < n
  <2> DEFINE a == m \div d
             b == m % d
  <2>1. a \in Nat /\ b \in Nat /\ a <= m
    BY <1>2
  <2>2. D!Rest(n) = a /\ D!Letter(n) = b + 1
    BY <1>3
  <2> HIDE DEF a, b
  <2>3. QED
    BY <1>1, <2>1, <2>2
<1>6. QED
  BY <1>4, <1>5 DEF d

LEMMA ColumnLabelIs ==
    /\ D!ColumnLabel \in [Nat -> Seq(Nat)]
    /\ \A n \in Nat : D!ColumnLabel[n] =
          IF n = 0 THEN <<>> ELSE Append(D!ColumnLabel[D!Rest(n)], D!Letter(n))
<1> DEFINE V    == Seq(Nat)
           size == [n \in Nat |-> n]
           rest == [n \in Nat |-> IF n = 0 THEN 0 ELSE D!Rest(n)]
           stop == {0}
           base == <<>>
           step == [n \in Nat |-> [v \in V |-> IF n = 0 THEN <<>> ELSE Append(v, D!Letter(n))]]
<1>1. size \in [Nat -> Nat] /\ base \in V
  OBVIOUS
<1>2. rest \in [Nat -> Nat]
  BY RestIsLess
<1>3. step \in [Nat -> [V -> V]]
  <2>1. ASSUME NEW n \in Nat, NEW v \in V PROVE (IF n = 0 THEN <<>> ELSE Append(v, D!Letter(n))) \in V
    BY RestIsLess
  <2> HIDE DEF V
  <2>2. QED
    BY <2>1
<1>4. \A n \in Nat : n \notin stop => size[rest[n]] < size[n]
  BY RestIsLess
<1>5. Shrinks(Nat, V, size, rest, stop, base, step)
  <2> HIDE DEF V, size, rest, stop, base, step
  <2>1. QED
    BY <1>1, <1>2, <1>3, <1>4 DEF Shrinks
<1>6. PICK f \in [Nat -> V] : \A n \in Nat : f[n] = Value(f, n, rest, stop, base, step)
  <2> HIDE DEF V, size, rest, stop, base, step
  <2>1. QED
    BY <1>5, RecursionDefines
<1>7. ASSUME NEW g, NEW n \in Nat
      PROVE  Value(g, n, rest, stop, base, step)
                = IF n = 0 THEN <<>> ELSE step[n][g[D!Rest(n)]]
  BY DEF Value
<1>8. ASSUME NEW g \in [Nat -> V], NEW n \in Nat
      PROVE  Value(g, n, rest, stop, base, step)
                = IF n = 0 THEN <<>> ELSE Append(g[D!Rest(n)], D!Letter(n))
  <2>1. CASE n = 0
    BY <1>7, <2>1
  <2>2. CASE n # 0
    <3>1. D!Rest(n) \in Nat /\ g[D!Rest(n)] \in V
      BY <2>2, RestIsLess
    <3>2. step[n][g[D!Rest(n)]] = Append(g[D!Rest(n)], D!Letter(n))
      BY <2>2, <3>1
    <3>3. QED
      BY <1>7, <2>2, <3>2
  <2>3. QED
    BY <2>1, <2>2
<1> DEFINE F(g) == [n \in Nat |-> IF n = 0 THEN <<>> ELSE Append(g[D!Rest(n)], D!Letter(n))]
           L    == D!ColumnLabel
<1>9. f = F(f)
  BY <1>6, <1>8
<1>10. L = CHOOSE g : g = F(g)
  BY DEF D!ColumnLabel
<1> HIDE DEF L
<1>11. L = F(L)
  <2> HIDE DEF F
  <2>1. QED
    BY <1>9, <1>10
<1>12. \A n \in Nat : L[n] = IF n = 0 THEN <<>> ELSE Append(L[D!Rest(n)], D!Letter(n))
  BY <1>11
<1>13. L = [n \in Nat |-> L[n]]
  BY <1>11
<1> HIDE DEF F, V, size, rest, stop, base, step
<1> DEFINE Bad == {n \in Nat : L[n] \notin Seq(Nat)}
<1>14. Bad = {}
  <2> SUFFICES ASSUME Bad # {} PROVE FALSE
    OBVIOUS
  <2>1. Bad \subseteq Nat
    OBVIOUS
  <2>2. PICK n \in Bad : \A m \in Bad : n <= m
    BY <2>1, LeastNumber
  <2>3. n \in Nat /\ L[n] \notin Seq(Nat)
    OBVIOUS
  <2>4. n # 0
    <3>1. L[0] = <<>> /\ <<>> \in Seq(Nat)
      BY <1>12
    <3>2. QED
      BY <2>3, <3>1
  <2>5. D!Rest(n) \in Nat /\ D!Rest(n) < n /\ D!Letter(n) \in Nat
    BY <2>3, <2>4, RestIsLess
  <2>6. D!Rest(n) \notin Bad
    BY <2>2, <2>3, <2>5
  <2>7. L[D!Rest(n)] \in Seq(Nat)
    BY <2>5, <2>6
  <2>8. Append(L[D!Rest(n)], D!Letter(n)) \in Seq(Nat)
    BY <2>5, <2>7
  <2>9. L[n] = Append(L[D!Rest(n)], D!Letter(n))
    BY <1>12, <2>3, <2>4
  <2>10. QED
    BY <2>3, <2>8, <2>9
<1>15. \A n \in Nat : L[n] \in Seq(Nat)
  BY <1>14
<1>16. L \in [Nat -> Seq(Nat)]
  BY <1>13, <1>15
<1>17. QED
  BY <1>12, <1>16 DEF L

\* A label without its last letter.
ButLast(s) == SubSeq(s, 1, Len(s) - 1)

LEMMA ButLastIs ==
    ASSUME NEW s \in Seq(Nat), s # <<>>
    PROVE  ButLast(s) \in Seq(Nat) /\ Len(ButLast(s)) < Len(s) /\ s[Len(s)] \in Nat
<1>1. Len(s) \in Nat \ {0}
  OBVIOUS
<1>2. Len(s) - 1 \in 0..Len(s) /\ Len(s) \in 1..Len(s) /\ Len(s) - 1 < Len(s)
  BY <1>1
<1>3. ButLast(s) \in Seq(Nat) /\ Len(ButLast(s)) = Len(s) - 1
  <2> DEFINE n == Len(s) - 1
  <2>1. n \in 0..Len(s) /\ n \in Nat
    BY <1>1, <1>2
  <2> HIDE DEF n
  <2>2. SubSeq(s, 1, n) \in Seq(Nat) /\ Len(SubSeq(s, 1, n)) = n
    BY <1>1, <2>1
  <2>3. QED
    BY <2>2 DEF ButLast, n
<1>4. QED
  BY <1>2, <1>3

LEMMA ButLastAppended ==
    ASSUME NEW s \in Seq(Nat), NEW x \in Nat
    PROVE  /\ Append(s, x) \in Seq(Nat) /\ Append(s, x) # <<>> /\ ButLast(Append(s, x)) = s
           /\ Append(s, x)[Len(Append(s, x))] = x
<1> DEFINE t == Append(s, x)
           n == Len(s)
<1>1. /\ t \in Seq(Nat) /\ Len(t) = n + 1 /\ n \in Nat /\ \A i \in 1..n : t[i] = s[i]
      /\ t[n + 1] = x
  OBVIOUS
<1> HIDE DEF t, n
<1>2. (n + 1) - 1 = n
  BY <1>1
<1>3. ButLast(t) = SubSeq(t, 1, n)
  BY <1>1, <1>2 DEF ButLast
<1>4. SubSeq(t, 1, n) \in Seq(Nat) /\ Len(SubSeq(t, 1, n)) = n /\ \A i \in 1..n : SubSeq(t, 1, n)[i] = t[i]
  BY <1>1
<1>5. SubSeq(t, 1, n) = s
  <2>1. Len(SubSeq(t, 1, n)) = Len(s) /\ \A i \in 1..Len(SubSeq(t, 1, n)) : SubSeq(t, 1, n)[i] = s[i]
    BY <1>1, <1>4 DEF n
  <2>2. QED
    BY <1>4, <2>1, SameSequence
<1>6. t # <<>>
  BY <1>1
<1>7. QED
  BY <1>1, <1>3, <1>5, <1>6 DEF t

LEMMA NumberIs ==
    \A s \in Seq(Nat) : D!Number[s] = IF s = <<>> THEN 0 ELSE D!Number[ButLast(s)] * Letters + s[Len(s)]
<1> DEFINE X    == Seq(Nat)
           size == [s \in X |-> Len(s)]
           rest == [s \in X |-> IF s = <<>> THEN <<>> ELSE ButLast(s)]
           stop == {<<>>}
           base == 0
           last(s) == IF s = <<>> THEN 0 ELSE s[Len(s)]
           step == [s \in X |-> [v \in Nat |-> v * Letters + last(s)]]
<1>1. size \in [X -> Nat] /\ base \in Nat
  OBVIOUS
<1>2. rest \in [X -> X]
  BY ButLastIs
<1>3. step \in [X -> [Nat -> Nat]]
  <2>1. \A s \in X : last(s) \in Nat
    BY ButLastIs
  <2> HIDE DEF last, X
  <2>2. QED
    BY <2>1, LettersFit
<1>4. \A s \in X : s \notin stop => size[rest[s]] < size[s]
  <2> SUFFICES ASSUME NEW s \in X, s # <<>> PROVE size[rest[s]] < size[s]
    OBVIOUS
  <2>1. rest[s] = ButLast(s) /\ ButLast(s) \in X /\ Len(ButLast(s)) < Len(s)
    BY ButLastIs
  <2>2. size[ButLast(s)] = Len(ButLast(s)) /\ size[s] = Len(s)
    BY <2>1
  <2>3. QED
    BY <2>1, <2>2
<1>5. Shrinks(X, Nat, size, rest, stop, base, step)
  <2> HIDE DEF X, size, rest, stop, base, step
  <2>1. QED
    BY <1>1, <1>2, <1>3, <1>4 DEF Shrinks
<1>6. PICK f \in [X -> Nat] : \A s \in X : f[s] = Value(f, s, rest, stop, base, step)
  <2> HIDE DEF X, size, rest, stop, base, step
  <2>1. QED
    BY <1>5, RecursionDefines
<1> DEFINE G(g, s) == IF s = <<>> THEN 0 ELSE g[ButLast(s)] * Letters + s[Len(s)]
           F(g)    == [s \in X |-> G(g, s)]
           L       == D!Number
<1>7. ASSUME NEW s \in X PROVE f[s] = G(f, s)
  <2>1. f[s] = IF s = <<>> THEN 0 ELSE step[s][f[rest[s]]]
    BY <1>6 DEF Value
  <2>2. CASE s = <<>>
    BY <2>1, <2>2
  <2>3. CASE s # <<>>
    <3>1. rest[s] = ButLast(s) /\ ButLast(s) \in X /\ last(s) = s[Len(s)]
      BY <2>3, ButLastIs
    <3>2. f[ButLast(s)] \in Nat
      BY <3>1
    <3>3. step[s][f[ButLast(s)]] = f[ButLast(s)] * Letters + s[Len(s)]
      <4> HIDE DEF last
      <4>1. step[s] = [v \in Nat |-> v * Letters + last(s)]
        OBVIOUS
      <4>2. QED
        BY <3>1, <3>2, <4>1
    <3>4. QED
      BY <2>1, <2>3, <3>1, <3>3
  <2>4. QED
    BY <2>2, <2>3
<1>8. f = F(f)
  <2> HIDE DEF G
  <2>1. QED
    BY <1>7
<1>9. L = CHOOSE g : g = F(g)
  BY DEF D!Number, ButLast
<1> HIDE DEF L
<1>10. L = F(L)
  <2> HIDE DEF F
  <2>1. QED
    BY <1>8, <1>9
<1>11. \A s \in X : L[s] = G(L, s)
  <2> HIDE DEF G
  <2>1. QED
    BY <1>10
<1>12. QED
  BY <1>11 DEF L

\* A label read as a number gives the column back.
LEMMA NumberOfLabel ==
    \A n \in Nat : D!Number[D!ColumnLabel[n]] = n
<1> DEFINE Bad  == {n \in Nat : D!Number[D!ColumnLabel[n]] # n}
<1> SUFFICES ASSUME Bad # {} PROVE FALSE
  OBVIOUS
<1>1. Bad \subseteq Nat
  OBVIOUS
<1>2. PICK n \in Bad : \A m \in Bad : n <= m
  BY <1>1, LeastNumber
<1>3. n \in Nat /\ D!Number[D!ColumnLabel[n]] # n
  OBVIOUS
<1>4. n # 0
  <2>1. D!ColumnLabel[0] = <<>> /\ <<>> \in Seq(Nat)
    BY ColumnLabelIs
  <2>2. D!Number[<<>>] = 0
    BY <2>1, NumberIs
  <2>3. QED
    BY <1>3, <2>1, <2>2
<1>5. /\ D!Rest(n) \in Nat /\ D!Rest(n) < n /\ D!Letter(n) \in Nat
      /\ D!Rest(n) * Letters + D!Letter(n) = n
  BY <1>3, <1>4, RestIsLess
<1>6. D!Rest(n) \notin Bad
  BY <1>2, <1>3, <1>5
<1>7. D!Number[D!ColumnLabel[D!Rest(n)]] = D!Rest(n)
  BY <1>5, <1>6
<1> DEFINE c == D!ColumnLabel[D!Rest(n)]
           l == D!Letter(n)
           t == Append(c, l)
<1>8. c \in Seq(Nat) /\ l \in Nat
  BY <1>5, ColumnLabelIs
<1>9. D!ColumnLabel[n] = t
  BY <1>3, <1>4, ColumnLabelIs
<1>10. t \in Seq(Nat) /\ t # <<>> /\ ButLast(t) = c /\ t[Len(t)] = l
  BY <1>8, ButLastAppended
<1> HIDE DEF t, c, l
<1>11. D!Number[t] = D!Number[ButLast(t)] * Letters + t[Len(t)]
  BY <1>10, NumberIs
<1>12. D!Number[t] = D!Rest(n) * Letters + l
  BY <1>7, <1>10, <1>11 DEF c
<1>13. QED
  BY <1>3, <1>5, <1>9, <1>12 DEF l

-----------------------------------------------------------------------------
(* What is read.                                                             *)

Triple(n) == n = <<n[1], n[2], n[3]>>

\* Two places are two nodes, the earlier one of which comes first.
LEMMA NodesDiffer ==
    ASSUME NEW doc, DocFit(doc), NEW p, NEW seen, D!FoundIn(doc, p, seen),
           NEW x \in D!Places(p), NEW y \in D!Places(p), D!Precedes(x, y)
    PROVE  /\ D!At(p, x).node \in D!Nodes(doc) /\ D!At(p, y).node \in D!Nodes(doc)
           /\ D!At(p, x).node # D!At(p, y).node
           /\ Triple(D!At(p, x).node) /\ Triple(D!At(p, y).node)
<1> DEFINE m == D!At(p, x).node
           n == D!At(p, y).node
<1>1. m \in D!Filled(doc) /\ n \in D!Filled(doc) /\ D!NodePrecedes(m, n)
  BY DEF D!FoundIn
<1> HIDE DEF m, n
<1>2. m \in D!Nodes(doc) /\ n \in D!Nodes(doc)
  BY <1>1 DEF D!Filled
<1>3. m = <<m[1], m[2], m[3]>> /\ m[1] \in Nat /\ m[2] \in Nat /\ m[3] \in Nat
  BY <1>2, NodesAreNumbers
<1>4. n = <<n[1], n[2], n[3]>>
  BY <1>2, NodesAreNumbers
<1>5. ~D!NodePrecedes(m, m)
  BY <1>3 DEF D!NodePrecedes
<1>6. m # n
  BY <1>1, <1>5
<1>7. QED
  BY <1>2, <1>3, <1>4, <1>6 DEF m, n, Triple

LEMMA WordLocators ==
    ASSUME NEW doc, doc.suffix = "docx", NEW p, NEW r, D!NamedByCount(doc, p, r), r.paragraphs \in Nat,
           NEW x \in D!Places(p), NEW y \in D!Places(p), D!Precedes(x, y),
           Triple(D!At(p, x).node), Triple(D!At(p, y).node), D!At(p, x).node # D!At(p, y).node
    PROVE  D!At(p, x).locator # D!At(p, y).locator
<1> DEFINE a     == D!At(p, x)
           b     == D!At(p, y)
           ca    == D!CountAt(p, x)
           cb    == D!CountAt(p, y)
           ka    == D!KindAt(doc, p, x)
           kb    == D!KindAt(doc, p, y)
<1>1. /\ (ka = "p" /\ ca \in 0..r.paragraphs /\ a.locator = <<"paragraph", ca>>)
            \/ (ka = "tbl" /\ a.locator = <<"table_cell", ca, a.node[2], a.node[3]>>)
      /\ (kb = "p" /\ cb \in 0..r.paragraphs /\ b.locator = <<"paragraph", cb>>)
            \/ (kb = "tbl" /\ b.locator = <<"table_cell", cb, b.node[2], b.node[3]>>)
  BY DEF D!NamedByCount
<1>2. /\ ka = "p" /\ kb = "p" => ca < cb
      /\ ka = "tbl" /\ kb = "tbl" /\ ca = cb => a.node[1] = b.node[1]
  BY DEF D!NamedByCount
<1>3. Triple(a.node) /\ Triple(b.node) /\ a.node # b.node
  OBVIOUS
<1> HIDE DEF a, b, ca, cb, ka, kb
<1>4. CASE ka = "p" /\ kb = "p"
  <2>1. a.locator = <<"paragraph", ca>> /\ b.locator = <<"paragraph", cb>> /\ ca \in 0..r.paragraphs
    BY <1>1, <1>4
  <2>2. ca # cb
    BY <1>1, <1>2, <1>4
  <2>3. a.locator # b.locator
    BY <2>1, <2>2
  <2>4. QED
    BY <2>3 DEF a, b
<1>5. CASE ka = "tbl" /\ kb = "tbl"
  <2>1. /\ a.locator = <<"table_cell", ca, a.node[2], a.node[3]>>
        /\ b.locator = <<"table_cell", cb, b.node[2], b.node[3]>>
    BY <1>1, <1>5
  <2>2. ASSUME a.locator = b.locator PROVE FALSE
    <3>1. ca = cb /\ a.node[2] = b.node[2] /\ a.node[3] = b.node[3]
      BY <2>1, <2>2
    <3>2. a.node[1] = b.node[1]
      BY <1>2, <1>5, <3>1
    <3>3. QED
      BY <1>3, <3>1, <3>2 DEF Triple
  <2>3. QED
    BY <2>2 DEF a, b
<1>6. CASE ka # kb
  <2>1. a.locator[1] # b.locator[1]
    BY <1>1, <1>6
  <2>2. QED
    BY <2>1 DEF a, b
<1>7. QED
  BY <1>1, <1>4, <1>5, <1>6

LEMMA LineLocators ==
    ASSUME NEW doc, DocFit(doc), doc.suffix = "txt", NEW m \in D!Nodes(doc), NEW n \in D!Nodes(doc),
           m # n, NEW i, NEW k, NEW j, NEW l
    PROVE  D!BlockLocator(doc, m, i, k) # D!BlockLocator(doc, n, j, l)
<1>1. DOMAIN doc.parts = {1} /\ Len(doc.parts[1].rows) = 1
  BY DEF DocFit
<1>2. Len(D!RowsOf(doc, 1)) = 1
  BY <1>1 DEF D!RowsOf
<1>3. /\ m = <<m[1], m[2], m[3]>> /\ m[1] \in {1} /\ m[2] \in 1..Len(D!RowsOf(doc, m[1]))
      /\ n = <<n[1], n[2], n[3]>> /\ n[1] \in {1} /\ n[2] \in 1..Len(D!RowsOf(doc, n[1]))
  BY <1>1, NodesAreNumbers
<1>4. m[1] = 1 /\ n[1] = 1 /\ m[2] = 1 /\ n[2] = 1
  <2>1. m[1] = 1 /\ n[1] = 1
    BY <1>3
  <2>2. m[2] \in 1..1 /\ n[2] \in 1..1
    BY <1>2, <1>3, <2>1
  <2>3. \A q \in 1..1 : q = 1
    OBVIOUS
  <2>4. QED
    BY <2>1, <2>2, <2>3
<1>5. m[3] # n[3]
  BY <1>3, <1>4
<1>6. D!BlockLocator(doc, m, i, k) = <<"line", m[3]>> /\ D!BlockLocator(doc, n, j, l) = <<"line", n[3]>>
  BY DEF D!BlockLocator
<1>7. QED
  BY <1>5, <1>6

\* A cell's coordinate is its own on a sheet.
LEMMA CoordinatesDiffer ==
    ASSUME NEW doc, DocFit(doc), doc.suffix = "xlsx", D!Located(doc),
           NEW m \in D!Nodes(doc), NEW n \in D!Nodes(doc), m[1] = n[1], m # n
    PROVE  D!Coordinate(doc, m) # D!Coordinate(doc, n)
<1> DEFINE p    == m[1]
           rows == doc.parts[p].rows
           all  == UNION {{i} \X DOMAIN rows[i].cells : i \in DOMAIN rows}
           r(x) == rows[x[1]].cells[x[2]].r
           a    == <<m[2], m[3]>>
           b    == <<n[2], n[3]>>
<1>1. D!RowsOf(doc, p) = rows /\ n[1] = p
  BY DEF D!RowsOf
<1>2. /\ p \in DOMAIN doc.parts /\ m = <<p, m[2], m[3]>> /\ n = <<p, n[2], n[3]>>
      /\ m[2] \in DOMAIN rows /\ m[3] \in DOMAIN rows[m[2]].cells
      /\ n[2] \in DOMAIN rows /\ n[3] \in DOMAIN rows[n[2]].cells
      /\ m[2] \in Nat /\ n[2] \in Nat /\ m[3] \in Nat /\ n[3] \in Nat
  <2>1. /\ m = <<m[1], m[2], m[3]>> /\ m[1] \in DOMAIN doc.parts /\ m[2] \in 1..Len(D!RowsOf(doc, m[1]))
        /\ m[3] \in 1..Len(D!RowsOf(doc, m[1])[m[2]].cells) /\ m[2] \in Nat /\ m[3] \in Nat
        /\ n = <<n[1], n[2], n[3]>> /\ n[2] \in 1..Len(D!RowsOf(doc, n[1]))
        /\ n[3] \in 1..Len(D!RowsOf(doc, n[1])[n[2]].cells) /\ n[2] \in Nat /\ n[3] \in Nat
    BY NodesAreNumbers
  <2>2. /\ DOMAIN D!RowsOf(doc, p) = 1..Len(D!RowsOf(doc, p))
        /\ \A k \in 1..Len(D!RowsOf(doc, p)) :
              DOMAIN D!RowsOf(doc, p)[k].cells = 1..Len(D!RowsOf(doc, p)[k].cells)
    BY <2>1, RowsListed
  <2>3. QED
    BY <1>1, <2>1, <2>2
<1>3. \/ \A x \in all : r(x) # <<>> /\ \A y \in all : x # y => r(x) # r(y)
      \/ \A x \in all : r(x) = <<>> /\ rows[x[1]].r = 0
  BY <1>2 DEF D!Located
<1>4. a \in all /\ b \in all
  <2>1. \A x : (\E i \in DOMAIN rows : \E j \in DOMAIN rows[i].cells : x = <<i, j>>) => x \in all
    <3> HIDE DEF rows
    <3>1. QED
      OBVIOUS
  <2> HIDE DEF all, rows
  <2>2. QED
    BY <1>2, <2>1
<1>5. /\ r(a) = rows[m[2]].cells[m[3]].r /\ r(b) = rows[n[2]].cells[n[3]].r
      /\ a[1] = m[2] /\ b[1] = n[2]
  OBVIOUS
<1>6. a # b
  BY <1>2
<1>7. /\ D!Coordinate(doc, m) = IF rows[m[2]].cells[m[3]].r # <<>> THEN rows[m[2]].cells[m[3]].r
            ELSE <<D!ColumnLabel[m[3]], IF rows[m[2]].r = 0 THEN m[2] ELSE rows[m[2]].r>>
      /\ D!Coordinate(doc, n) = IF rows[n[2]].cells[n[3]].r # <<>> THEN rows[n[2]].cells[n[3]].r
            ELSE <<D!ColumnLabel[n[3]], IF rows[n[2]].r = 0 THEN n[2] ELSE rows[n[2]].r>>
  BY <1>1 DEF D!Coordinate
<1> HIDE DEF all, r, rows, a, b, p
<1>8. CASE \A x \in all : r(x) # <<>> /\ \A y \in all : x # y => r(x) # r(y)
  <2>1. r(a) # <<>> /\ r(b) # <<>> /\ r(a) # r(b)
    BY <1>4, <1>6, <1>8
  <2>2. QED
    BY <1>5, <1>7, <2>1
<1>9. CASE \A x \in all : r(x) = <<>> /\ rows[x[1]].r = 0
  <2>1. r(a) = <<>> /\ r(b) = <<>> /\ rows[m[2]].r = 0 /\ rows[n[2]].r = 0
    BY <1>4, <1>5, <1>9
  <2>2. /\ D!Coordinate(doc, m) = <<D!ColumnLabel[m[3]], m[2]>>
        /\ D!Coordinate(doc, n) = <<D!ColumnLabel[n[3]], n[2]>>
    BY <1>5, <1>7, <2>1
  <2>3. ASSUME D!Coordinate(doc, m) = D!Coordinate(doc, n) PROVE FALSE
    <3>1. D!ColumnLabel[m[3]] = D!ColumnLabel[n[3]] /\ m[2] = n[2]
      BY <2>2, <2>3
    <3>2. D!Number[D!ColumnLabel[m[3]]] = m[3] /\ D!Number[D!ColumnLabel[n[3]]] = n[3]
      BY <1>2, NumberOfLabel
    <3>3. m[3] = n[3]
      BY <3>1, <3>2
    <3>4. m = n
      BY <1>2, <3>1, <3>3
    <3>5. QED
      BY <3>4
  <2>4. QED
    BY <2>3
<1>10. QED
  BY <1>3, <1>8, <1>9

LEMMA CellLocators ==
    ASSUME NEW doc, DocFit(doc), doc.suffix = "xlsx", D!Located(doc),
           NEW m \in D!Nodes(doc), NEW n \in D!Nodes(doc), m # n, NEW i, NEW k, NEW j, NEW l,
           i = j => m[1] = n[1]
    PROVE  D!BlockLocator(doc, m, i, k) # D!BlockLocator(doc, n, j, l)
<1>1. /\ D!BlockLocator(doc, m, i, k) = <<"cell", i, D!SheetName(doc, i), D!Coordinate(doc, m)>>
      /\ D!BlockLocator(doc, n, j, l) = <<"cell", j, D!SheetName(doc, j), D!Coordinate(doc, n)>>
  BY DEF D!BlockLocator
<1>2. ASSUME D!BlockLocator(doc, m, i, k) = D!BlockLocator(doc, n, j, l) PROVE FALSE
  <2>1. i = j /\ D!Coordinate(doc, m) = D!Coordinate(doc, n)
    BY <1>1, <1>2
  <2>2. QED
    BY <2>1, CoordinatesDiffer
<1>3. QED
  BY <1>2

LEMMA SlideLocators ==
    ASSUME NEW doc, doc.suffix \notin {"txt", "xlsx"}, NEW m, NEW n, NEW i, NEW k, NEW j, NEW l,
           <<i, k>> # <<j, l>>
    PROVE  D!BlockLocator(doc, m, i, k) # D!BlockLocator(doc, n, j, l)
<1>1. /\ D!BlockLocator(doc, m, i, k) = <<"slide_block", i, k>>
      /\ D!BlockLocator(doc, n, j, l) = <<"slide_block", j, l>>
  BY DEF D!BlockLocator
<1>2. QED
  BY <1>1

\* Of two places, one before the other, the locators differ.
LEMMA LocatorsDiffer ==
    ASSUME NEW doc, DocFit(doc), doc.suffix = "xlsx" => D!Located(doc), NEW p, D!Listed(p),
           \A i \in DOMAIN p : D!Listed(D!Sources(p[i])),
           NEW r, r.paragraphs \in Nat, NEW seen, D!FoundIn(doc, p, seen),
           D!NamedByPlace(doc, p, r), D!NamedByCount(doc, p, r),
           NEW x \in D!Places(p), NEW y \in D!Places(p), D!Precedes(x, y)
    PROVE  D!At(p, x).locator # D!At(p, y).locator
<1> DEFINE m == D!At(p, x).node
           n == D!At(p, y).node
<1>1. m \in D!Nodes(doc) /\ n \in D!Nodes(doc) /\ m # n /\ Triple(m) /\ Triple(n)
  BY NodesDiffer
<1>2. CASE doc.suffix = "docx"
  BY <1>1, <1>2, WordLocators
<1>3. CASE doc.suffix # "docx"
  <2>1. /\ D!At(p, x).locator = D!BlockLocator(doc, m, x[1], x[2])
        /\ D!At(p, y).locator = D!BlockLocator(doc, n, y[1], y[2])
        /\ x[1] = y[1] => m[1] = n[1]
    BY <1>3 DEF D!NamedByPlace
  <2> HIDE DEF m, n
  <2>2. D!BlockLocator(doc, m, x[1], x[2]) # D!BlockLocator(doc, n, y[1], y[2])
    <3>1. CASE doc.suffix = "txt"
      BY <1>1, <3>1, LineLocators
    <3>2. CASE doc.suffix = "xlsx"
      BY <1>1, <2>1, <3>2, CellLocators
    <3>3. CASE doc.suffix \notin {"txt", "xlsx"}
      <4>1. x[1] \in Nat /\ x[2] \in Nat /\ y[1] \in Nat /\ y[2] \in Nat
        BY PlacesAreNumbers
      <4>2. <<x[1], x[2]>> # <<y[1], y[2]>>
        BY <4>1 DEF D!Precedes
      <4>3. QED
        BY <3>3, <4>2, SlideLocators
    <3>4. QED
      BY <3>1, <3>2, <3>3
  <2>3. QED
    BY <2>1, <2>2
<1>4. QED
  BY <1>2, <1>3

\* Two pages have locators of their own.
LEMMA PageLocatorsDiffer ==
    ASSUME NEW doc, DocFit(doc), NEW p, D!Listed(p), NEW finished, D!PagesOK(doc, p, finished),
           doc.suffix = "txt" => Len(p) \in {0, 1},
           \A x, y \in D!Places(p) : x # y => D!At(p, x).locator # D!At(p, y).locator,
           NEW i \in DOMAIN p, NEW k \in DOMAIN p, i # k
    PROVE  p[i].locator # p[k].locator
<1>1. DOMAIN p = 1..Len(p) /\ Len(p) \in Nat /\ i \in Nat /\ k \in Nat
  <2>1. DOMAIN p = 1..Len(p) /\ Len(p) \in Nat
    BY ListedShape
  <2>2. QED
    BY <2>1
<1>2. Len(p) \notin {0, 1}
  BY <1>1
<1>3. CASE doc.suffix = "docx"
  <2>1. ASSUME NEW j \in DOMAIN p
        PROVE  <<j, 1>> \in D!Places(p) /\ D!At(p, <<j, 1>>).locator = p[j].locator
    <3>1. p[j].blocks = <<>> /\ p[j].has_text
      BY <1>2, <1>3 DEF D!PagesOK
    <3> DEFINE b == D!Block(p[j].text[1], p[j].locator, p[j].node)
    <3>2. b.locator = p[j].locator
      BY DEF D!Block
    <3> HIDE DEF b
    <3>3. D!Sources(p[j]) = <<b>>
      BY <3>1 DEF D!Sources, b
    <3>4. DOMAIN D!Sources(p[j]) = {1} /\ D!Sources(p[j])[1] = b
      BY <3>3, ListedSingle
    <3>5. <<j, 1>> \in D!Places(p)
      BY <3>4 DEF D!Places
    <3>6. D!At(p, <<j, 1>>) = b
      BY <3>4 DEF D!At
    <3>7. QED
      BY <3>2, <3>5, <3>6
  <2>2. <<i, 1>> # <<k, 1>>
    OBVIOUS
  <2>3. QED
    BY <2>1, <2>2
<1>4. CASE doc.suffix # "docx"
  <2>1. p[i].locator = D!PageLocator(doc, i) /\ p[k].locator = D!PageLocator(doc, k)
    BY <1>4 DEF D!PagesOK
  <2>2. doc.suffix # "txt"
    BY <1>2
  <2>3. CASE doc.suffix = "xlsx"
    <3>1. /\ D!PageLocator(doc, i) = <<"sheet", i, D!SheetName(doc, i)>>
          /\ D!PageLocator(doc, k) = <<"sheet", k, D!SheetName(doc, k)>>
      BY <2>3 DEF D!PageLocator
    <3>2. QED
      BY <2>1, <3>1
  <2>4. CASE doc.suffix # "xlsx"
    <3>1. D!PageLocator(doc, i) = <<"slide", i>> /\ D!PageLocator(doc, k) = <<"slide", k>>
      BY <1>4, <2>2, <2>4 DEF D!PageLocator
    <3>2. QED
      BY <2>1, <3>1
  <2>5. QED
    BY <2>3, <2>4
<1>5. QED
  BY <1>3, <1>4

\* What the invariant says of a document that was read.
LEMMA ReadIs ==
    ASSUME D!ReadInv, outcome = "read"
    PROVE  /\ DocFit(input.doc) /\ D!PagesOK(input.doc, output, TRUE)
           /\ D!FoundIn(input.doc, output, D!Nodes(input.doc))
           /\ D!NamedByPlace(input.doc, output, reader) /\ D!NamedByCount(input.doc, output, reader)
           /\ D!Listed(output) /\ reader.paragraphs \in Nat
           /\ \A i \in DOMAIN output : D!Listed(D!Sources(output[i]))
           /\ input.doc.suffix = "txt" => Len(output) \in {0, 1}
<1>1. input \in Inputs /\ input.what = "document"
  BY ReadInvIs
<1>2. DocFit(input.doc)
  BY <1>1, PipelineAssumption DEF D!DocumentsFit, DocFit
<1>3. (outcome = "read") = TRUE
  OBVIOUS
<1>4. /\ Good(input.doc, output, reader, TRUE) /\ reader.row = 0
      /\ D!Seen(input.doc, reader) = D!Nodes(input.doc)
  BY <1>1, <1>3, ReadInvIs
<1>5. D!SoFar(input.doc, output, reader) = output
  BY <1>4, OpenPagesAre
<1>6. D!ReaderOK(input.doc, output, reader)
  BY <1>4 DEF Good
<1>7. /\ D!PagesOK(input.doc, output, TRUE) /\ D!FoundIn(input.doc, output, D!Nodes(input.doc))
      /\ D!NamedByPlace(input.doc, output, reader) /\ D!NamedByCount(input.doc, output, reader)
  BY <1>4, <1>5 DEF Good
<1>8. D!Listed(output) /\ reader.paragraphs \in Nat
  BY <1>6, ReaderIs
<1>9. input.doc.suffix = "txt" => Len(output) \in {0, 1}
  BY <1>5, <1>6 DEF D!ReaderOK
<1>10. QED
  BY <1>2, <1>7, <1>8, <1>9, PagesSources

LEMMA LocatorsHold == D!ReadInv => D!LocatorsDistinct
<1> SUFFICES ASSUME D!ReadInv, outcome = "read", input.doc.suffix = "xlsx" => D!Located(input.doc)
             PROVE  /\ \A x, y \in D!Places(output) :
                          x # y => D!At(output, x).locator # D!At(output, y).locator
                    /\ \A i, k \in DOMAIN output : i # k => output[i].locator # output[k].locator
                    /\ \A i \in DOMAIN output : output[i].page = i
  BY DEF D!LocatorsDistinct, D!Extracted
<1>1. /\ DocFit(input.doc) /\ D!PagesOK(input.doc, output, TRUE)
      /\ D!FoundIn(input.doc, output, D!Nodes(input.doc))
      /\ D!NamedByPlace(input.doc, output, reader) /\ D!NamedByCount(input.doc, output, reader)
      /\ D!Listed(output) /\ reader.paragraphs \in Nat
      /\ \A i \in DOMAIN output : D!Listed(D!Sources(output[i]))
      /\ input.doc.suffix = "txt" => Len(output) \in {0, 1}
  BY ReadIs
<1>2. \A x, y \in D!Places(output) : x # y => D!At(output, x).locator # D!At(output, y).locator
  <2> SUFFICES ASSUME NEW x \in D!Places(output), NEW y \in D!Places(output), x # y
               PROVE  D!At(output, x).locator # D!At(output, y).locator
    OBVIOUS
  <2>1. CASE D!Precedes(x, y)
    BY <1>1, <2>1, LocatorsDiffer
  <2>2. CASE D!Precedes(y, x)
    <3>1. D!At(output, y).locator # D!At(output, x).locator
      BY <1>1, <2>2, LocatorsDiffer
    <3>2. QED
      BY <3>1
  <2>3. QED
    BY <1>1, <2>1, <2>2, PlacesOrdered
<1>3. \A i, k \in DOMAIN output : i # k => output[i].locator # output[k].locator
  <2> SUFFICES ASSUME NEW i \in DOMAIN output, NEW k \in DOMAIN output, i # k
               PROVE  output[i].locator # output[k].locator
    OBVIOUS
  <2>1. QED
    BY <1>1, <1>2, PageLocatorsDiffer
<1>4. \A i \in DOMAIN output : output[i].page = i
  BY <1>1 DEF D!PagesOK
<1>5. QED
  BY <1>2, <1>3, <1>4

LEMMA TextHolds == D!ReadInv => D!TextKept
<1> SUFFICES ASSUME D!ReadInv, outcome = "read"
             PROVE  /\ D!FoundIn(input.doc, output, D!Nodes(input.doc))
                    /\ \A i \in DOMAIN output : output[i].ocr_required => D!Sources(output[i]) = <<>>
  BY DEF D!TextKept, D!Extracted
<1>1. D!PagesOK(input.doc, output, TRUE) /\ D!FoundIn(input.doc, output, D!Nodes(input.doc))
  BY ReadIs
<1>2. QED
  BY <1>1 DEF D!PagesOK

LEMMA LabelsHold == D!ReadInv => D!LabelIsColumn
<1> SUFFICES ASSUME D!ReadInv, outcome = "read", NEW n \in D!Nodes(input.doc)
             PROVE  D!Number[D!ColumnLabel[n[3]]] = n[3]
  BY DEF D!LabelIsColumn, D!Extracted
<1>1. DocFit(input.doc)
  BY ReadIs
<1>2. n[3] \in Nat
  BY <1>1, NodesAreNumbers
<1>3. QED
  BY <1>2, NumberOfLabel

\* The readers of extraction.py find each text of a document once, in the document's order and
\* under a locator no other text has, and number the columns of a sheet the way a spreadsheet
\* does: whatever the documents and the number of letters.
THEOREM SourcesAreKept == Spec => []SourcesKept
<1>1. D!ReadInv => SourcesKept
  BY LocatorsHold, TextHolds, LabelsHold DEF SourcesKept, D!SourcesKept
<1>2. D!Init => D!ReadInv /\ D!ScanInv
  BY ReadStart, ScanStart
<1>3. D!ReadInv /\ D!ScanInv /\ [D!Next]_(D!vars) => D!ReadInv' /\ D!ScanInv'
  BY ReadStep, ScanStep
<1>4. D!Spec => [](D!ReadInv /\ D!ScanInv)
  BY <1>2, <1>3, PTL DEF D!Spec
<1>5. QED
  BY <1>1, <1>4, DocumentsComposed, PTL

-----------------------------------------------------------------------------
(* Texts of the rules.                                                       *)

\* What Respaced does with the last character of t, given what it made of the others.
AddLast(gap, t, before) ==
    IF t[Len(t)] = 0 THEN before
    ELSE IF before # <<>> /\ t[Len(t) - 1] = 0 THEN Append(before \o gap, t[Len(t)])
    ELSE Append(before, t[Len(t)])

LEMMA AddLastIs ==
    ASSUME NEW gap \in Seq(Nat), NEW t \in Seq(Nat), t # <<>>, NEW before \in Seq(Nat)
    PROVE  AddLast(gap, t, before) \in Seq(Nat)
<1>1. t[Len(t)] \in Nat
  BY ButLastIs
<1>2. before \o gap \in Seq(Nat)
  OBVIOUS
<1>3. Append(before \o gap, t[Len(t)]) \in Seq(Nat) /\ Append(before, t[Len(t)]) \in Seq(Nat)
  BY <1>1, <1>2
<1>4. QED
  BY <1>3 DEF AddLast

LEMMA RespacedIs ==
    ASSUME NEW gap \in Seq(Nat)
    PROVE  \A t \in Seq(Nat) :
              /\ R!Respaced(gap, t) \in Seq(Nat)
              /\ R!Respaced(gap, t) = IF t = <<>> THEN <<>>
                                      ELSE AddLast(gap, t, R!Respaced(gap, ButLast(t)))
<1> DEFINE X    == Seq(Nat)
           size == [t \in X |-> Len(t)]
           rest == [t \in X |-> IF t = <<>> THEN <<>> ELSE ButLast(t)]
           stop == {<<>>}
           base == <<>>
           step == [t \in X |-> [v \in X |-> IF t = <<>> THEN <<>> ELSE AddLast(gap, t, v)]]
<1>1. size \in [X -> Nat] /\ base \in X
  OBVIOUS
<1>2. rest \in [X -> X]
  BY ButLastIs
<1>3. step \in [X -> [X -> X]]
  <2>1. \A t \in X, v \in X : (IF t = <<>> THEN <<>> ELSE AddLast(gap, t, v)) \in X
    BY AddLastIs
  <2> HIDE DEF X
  <2>2. QED
    BY <2>1
<1>4. \A t \in X : t \notin stop => size[rest[t]] < size[t]
  <2> SUFFICES ASSUME NEW t \in X, t # <<>> PROVE size[rest[t]] < size[t]
    OBVIOUS
  <2>1. rest[t] = ButLast(t) /\ ButLast(t) \in X /\ Len(ButLast(t)) < Len(t)
    BY ButLastIs
  <2>2. size[ButLast(t)] = Len(ButLast(t)) /\ size[t] = Len(t)
    BY <2>1
  <2>3. QED
    BY <2>1, <2>2
<1>5. Shrinks(X, X, size, rest, stop, base, step)
  <2> HIDE DEF X, size, rest, stop, base, step
  <2>1. QED
    BY <1>1, <1>2, <1>3, <1>4 DEF Shrinks
<1>6. PICK f \in [X -> X] : \A t \in X : f[t] = Value(f, t, rest, stop, base, step)
  <2> HIDE DEF X, size, rest, stop, base, step
  <2>1. QED
    BY <1>5, RecursionDefines
<1> DEFINE G(g, t) == IF t = <<>> THEN <<>> ELSE AddLast(gap, t, g[ButLast(t)])
           F(g)    == [t \in X |-> G(g, t)]
           L       == CHOOSE g : g = F(g)
<1>7. ASSUME NEW t \in X PROVE f[t] = G(f, t)
  <2>1. f[t] = IF t = <<>> THEN <<>> ELSE step[t][f[rest[t]]]
    BY <1>6 DEF Value
  <2>2. CASE t = <<>>
    BY <2>1, <2>2
  <2>3. CASE t # <<>>
    <3>1. rest[t] = ButLast(t) /\ ButLast(t) \in X
      BY <2>3, ButLastIs
    <3>2. f[ButLast(t)] \in X
      BY <3>1
    <3>3. step[t][f[ButLast(t)]] = AddLast(gap, t, f[ButLast(t)])
      BY <2>3, <3>2
    <3>4. QED
      BY <2>1, <2>3, <3>1, <3>3
  <2>4. QED
    BY <2>2, <2>3
<1>8. f = F(f)
  <2> HIDE DEF G
  <2>1. QED
    BY <1>7
<1>9. \A t \in X : R!Respaced(gap, t) = L[t]
  BY DEF R!Respaced, AddLast, ButLast
<1> HIDE DEF L
<1>10. L = F(L)
  <2> HIDE DEF F
  <2>1. QED
    BY <1>8 DEF L
<1>11. \A t \in X : L[t] = G(L, t)
  <2> HIDE DEF G
  <2>1. QED
    BY <1>10
<1> HIDE DEF F, size, rest, stop, base, step
<1>12. \A t \in X : L[t] \in X
  <2> DEFINE Bad == {t \in X : L[t] \notin X}
             N   == {Len(t) : t \in Bad}
  <2> SUFFICES ASSUME Bad # {} PROVE FALSE
    OBVIOUS
  <2>0. \A t \in Bad : t \in X /\ L[t] \notin X /\ Len(t) \in Nat /\ Len(t) \in N
    OBVIOUS
  <2>1. N \subseteq Nat /\ N # {}
    <3>1. N \subseteq Nat
      BY <2>0
    <3>2. QED
      BY <2>0, <3>1
  <2>2. PICK n \in N : \A m \in N : n <= m
    BY <2>1, LeastNumber
  <2>3. PICK t \in Bad : Len(t) = n
    OBVIOUS
  <2>4. t \in X /\ L[t] \notin X
    OBVIOUS
  <2>5. t # <<>>
    BY <1>11, <2>4
  <2>6. ButLast(t) \in X /\ Len(ButLast(t)) < Len(t) /\ Len(ButLast(t)) \in Nat /\ Len(t) \in Nat
    BY <2>4, <2>5, ButLastIs
  <2>7. ButLast(t) \notin Bad
    <3> SUFFICES ASSUME ButLast(t) \in Bad PROVE FALSE
      OBVIOUS
    <3> HIDE DEF N, Bad
    <3>1. Len(ButLast(t)) \in N
      BY <2>0
    <3>2. QED
      BY <2>2, <2>3, <2>6, <3>1
  <2>8. L[ButLast(t)] \in X
    BY <2>6, <2>7
  <2>9. L[t] = AddLast(gap, t, L[ButLast(t)])
    BY <1>11, <2>4, <2>5
  <2>10. QED
    BY <2>4, <2>5, <2>8, <2>9, AddLastIs
<1>13. QED
  <2> SUFFICES ASSUME NEW t \in Seq(Nat)
               PROVE  /\ R!Respaced(gap, t) \in Seq(Nat)
                      /\ R!Respaced(gap, t) = IF t = <<>> THEN <<>>
                                      ELSE AddLast(gap, t, R!Respaced(gap, ButLast(t)))
    OBVIOUS
  <2>1. R!Respaced(gap, t) = L[t] /\ L[t] \in Seq(Nat)
    BY <1>9, <1>12
  <2>2. CASE t = <<>>
    BY <1>11, <2>1, <2>2
  <2>3. CASE t # <<>>
    <3>1. ButLast(t) \in X
      BY <2>3, ButLastIs
    <3>2. R!Respaced(gap, ButLast(t)) = L[ButLast(t)]
      BY <1>9, <3>1
    <3>3. QED
      BY <1>11, <2>1, <2>3, <3>2
  <2>4. QED
    BY <2>2, <2>3

LEMMA ShortSequences ==
    /\ <<>> \in Seq(Nat) /\ Len(<<>>) = 0
    /\ \A x \in Nat : <<x>> \in Seq(Nat) /\ Len(<<x>>) = 1
    /\ \A s \in Seq(Nat) : s \o <<>> = s /\ <<>> \o s = s /\ \A x \in Nat : s \o <<x>> = Append(s, x)
    /\ \A s \in Seq(Nat) : Len(s) = 0 => s = <<>>
  OBVIOUS

LEMMA JoinAppended ==
    ASSUME NEW s \in Seq(Nat), NEW u \in Seq(Nat), NEW x \in Nat
    PROVE  s \o Append(u, x) = Append(s \o u, x)
<1> DEFINE a == s \o Append(u, x)
           b == Append(s \o u, x)
           m == Len(s)
           n == Len(u)
<1>1. /\ Append(u, x) \in Seq(Nat) /\ Len(Append(u, x)) = n + 1 /\ m \in Nat /\ n \in Nat
      /\ \A j \in 1..n : Append(u, x)[j] = u[j]
      /\ Append(u, x)[n + 1] = x
  OBVIOUS
<1>2. /\ a \in Seq(Nat) /\ Len(a) = m + (n + 1) /\ \A j \in 1..m : a[j] = s[j]
      /\ \A j \in 1..(n + 1) : a[m + j] = Append(u, x)[j]
  BY <1>1, Joined
<1>3. /\ s \o u \in Seq(Nat) /\ Len(s \o u) = m + n /\ \A j \in 1..m : (s \o u)[j] = s[j]
      /\ \A j \in 1..n : (s \o u)[m + j] = u[j]
  BY Joined
<1>4. /\ b \in Seq(Nat) /\ Len(b) = (m + n) + 1 /\ \A j \in 1..(m + n) : b[j] = (s \o u)[j]
      /\ b[(m + n) + 1] = x
  <2> DEFINE w == s \o u
  <2>1. w \in Seq(Nat) /\ Len(w) = m + n
    BY <1>3
  <2> HIDE DEF w, m, n
  <2>2. Append(w, x) \in Seq(Nat) /\ Len(Append(w, x)) = Len(w) + 1
        /\ (\A j \in 1..Len(w) : Append(w, x)[j] = w[j]) /\ Append(w, x)[Len(w) + 1] = x
    BY <2>1
  <2>3. QED
    BY <2>1, <2>2 DEF w
<1> HIDE DEF a, b, m, n
<1>5. ASSUME NEW j \in 1..Len(a) PROVE a[j] = b[j]
  <2>1. CASE j <= m
    BY <1>1, <1>2, <1>3, <1>4, <2>1
  <2>2. CASE ~(j <= m)
    <3> DEFINE i == j - m
    <3>1. i \in 1..(n + 1) /\ j = m + i
      BY <1>1, <1>2, <2>2
    <3> HIDE DEF i
    <3>2. CASE i = n + 1
      BY <1>1, <1>2, <1>4, <3>1, <3>2
    <3>3. CASE i # n + 1
      <4>1. i \in 1..n /\ m + i \in 1..(m + n)
        BY <1>1, <3>1, <3>3
      <4>2. QED
        BY <1>1, <1>2, <1>3, <1>4, <3>1, <4>1
    <3>4. QED
      BY <3>2, <3>3
  <2>3. QED
    BY <2>1, <2>2
<1>6. Len(a) = Len(b)
  BY <1>1, <1>2, <1>4
<1>7. QED
  BY <1>2, <1>4, <1>5, <1>6, SameSequence DEF a, b

LEMMA Unappended ==
    ASSUME NEW t \in Seq(Nat), t # <<>>
    PROVE  /\ ButLast(t) \in Seq(Nat) /\ t[Len(t)] \in Nat /\ Len(t) = Len(ButLast(t)) + 1
           /\ t = Append(ButLast(t), t[Len(t)])
<1> DEFINE n == Len(t) - 1
           b == ButLast(t)
           x == t[Len(t)]
<1>1. b \in Seq(Nat) /\ x \in Nat /\ Len(t) = n + 1 /\ n \in Nat
  <2>1. Len(t) \in Nat /\ Len(t) # 0
    BY ShortSequences
  <2>2. QED
    BY <2>1, ButLastIs
<1>2. Len(b) = n /\ \A j \in 1..n : b[j] = t[j]
  <2>1. b = SubSeq(t, 1, n)
    BY DEF ButLast
  <2> HIDE DEF b, n
  <2>2. Len(SubSeq(t, 1, n)) = n /\ \A j \in 1..n : SubSeq(t, 1, n)[j] = t[j]
    BY <1>1
  <2>3. QED
    BY <2>1, <2>2
<1> HIDE DEF b, n
<1>3. /\ Append(b, x) \in Seq(Nat) /\ Len(Append(b, x)) = n + 1
      /\ \A j \in 1..n : Append(b, x)[j] = b[j]
      /\ Append(b, x)[n + 1] = x
  BY <1>1, <1>2, SeqAppended
<1>4. \A j \in 1..Len(t) : t[j] = Append(b, x)[j]
  BY <1>1, <1>2, <1>3
<1>5. t = Append(b, x)
  BY <1>1, <1>3, <1>4, SameSequence
<1>6. QED
  BY <1>1, <1>2, <1>5 DEF b

LEMMA CompactIs ==
    /\ R!Compact(<<>>) = <<>>
    /\ \A t \in Seq(Nat) : R!Compact(t) \in Seq(Nat)
    /\ \A t \in Seq(Nat), x \in Nat :
          R!Compact(Append(t, x)) = IF x = 0 THEN R!Compact(t) ELSE Append(R!Compact(t), x)
<1>1. <<>> \in Seq(Nat)
  BY ShortSequences
<1>2. R!Compact(<<>>) = <<>>
  BY <1>1, RespacedIs DEF R!Compact
<1>3. \A t \in Seq(Nat) : R!Compact(t) \in Seq(Nat)
  BY <1>1, RespacedIs DEF R!Compact
<1>4. ASSUME NEW t \in Seq(Nat), NEW x \in Nat
      PROVE  R!Compact(Append(t, x)) = IF x = 0 THEN R!Compact(t) ELSE Append(R!Compact(t), x)
  <2> DEFINE u == Append(t, x)
  <2>1. u \in Seq(Nat) /\ u # <<>> /\ ButLast(u) = t /\ u[Len(u)] = x
    BY ButLastAppended
  <2> HIDE DEF u
  <2>2. R!Compact(u) = AddLast(<<>>, u, R!Compact(t))
    BY <1>1, <2>1, RespacedIs DEF R!Compact
  <2>3. R!Compact(t) \o <<>> = R!Compact(t)
    BY <1>3, ShortSequences
  <2>4. QED
    BY <2>1, <2>2, <2>3 DEF AddLast, u
<1>5. QED
  BY <1>2, <1>3, <1>4

\* What holds of the empty text and of a text with one more character holds of every text:
\* Bad are those it does not hold of.
LEMMA NoneBad ==
    ASSUME NEW Bad, Bad \subseteq Seq(Nat), <<>> \notin Bad,
           \A t \in Seq(Nat), x \in Nat : Append(t, x) \in Bad => t \in Bad
    PROVE  Bad = {}
<1> SUFFICES ASSUME Bad # {} PROVE FALSE
  OBVIOUS
<1> DEFINE N == {Len(t) : t \in Bad}
<1>1. \A t \in Bad : t \in Seq(Nat) /\ Len(t) \in Nat /\ Len(t) \in N
  OBVIOUS
<1>2. N \subseteq Nat /\ N # {}
  <2>1. N \subseteq Nat
    BY <1>1
  <2>2. QED
    BY <1>1, <2>1
<1>3. PICK n \in N : \A m \in N : n <= m
  BY <1>2, LeastNumber
<1>4. PICK t \in Bad : Len(t) = n
  OBVIOUS
<1> HIDE DEF N
<1>5. t \in Seq(Nat) /\ t # <<>>
  BY <1>1
<1>6. /\ ButLast(t) \in Seq(Nat) /\ t[Len(t)] \in Nat /\ Len(t) = Len(ButLast(t)) + 1
      /\ t = Append(ButLast(t), t[Len(t)])
  BY <1>5, Unappended
<1>7. ButLast(t) \in Bad
  BY <1>6
<1>8. Len(ButLast(t)) \in N /\ Len(ButLast(t)) \in Nat
  BY <1>1, <1>7
<1>9. n <= Len(ButLast(t))
  BY <1>3, <1>8
<1>10. QED
  BY <1>4, <1>6, <1>8, <1>9

LEMMA CompactJoined ==
    \A s \in Seq(Nat), u \in Seq(Nat) : R!Compact(s \o u) = R!Compact(s) \o R!Compact(u)
<1> SUFFICES ASSUME NEW s \in Seq(Nat)
             PROVE  \A u \in Seq(Nat) : R!Compact(s \o u) = R!Compact(s) \o R!Compact(u)
  OBVIOUS
<1> DEFINE Bad == {u \in Seq(Nat) : R!Compact(s \o u) # R!Compact(s) \o R!Compact(u)}
<1>1. <<>> \notin Bad
  <2>1. s \o <<>> = s /\ R!Compact(s) \o <<>> = R!Compact(s) /\ R!Compact(<<>>) = <<>>
    BY CompactIs, ShortSequences
  <2>2. QED
    BY <2>1
<1>2. ASSUME NEW u \in Seq(Nat), NEW x \in Nat, u \notin Bad PROVE Append(u, x) \notin Bad
  <2> DEFINE a == R!Compact(s)
             b == R!Compact(u)
  <2>1. R!Compact(s \o u) = a \o b /\ a \in Seq(Nat) /\ b \in Seq(Nat) /\ s \o u \in Seq(Nat)
    BY <1>2, CompactIs, Joined
  <2>2. R!Compact(s \o Append(u, x)) = IF x = 0 THEN a \o b ELSE Append(a \o b, x)
    <3> DEFINE w == s \o u
    <3>1. s \o Append(u, x) = Append(w, x) /\ w \in Seq(Nat) /\ R!Compact(w) = a \o b
      BY <2>1, JoinAppended
    <3> HIDE DEF w, a, b
    <3>2. R!Compact(Append(w, x)) = IF x = 0 THEN R!Compact(w) ELSE Append(R!Compact(w), x)
      BY <3>1, CompactIs
    <3>3. QED
      BY <3>1, <3>2
  <2>3. R!Compact(Append(u, x)) = IF x = 0 THEN b ELSE Append(b, x)
    BY CompactIs
  <2>4. a \o Append(b, x) = Append(a \o b, x)
    BY <2>1, JoinAppended
  <2> HIDE DEF b
  <2>5. R!Compact(s \o Append(u, x)) = a \o R!Compact(Append(u, x))
    BY <2>2, <2>3, <2>4
  <2>6. QED
    BY <2>5
<1>3. Bad \subseteq Seq(Nat)
  OBVIOUS
<1>4. Bad = {}
  <2>1. \A u \in Seq(Nat), x \in Nat : Append(u, x) \in Bad => u \in Bad
    BY <1>2
  <2> HIDE DEF Bad
  <2>2. QED
    BY <1>1, <1>3, <2>1, NoneBad
<1>5. QED
  BY <1>4

\* A quote has the characters of its window.
LEMMA QuoteKeeps ==
    \A t \in Seq(Nat) : R!Compact(R!Respaced(<<0>>, t)) = R!Compact(t)
<1> DEFINE q(t) == R!Respaced(<<0>>, t)
           Bad  == {t \in Seq(Nat) : R!Compact(q(t)) # R!Compact(t)}
<1>0. <<0>> \in Seq(Nat) /\ <<>> \in Seq(Nat)
  BY ShortSequences
<1>1. <<>> \notin Bad
  BY <1>0, RespacedIs, CompactIs
<1>2. ASSUME NEW t \in Seq(Nat), NEW x \in Nat, t \notin Bad PROVE Append(t, x) \notin Bad
  <2> DEFINE u == Append(t, x)
             b == q(t)
  <2>1. u \in Seq(Nat) /\ u # <<>> /\ ButLast(u) = t /\ u[Len(u)] = x
    BY ButLastAppended
  <2>2. b \in Seq(Nat) /\ R!Compact(b) = R!Compact(t)
    BY <1>0, <1>2, RespacedIs
  <2> HIDE DEF u
  <2>3. q(u) = AddLast(<<0>>, u, b)
    BY <1>0, <2>1, RespacedIs
  <2>4. R!Compact(u) = IF x = 0 THEN R!Compact(t) ELSE Append(R!Compact(t), x)
    BY CompactIs DEF u
  <2> HIDE DEF q, b
  <2>5. b \o <<0>> = Append(b, 0) /\ Append(b, 0) \in Seq(Nat)
    BY <2>2, ShortSequences, SeqAppended
  <2>6. R!Compact(Append(b, 0)) = R!Compact(b)
    BY <2>2, CompactIs
  <2>7. R!Compact(Append(b, x)) = IF x = 0 THEN R!Compact(b) ELSE Append(R!Compact(b), x)
    BY <2>2, CompactIs
  <2>8. R!Compact(Append(Append(b, 0), x)) = IF x = 0 THEN R!Compact(b) ELSE Append(R!Compact(b), x)
    BY <2>5, <2>6, CompactIs
  <2>9. R!Compact(q(u)) = R!Compact(u)
    BY <2>1, <2>2, <2>3, <2>4, <2>5, <2>7, <2>8 DEF AddLast
  <2>10. QED
    BY <2>9 DEF u
<1>3. Bad \subseteq Seq(Nat)
  OBVIOUS
<1>4. Bad = {}
  <2>1. \A u \in Seq(Nat), x \in Nat : Append(u, x) \in Bad => u \in Bad
    BY <1>2
  <2> HIDE DEF Bad
  <2>2. QED
    BY <1>1, <1>3, <2>1, NoneBad
<1>5. QED
  BY <1>4

-----------------------------------------------------------------------------
(* A word in a text.                                                         *)

LEMMA FoundIs ==
    ASSUME NEW w \in Seq(Nat), NEW t \in Seq(Nat), NEW i
    PROVE  i \in R!FoundAt(w, t) <=>
              /\ i \in Nat /\ i >= 1 /\ i + Len(w) <= Len(t) + 1
              /\ \A k \in 1..Len(w) : t[i + k - 1] = w[k]
<1>1. Len(w) \in Nat /\ Len(t) \in Nat
  OBVIOUS
<1>2. i \in R!FoundAt(w, t) <=>
         i \in 1..(Len(t) + 1) /\ i + Len(w) <= Len(t) + 1 /\ \A k \in 1..Len(w) : t[i + k - 1] = w[k]
  BY DEF R!FoundAt
<1> DEFINE m == Len(t)
           n == Len(w)
<1> HIDE DEF m, n
<1>3. i \in 1..(m + 1) /\ i + n <= m + 1 <=> i \in Nat /\ i >= 1 /\ i + n <= m + 1
  BY <1>1 DEF m, n
<1>4. QED
  BY <1>2, <1>3 DEF m, n

LEMMA HasFirst ==
    ASSUME NEW s \in Seq(Nat), NEW u \in Seq(Nat), NEW w \in Seq(Nat), R!Has(s, w)
    PROVE  R!Has(s \o u, w)
<1>1. PICK i : i \in R!FoundAt(w, s)
  BY DEF R!Has
<1>2. /\ i \in Nat /\ i >= 1 /\ i + Len(w) <= Len(s) + 1
      /\ \A k \in 1..Len(w) : s[i + k - 1] = w[k]
  BY <1>1, FoundIs
<1>3. /\ s \o u \in Seq(Nat) /\ Len(s \o u) = Len(s) + Len(u)
      /\ \A j \in 1..Len(s) : (s \o u)[j] = s[j]
      /\ Len(s) \in Nat /\ Len(u) \in Nat /\ Len(w) \in Nat
  BY Joined, SeqDomain
<1> DEFINE t == s \o u
<1> HIDE DEF t
<1>4. \A k \in 1..Len(w) : t[i + k - 1] = w[k]
  BY <1>2, <1>3 DEF t
<1>5. i + Len(w) <= Len(t) + 1
  BY <1>2, <1>3 DEF t
<1>6. t \in Seq(Nat)
  BY <1>3 DEF t
<1>7. i \in R!FoundAt(w, t)
  BY <1>2, <1>4, <1>5, <1>6, FoundIs
<1>8. QED
  BY <1>7 DEF R!Has, t

LEMMA HasSecond ==
    ASSUME NEW s \in Seq(Nat), NEW w \in Seq(Nat)
    PROVE  R!Has(s \o w, w)
<1> DEFINE t == s \o w
           i == Len(s) + 1
<1>1. /\ t \in Seq(Nat) /\ Len(t) = Len(s) + Len(w) /\ \A j \in 1..Len(w) : t[Len(s) + j] = w[j]
      /\ Len(s) \in Nat /\ Len(w) \in Nat
  BY Joined, SeqDomain
<1> HIDE DEF t
<1>2. /\ i \in Nat /\ i >= 1 /\ i + Len(w) <= Len(t) + 1
      /\ \A k \in 1..Len(w) : i + k - 1 = Len(s) + k
  BY <1>1
<1> HIDE DEF i
<1>3. \A k \in 1..Len(w) : t[i + k - 1] = w[k]
  BY <1>1, <1>2
<1>4. i \in R!FoundAt(w, t)
  BY <1>1, <1>2, <1>3, FoundIs
<1>5. QED
  BY <1>4 DEF R!Has, t

LEMMA HasThrough ==
    ASSUME NEW s \in Seq(Nat), NEW t \in Seq(Nat), NEW w \in Seq(Nat), R!Has(s, t), R!Has(t, w)
    PROVE  R!Has(s, w)
<1>1. PICK i : i \in R!FoundAt(t, s)
  BY DEF R!Has
<1>2. PICK j : j \in R!FoundAt(w, t)
  BY DEF R!Has
<1>3. /\ i \in Nat /\ i >= 1 /\ i + Len(t) <= Len(s) + 1
      /\ \A k \in 1..Len(t) : s[i + k - 1] = t[k]
  BY <1>1, FoundIs
<1>4. /\ j \in Nat /\ j >= 1 /\ j + Len(w) <= Len(t) + 1
      /\ \A k \in 1..Len(w) : t[j + k - 1] = w[k]
  BY <1>2, FoundIs
<1>5. Len(s) \in Nat /\ Len(t) \in Nat /\ Len(w) \in Nat
  BY SeqDomain
<1> DEFINE n == i + j - 1
<1>6. n \in Nat /\ n >= 1 /\ n + Len(w) <= Len(s) + 1
  BY <1>3, <1>4, <1>5
<1>7. ASSUME NEW k \in 1..Len(w) PROVE s[n + k - 1] = w[k]
  <2> DEFINE m == j + k - 1
  <2>1. m \in 1..Len(t) /\ n + k - 1 = i + m - 1
    BY <1>3, <1>4, <1>5
  <2> HIDE DEF m, n
  <2>2. s[i + m - 1] = t[m]
    BY <1>3, <2>1
  <2>3. t[m] = w[k]
    BY <1>4 DEF m
  <2>4. QED
    BY <2>1, <2>2, <2>3
<1> HIDE DEF n
<1>8. n \in R!FoundAt(w, s)
  BY <1>6, <1>7, FoundIs
<1>9. QED
  BY <1>8 DEF R!Has

\* A stretch of a text, and what lies in it.
LEMMA StretchIs ==
    ASSUME NEW t \in Seq(Nat), NEW l \in Nat, l >= 1, NEW r \in Nat, r <= Len(t), l <= r + 1
    PROVE  /\ SubSeq(t, l, r) \in Seq(Nat) /\ Len(SubSeq(t, l, r)) = r + 1 - l
           /\ \A k \in 1..(r + 1 - l) : SubSeq(t, l, r)[k] = t[l + k - 1]
<1>1. Len(t) \in Nat
  OBVIOUS
<1>2. CASE l <= r
  <2>1. SubSeq(t, l, r) \in Seq(Nat) /\ Len(SubSeq(t, l, r)) = r - l + 1
        /\ \A k \in 1..(r - l + 1) : SubSeq(t, l, r)[k] = t[l + k - 1]
    BY <1>1, <1>2
  <2>2. r - l + 1 = r + 1 - l
    OBVIOUS
  <2>3. QED
    BY <2>1, <2>2
<1>3. CASE ~(l <= r)
  <2>1. r + 1 - l = 0 /\ r < l
    BY <1>3
  <2>2. SubSeq(t, l, r) = <<>>
    BY <2>1
  <2>3. QED
    BY <2>1, <2>2, ShortSequences
<1>4. QED
  BY <1>2, <1>3

LEMMA StretchHolds ==
    ASSUME NEW t \in Seq(Nat), NEW l \in Nat, l >= 1, NEW r \in Nat, r <= Len(t), l <= r + 1
    PROVE  /\ R!Has(t, SubSeq(t, l, r))
           /\ \A w \in Seq(Nat) : \A j \in R!FoundAt(w, t) :
                 l <= j /\ j + Len(w) <= r + 1 => R!Has(SubSeq(t, l, r), w)
<1> DEFINE u == SubSeq(t, l, r)
<1>1. /\ u \in Seq(Nat) /\ Len(u) = r + 1 - l /\ \A k \in 1..(r + 1 - l) : u[k] = t[l + k - 1]
      /\ Len(t) \in Nat
  BY StretchIs
<1> HIDE DEF u
<1>2. l + Len(u) <= Len(t) + 1 /\ \A k \in 1..Len(u) : t[l + k - 1] = u[k]
  BY <1>1
<1>3. l \in R!FoundAt(u, t)
  BY <1>1, <1>2, FoundIs
<1>4. ASSUME NEW w \in Seq(Nat), NEW j \in R!FoundAt(w, t), l <= j, j + Len(w) <= r + 1
      PROVE  R!Has(u, w)
  <2>1. /\ j \in Nat /\ j >= 1 /\ j + Len(w) <= Len(t) + 1
        /\ \A k \in 1..Len(w) : t[j + k - 1] = w[k]
    BY FoundIs
  <2>2. Len(w) \in Nat
    BY SeqDomain
  <2> DEFINE n == j + 1 - l
  <2>3. n \in Nat /\ n >= 1 /\ n + Len(w) <= Len(u) + 1
    BY <1>1, <1>4, <2>1, <2>2
  <2>4. ASSUME NEW k \in 1..Len(w) PROVE u[n + k - 1] = w[k]
    <3> DEFINE m == n + k - 1
    <3>1. m \in 1..(r + 1 - l) /\ l + m - 1 = j + k - 1
      BY <1>1, <1>4, <2>1, <2>2
    <3> HIDE DEF m, n
    <3>2. u[m] = t[l + m - 1]
      BY <1>1, <3>1
    <3>3. QED
      BY <2>1, <3>1, <3>2 DEF m
  <2> HIDE DEF n
  <2>5. n \in R!FoundAt(w, u)
    BY <1>1, <2>3, <2>4, FoundIs
  <2>6. QED
    BY <2>5 DEF R!Has
<1>5. QED
  BY <1>3, <1>4 DEF R!Has, u

LEMMA TextsJoined ==
    \A s \in Seq(Nat), u \in Seq(Nat) :
       /\ s \o u \in Seq(Nat) /\ Len(s \o u) = Len(s) + Len(u)
       /\ \A j \in 1..Len(s) : (s \o u)[j] = s[j]
       /\ \A j \in 1..Len(u) : (s \o u)[Len(s) + j] = u[j]
  BY Joined

LEMMA CutOut ==
    ASSUME NEW t \in Seq(Nat), NEW w \in Seq(Nat), NEW i \in R!FoundAt(w, t)
    PROVE  \E a \in Seq(Nat), b \in Seq(Nat) : t = (a \o w) \o b
<1> DEFINE a == SubSeq(t, 1, i - 1)
           e == i + Len(w)
           b == SubSeq(t, e, Len(t))
           u == (a \o w) \o b
<1>1. /\ i \in Nat /\ i >= 1 /\ i + Len(w) <= Len(t) + 1
      /\ \A k \in 1..Len(w) : t[i + k - 1] = w[k]
      /\ Len(t) \in Nat /\ Len(w) \in Nat
  BY FoundIs, SeqDomain
<1>2. a \in Seq(Nat) /\ Len(a) = i - 1 /\ \A k \in 1..(i - 1) : a[k] = t[k]
  <2> DEFINE n == i - 1
  <2>1. n \in Nat /\ n <= Len(t) /\ 1 <= n + 1 /\ n + 1 - 1 = n /\ \A k \in 1..n : 1 + k - 1 = k
    BY <1>1
  <2> HIDE DEF n
  <2>2. /\ SubSeq(t, 1, n) \in Seq(Nat) /\ Len(SubSeq(t, 1, n)) = n + 1 - 1
        /\ \A k \in 1..(n + 1 - 1) : SubSeq(t, 1, n)[k] = t[1 + k - 1]
    BY <2>1, StretchIs
  <2>3. QED
    BY <2>1, <2>2 DEF n
<1>3. b \in Seq(Nat) /\ Len(b) = Len(t) + 1 - e /\ \A k \in 1..(Len(t) + 1 - e) : b[k] = t[e + k - 1]
  <2>1. e \in Nat /\ e >= 1 /\ e <= Len(t) + 1
    BY <1>1
  <2> HIDE DEF e
  <2>2. QED
    BY <1>1, <2>1, StretchIs
<1> HIDE DEF a, b
<1> DEFINE c == a \o w
<1>4. /\ c \in Seq(Nat) /\ Len(c) = (i - 1) + Len(w)
      /\ \A k \in 1..(i - 1) : c[k] = a[k]
      /\ \A k \in 1..Len(w) : c[(i - 1) + k] = w[k]
  <2> DEFINE n == i - 1
  <2> HIDE DEF n
  <2>1. Len(a) = n /\ a \in Seq(Nat)
    BY <1>2 DEF n
  <2>2. /\ a \o w \in Seq(Nat) /\ Len(a \o w) = Len(a) + Len(w)
        /\ \A k \in 1..Len(a) : (a \o w)[k] = a[k]
        /\ \A k \in 1..Len(w) : (a \o w)[Len(a) + k] = w[k]
    BY <2>1, TextsJoined
  <2>3. QED
    BY <2>1, <2>2 DEF n
<1> HIDE DEF c
<1>5. /\ u \in Seq(Nat) /\ Len(u) = Len(c) + Len(b)
      /\ \A k \in 1..Len(c) : u[k] = c[k]
      /\ \A k \in 1..Len(b) : u[Len(c) + k] = b[k]
  <2>1. /\ c \o b \in Seq(Nat) /\ Len(c \o b) = Len(c) + Len(b)
        /\ \A k \in 1..Len(c) : (c \o b)[k] = c[k]
        /\ \A k \in 1..Len(b) : (c \o b)[Len(c) + k] = b[k]
    BY <1>3, <1>4, TextsJoined
  <2>2. u = c \o b
    BY DEF c
  <2>3. QED
    BY <2>1, <2>2
<1>6. /\ Len(c) = (i - 1) + Len(w) /\ \A k \in 1..(i - 1) : c[k] = t[k]
      /\ \A k \in 1..Len(w) : c[(i - 1) + k] = w[k]
  BY <1>2, <1>4 DEF c
<1> HIDE DEF u
<1>7. Len(u) = Len(t)
  BY <1>1, <1>3, <1>5, <1>6
<1>8. ASSUME NEW k \in 1..Len(t) PROVE t[k] = u[k]
  <2>1. CASE k <= i - 1
    BY <1>1, <1>5, <1>6, <2>1
  <2>2. CASE i <= k /\ k < i + Len(w)
    <3> DEFINE m == k - (i - 1)
    <3>1. m \in 1..Len(w) /\ k = (i - 1) + m /\ k = i + m - 1 /\ k \in 1..Len(c)
      BY <1>1, <1>6, <2>2
    <3> HIDE DEF m
    <3>2. t[i + m - 1] = w[m] /\ c[(i - 1) + m] = w[m] /\ u[k] = c[k]
      BY <1>1, <1>5, <1>6, <3>1
    <3>3. QED
      BY <3>1, <3>2
  <2>3. CASE ~(k < e)
    <3> DEFINE m == k + 1 - e
    <3>1. m \in 1..(Len(t) + 1 - e) /\ k = e + m - 1 /\ k = Len(c) + m /\ Len(b) = Len(t) + 1 - e
      BY <1>1, <1>3, <1>6, <2>3
    <3> HIDE DEF m, e
    <3>2. b[m] = t[e + m - 1] /\ u[Len(c) + m] = b[m]
      BY <1>3, <1>5, <3>1
    <3>3. QED
      BY <3>1, <3>2
  <2>4. QED
    BY <1>1, <2>1, <2>2, <2>3
<1>9. t = u
  BY <1>5, <1>7, <1>8, SameSequence
<1>10. QED
  BY <1>2, <1>3, <1>9 DEF u

\* Where a text has a word, it has it without white space.
LEMMA HasCompact ==
    ASSUME NEW t \in Seq(Nat), NEW w \in Seq(Nat), R!Has(t, w)
    PROVE  R!Has(R!Compact(t), R!Compact(w))
<1>1. PICK i : i \in R!FoundAt(w, t)
  BY DEF R!Has
<1>2. PICK a \in Seq(Nat), b \in Seq(Nat) : t = (a \o w) \o b
  BY <1>1, CutOut
<1> DEFINE ca == R!Compact(a)
           cw == R!Compact(w)
           cb == R!Compact(b)
<1>3. ca \in Seq(Nat) /\ cw \in Seq(Nat) /\ cb \in Seq(Nat)
  BY CompactIs
<1>4. a \o w \in Seq(Nat) /\ R!Compact(a \o w) = ca \o cw
  BY CompactJoined, Joined
<1>5. R!Compact(t) = (ca \o cw) \o cb
  BY <1>2, <1>4, CompactJoined
<1> HIDE DEF ca, cw, cb
<1>6. R!Has(ca \o cw, cw) /\ ca \o cw \in Seq(Nat)
  BY <1>3, HasSecond, Joined
<1>7. R!Has((ca \o cw) \o cb, cw)
  BY <1>3, <1>6, HasFirst
<1>8. QED
  BY <1>5, <1>7 DEF cw

-----------------------------------------------------------------------------
(* What is listed.                                                           *)

LEMMA SnippetIs ==
    ASSUME NEW t \in Seq(Nat), NEW i \in Nat, i >= 1, NEW l \in Nat, i + l <= Len(t) + 1
    PROVE  /\ R!Snippet(t, i, l) \in Seq(Nat)
           /\ R!Has(R!Compact(t), R!Compact(R!Snippet(t, i, l)))
           /\ \A w \in Seq(Nat) : \A j \in R!FoundAt(w, t) :
                 i <= j /\ j + Len(w) <= i + l + Radius
                    => R!Has(R!Compact(R!Snippet(t, i, l)), R!Compact(w))
<1> DEFINE lo == IF i > Radius THEN i - Radius ELSE 1
           hi == IF i + l - 1 + Radius < Len(t) THEN i + l - 1 + Radius ELSE Len(t)
           u  == SubSeq(t, lo, hi)
           q  == R!Snippet(t, i, l)
<1>1. Radius \in Nat /\ Len(t) \in Nat
  BY PipelineAssumption, SeqDomain DEF R!RulesFit
<1>2. /\ lo \in Nat /\ lo >= 1 /\ hi \in Nat /\ hi <= Len(t) /\ lo <= hi + 1 /\ lo <= i
      /\ hi = Len(t) \/ hi + 1 = i + l + Radius
  BY <1>1
<1>3. R!Window(t, i, l) = u
  BY DEF R!Window
<1>4. q = R!Respaced(<<0>>, u)
  BY <1>3 DEF R!Snippet
<1> HIDE DEF lo, hi, q
<1>5. u \in Seq(Nat)
  BY <1>2, StretchIs
<1>6. /\ R!Has(t, u)
      /\ \A w \in Seq(Nat) : \A j \in R!FoundAt(w, t) : lo <= j /\ j + Len(w) <= hi + 1 => R!Has(u, w)
  BY <1>2, StretchHolds
<1> HIDE DEF u
<1>7. q \in Seq(Nat) /\ R!Compact(q) = R!Compact(u)
  BY <1>4, <1>5, QuoteKeeps, RespacedIs, ShortSequences
<1>8. R!Has(R!Compact(t), R!Compact(u))
  BY <1>5, <1>6, HasCompact
<1>9. ASSUME NEW w \in Seq(Nat), NEW j \in R!FoundAt(w, t), i <= j, j + Len(w) <= i + l + Radius
      PROVE  R!Has(R!Compact(q), R!Compact(w))
  <2>1. j \in Nat /\ j >= 1 /\ j + Len(w) <= Len(t) + 1 /\ Len(w) \in Nat
    BY FoundIs, SeqDomain
  <2>2. lo <= j /\ j + Len(w) <= hi + 1
    BY <1>1, <1>2, <1>9, <2>1
  <2>3. R!Has(u, w)
    BY <1>6, <2>2
  <2>4. QED
    BY <1>5, <1>7, <2>3, HasCompact
<1>10. QED
  BY <1>7, <1>8, <1>9 DEF q

LEMMA LeastIs ==
    ASSUME NEW Z, Z \subseteq Nat, Z # {}
    PROVE  R!First(Z) \in Z /\ \A k \in Z : R!First(Z) <= k
<1>1. \E i \in Z : \A k \in Z : i <= k
  BY LeastNumber
<1>2. QED
  BY <1>1 DEF R!First

LEMMA FoundIsPlace ==
    ASSUME NEW w \in Seq(Nat), NEW t \in Seq(Nat), NEW i \in R!FoundAt(w, t),
           NEW n \in Nat, n >= 1, n <= Len(w)
    PROVE  t[i + n - 1] = w[n] /\ i + n - 1 \in 1..Len(t)
<1>1. /\ i \in Nat /\ i >= 1 /\ i + Len(w) <= Len(t) + 1
      /\ Len(w) \in Nat /\ Len(t) \in Nat
  BY FoundIs, SeqDomain
<1>2. \A k \in 1..Len(w) : t[i + k - 1] = w[k]
  BY FoundIs
<1>3. n \in 1..Len(w) /\ i + n - 1 \in 1..Len(t)
  BY <1>1
<1>4. QED
  BY <1>2, <1>3

\* The words of two alternatives that overlap in a text: the later one ends within Radius.
LEMMA OverlapEnds ==
    ASSUME NEW words, R!WordsFit(words), NEW a \in DOMAIN words, NEW b \in DOMAIN words,
           NEW t \in Seq(Nat), NEW i \in R!FoundAt(words[a], t), NEW j \in R!FoundAt(words[b], t),
           i <= j, j < i + Len(words[a])
    PROVE  j + Len(words[b]) <= i + Len(words[a]) + Radius
<1> DEFINE v == words[a]
           w == words[b]
           k == j - i + 1
<1>1. v \in Seq(Nat) /\ w \in Seq(Nat)
  BY DEF R!WordsFit
<1>2. /\ i \in Nat /\ i >= 1 /\ j \in Nat /\ j >= 1
      /\ Len(v) \in Nat /\ Len(w) \in Nat /\ DOMAIN v = 1..Len(v) /\ DOMAIN w = 1..Len(w)
  BY <1>1, FoundIs, SeqDomain
<1>3. k \in 1..Len(v)
  BY <1>2
<1>4. Radius \in Nat
  BY PipelineAssumption DEF R!RulesFit
<1>5. \A m \in DOMAIN w : k + m - 1 \in DOMAIN v => v[k + m - 1] = w[m]
  <2> SUFFICES ASSUME NEW m \in 1..Len(w), k + m - 1 \in 1..Len(v) PROVE v[k + m - 1] = w[m]
    BY <1>2
  <2> DEFINE n == k + m - 1
  <2>1. n \in Nat /\ n >= 1 /\ n <= Len(v) /\ i + n - 1 = j + m - 1 /\ m \in Nat /\ m >= 1 /\ m <= Len(w)
    BY <1>2
  <2> HIDE DEF n, k
  <2>2. t[i + n - 1] = v[n]
    BY <1>1, <2>1, FoundIsPlace
  <2>3. t[j + m - 1] = w[m]
    BY <1>1, <2>1, FoundIsPlace
  <2>4. QED
    BY <2>1, <2>2, <2>3 DEF n
<1>6. k - 1 + Len(w) <= Len(v) + Radius
  <2>1. \A x \in DOMAIN words, y \in DOMAIN words : \A z \in DOMAIN words[x] :
          (\A m \in DOMAIN words[y] : z + m - 1 \in DOMAIN words[x] => words[x][z + m - 1] = words[y][m])
             => z - 1 + Len(words[y]) <= Len(words[x]) + Radius
    BY DEF R!WordsFit
  <2>2. k \in DOMAIN words[a]
    BY <1>2, <1>3
  <2> HIDE DEF k
  <2>3. QED
    BY <1>5, <2>1, <2>2
<1>7. QED
  BY <1>2, <1>4, <1>6

LEMMA RulesTyped ==
    /\ Radius \in Nat /\ TitleLength \in Nat /\ TermMax \in Nat \ {0} /\ D!Listed(Patterns)
    /\ \A n \in DOMAIN Patterns :
          /\ R!WordsFit(Patterns[n].words) /\ D!Listed(Patterns[n].words)
          /\ \A a \in DOMAIN Patterns[n].words :
                Patterns[n].words[a] \in Seq(Nat) /\ ~R!Blank(Patterns[n].words[a])
          /\ CategoryTerms[Patterns[n].category] \subseteq Seq(Nat)
    /\ \A pages \in Tenders \cup Evidence : R!PagesFit(pages)
<1>1. /\ Radius \in Nat /\ TitleLength \in Nat /\ TermMax \in Nat \ {0} /\ R!Listed(Patterns)
      /\ \A n \in DOMAIN Patterns :
            R!WordsFit(Patterns[n].words) /\ CategoryTerms[Patterns[n].category] \subseteq Seq(Nat)
      /\ \A pages \in Tenders \cup Evidence : R!PagesFit(pages)
  BY PipelineAssumption DEF R!RulesFit
<1>2. D!Listed(Patterns)
  BY <1>1 DEF D!Listed, R!Listed
<1>3. ASSUME NEW n \in DOMAIN Patterns
      PROVE  /\ D!Listed(Patterns[n].words)
             /\ \A a \in DOMAIN Patterns[n].words :
                   Patterns[n].words[a] \in Seq(Nat) /\ ~R!Blank(Patterns[n].words[a])
  <2> DEFINE v == Patterns[n].words
  <2>1. R!WordsFit(v)
    BY <1>1
  <2> HIDE DEF v
  <2>2. R!Listed(v) /\ \A a \in DOMAIN v : v[a] \in Seq(Nat) /\ ~R!Blank(v[a])
    BY <2>1 DEF R!WordsFit
  <2>3. QED
    BY <2>2 DEF D!Listed, R!Listed, v
<1>4. QED
  BY <1>1, <1>2, <1>3

LEMMA PagesTyped ==
    ASSUME NEW pages, R!PagesFit(pages)
    PROVE  /\ D!Listed(pages)
           /\ \A p \in DOMAIN pages : pages[p].text \in Seq(Nat) /\ D!Listed(pages[p].blocks)
  BY DEF R!PagesFit, D!Listed, R!Listed

LEMMA MostIs ==
    ASSUME NEW Z, Z \subseteq Nat, Z # {}, NEW n \in Nat, \A k \in Z : k <= n
    PROVE  R!Last(Z) \in Z /\ \A k \in Z : k <= R!Last(Z)
<1> DEFINE U == {u \in Nat : \A k \in Z : k <= u}
<1>1. PICK u \in U : \A x \in U : u <= x
  <2>1. U \subseteq Nat /\ U # {}
    OBVIOUS
  <2> HIDE DEF U
  <2>2. QED
    BY <2>1, LeastNumber
<1>2. u \in Nat /\ \A k \in Z : k <= u
  OBVIOUS
<1>3. u \in Z
  <2> SUFFICES ASSUME u \notin Z PROVE FALSE
    OBVIOUS
  <2>1. u # 0
    <3>1. PICK z \in Z : TRUE
      OBVIOUS
    <3>2. z \in Nat /\ z <= u /\ z # u
      BY <1>2
    <3>3. QED
      BY <1>2, <3>2
  <2>2. \A k \in Z : k <= u - 1
    BY <1>2
  <2>3. u - 1 \in U
    BY <1>2, <2>1, <2>2
  <2>4. QED
    BY <1>1, <1>2, <2>3
<1>4. \E i \in Z : \A k \in Z : k <= i
  BY <1>2, <1>3
<1>5. QED
  BY <1>4 DEF R!Last

\* The terms of a title are texts.
LEMMA TitleTermsAre ==
    ASSUME NEW title \in Seq(Nat)
    PROVE  R!TitleTerms(title) \subseteq Seq(Nat)
<1> DEFINE solid(i, k) == \A m \in i..k : title[m] # 0
           begin(k)    == R!First({i \in 1..k : solid(i, k)})
           starts      == {i \in DOMAIN title : title[i] # 0 /\ (i - begin(i)) % TermMax = 0}
           ends(i)     == {k \in i..Len(title) : k < i + TermMax /\ solid(i, k)}
           end(i)      == R!Last(ends(i))
<1>1. R!TitleTerms(title) = {SubSeq(title, i, end(i)) : i \in {s \in starts : end(s) + 1 - s >= TermMin}}
  BY DEF R!TitleTerms
<1>2. ASSUME NEW i \in starts PROVE SubSeq(title, i, end(i)) \in Seq(Nat)
  <2>1. i \in DOMAIN title /\ title[i] # 0
    OBVIOUS
  <2>2. i \in Nat /\ i >= 1 /\ i <= Len(title) /\ Len(title) \in Nat /\ TermMax \in Nat \ {0}
    BY <2>1, SeqDomain, RulesTyped
  <2>3. ends(i) \subseteq i..Len(title) /\ i \in ends(i)
    BY <2>1, <2>2
  <2> DEFINE Z == ends(i)
             e == end(i)
  <2>4. Z \subseteq Nat /\ Z # {} /\ \A k \in Z : k <= Len(title)
    BY <2>2, <2>3
  <2>5. e \in Z
    <3>1. e = R!Last(Z)
      OBVIOUS
    <3> HIDE DEF Z, e
    <3>2. QED
      BY <2>2, <2>4, <3>1, MostIs
  <2>6. e \in Nat /\ e <= Len(title) /\ i <= e + 1
    BY <2>2, <2>3, <2>5
  <2> HIDE DEF e
  <2>7. SubSeq(title, i, e) \in Seq(Nat)
    BY <2>2, <2>6, StretchIs
  <2>8. QED
    BY <2>7 DEF e
<1> HIDE DEF starts, end
<1>3. QED
  BY <1>1, <1>2

LEMMA ShapedMade ==
    ASSUME NEW c, NEW l, NEW p, NEW q, NEW t, NEW w, NEW b, NEW s, NEW g, NEW x, NEW r,
           r = [category |-> c, label |-> l, page |-> p, quote |-> q, title |-> t, word |-> w,
                block |-> b, status |-> s, suggested |-> g, cites |-> x],
           R!TitleTerms(t) \subseteq Seq(Nat), CategoryTerms[c] \subseteq Seq(Nat)
    PROVE  /\ R!Shaped(r)
           /\ r.category = c /\ r.label = l /\ r.page = p /\ r.quote = q /\ r.title = t
           /\ r.word = w /\ r.block = b /\ r.status = s /\ r.suggested = g /\ r.cites = x
<1>1. /\ r \in [category : {r.category}, label : {r.label}, page : {r.page}, quote : {r.quote},
                 title : {r.title}, word : {r.word}, block : {r.block},
                 status : {r.status}, suggested : {r.suggested}, cites : {r.cites}]
      /\ r.category = c /\ r.label = l /\ r.page = p /\ r.quote = q /\ r.title = t
      /\ r.word = w /\ r.block = b /\ r.status = s /\ r.suggested = g /\ r.cites = x
  OBVIOUS
<1>2. R!TermsFor(r) \subseteq Seq(Nat)
  <2>1. r.title = t /\ r.category = c
    BY <1>1
  <2>2. R!TermsFor(r) = R!TitleTerms(t) \cup CategoryTerms[c]
    BY <2>1 DEF R!TermsFor
  <2>3. QED
    BY <2>2
<1>3. QED
  BY <1>1, <1>2 DEF R!Shaped

LEMMA RequirementIs ==
    ASSUME NEW pages, R!PagesFit(pages), NEW p \in DOMAIN pages, NEW n \in DOMAIN Patterns,
           NEW w \in Seq(Nat),
           NEW i \in R!FoundAt(w, pages[p].text), NEW r,
           r = R!Requirement(p, pages[p], Patterns[n], w, i)
    PROVE  /\ R!Shaped(r) /\ R!Quoted(r, pages) /\ R!Unmatched(r)
           /\ r.label = Patterns[n].label /\ r.page = p
           /\ r.quote = R!Snippet(pages[p].text, i, Len(w))
<1> DEFINE t == pages[p].text
           q == R!Snippet(t, i, Len(w))
           B == {b \in DOMAIN pages[p].blocks : R!Has(pages[p].blocks[b], w)}
           b == R!FirstBlock(B)
           title == SubSeq(q, 1, IF Len(q) < TitleLength THEN Len(q) ELSE TitleLength)
<1>1. r = [category |-> Patterns[n].category, label |-> Patterns[n].label, page |-> p, quote |-> q,
           title |-> title, word |-> w, block |-> b,
           status |-> "NEEDS_REVIEW", suggested |-> "none", cites |-> <<0, 0>>]
  BY DEF R!Requirement
<1> HIDE DEF title, b, q
<1>0. q \in Seq(Nat) /\ title \in Seq(Nat)
  <2>1. t \in Seq(Nat)
    BY PagesTyped
  <2>2. i \in Nat /\ i >= 1 /\ i + Len(w) <= Len(t) + 1 /\ Len(w) \in Nat
    BY <2>1, FoundIs, SeqDomain
  <2> HIDE DEF t
  <2>3. q \in Seq(Nat)
    BY <2>1, <2>2, SnippetIs DEF q
  <2> DEFINE z == IF Len(q) < TitleLength THEN Len(q) ELSE TitleLength
  <2>4. z \in Nat /\ z <= Len(q) /\ 1 <= z + 1
    BY <2>3, SeqDomain, RulesTyped
  <2> HIDE DEF z
  <2>5. SubSeq(q, 1, z) \in Seq(Nat)
    BY <2>3, <2>4, StretchIs
  <2>6. QED
    BY <2>3, <2>5 DEF title, z
<1>2. /\ R!Shaped(r) /\ r.label = Patterns[n].label /\ r.page = p /\ r.quote = q /\ r.word = w
      /\ r.block = b /\ r.status = "NEEDS_REVIEW" /\ r.suggested = "none"
  <2>1. R!TitleTerms(title) \subseteq Seq(Nat) /\ CategoryTerms[Patterns[n].category] \subseteq Seq(Nat)
    BY <1>0, RulesTyped, TitleTermsAre
  <2>2. QED
    BY <1>1, <2>1, ShapedMade
<1>3. t \in Seq(Nat) /\ D!Listed(pages[p].blocks)
  BY PagesTyped
<1> HIDE DEF t
<1>4. i \in Nat /\ i >= 1 /\ i + Len(w) <= Len(t) + 1 /\ Len(w) \in Nat
  BY <1>3, FoundIs, SeqDomain DEF t
<1>5. q \in Seq(Nat) /\ R!Has(R!Compact(t), R!Compact(q)) /\ R!Has(R!Compact(q), R!Compact(w))
  <2>1. Radius \in Nat /\ i <= i /\ i + Len(w) <= i + Len(w) + Radius
    BY <1>4, RulesTyped
  <2>2. i \in R!FoundAt(w, t)
    BY DEF t
  <2>3. QED
    BY <1>3, <1>4, <2>1, <2>2, SnippetIs DEF q
<1>6. b # 0 => R!Has(pages[p].blocks[b], w)
  <2>1. B \subseteq Nat
    BY <1>3, ListedShape
  <2>2. CASE B = {}
    BY <2>2 DEF b, R!FirstBlock
  <2>3. CASE B # {}
    <3>1. R!First(B) \in B
      BY <2>1, <2>3, LeastIs
    <3>2. b = R!First(B)
      BY <2>3 DEF b, R!FirstBlock
    <3>3. QED
      BY <3>1, <3>2
  <2>4. QED
    BY <2>2, <2>3
<1>7. R!Quoted(r, pages)
  BY <1>2, <1>5, <1>6 DEF R!Quoted, t
<1>8. QED
  BY <1>2, <1>7 DEF R!Unmatched, q, t

\* finditer behind character f of the pattern and the page it is at.
MovedTo(c, d, f) == d.page = c.page /\ d.pattern = c.pattern /\ d.from = f

LEMMA ListsMore ==
    ASSUME NEW items, D!Listed(items), NEW r, NEW label, NEW p, NEW w
    PROVE  /\ R!Lists(items, label, p, w) => R!Lists(Append(items, r), label, p, w)
           /\ r.label = label /\ r.page = p /\ R!Has(R!Compact(r.quote), R!Compact(w))
                 => R!Lists(Append(items, r), label, p, w)
<1> DEFINE more == Append(items, r)
<1>1. /\ DOMAIN items = 1..Len(items) /\ Len(items) \in Nat /\ DOMAIN more = 1..(Len(items) + 1)
      /\ \A k \in 1..Len(items) : more[k] = items[k]
      /\ more[Len(items) + 1] = r
  BY ListedShape, ListedAppended
<1> HIDE DEF more
<1>2. R!Lists(items, label, p, w) => R!Lists(more, label, p, w)
  <2> SUFFICES ASSUME NEW k \in DOMAIN items, items[k].label = label, items[k].page = p,
                      R!Has(R!Compact(items[k].quote), R!Compact(w))
               PROVE  R!Lists(more, label, p, w)
    BY DEF R!Lists
  <2>1. k \in DOMAIN more /\ more[k] = items[k]
    BY <1>1
  <2>2. QED
    BY <2>1 DEF R!Lists
<1>3. ASSUME r.label = label, r.page = p, R!Has(R!Compact(r.quote), R!Compact(w))
      PROVE  R!Lists(more, label, p, w)
  <2>1. Len(items) + 1 \in DOMAIN more
    BY <1>1
  <2>2. QED
    BY <1>1, <1>3, <2>1 DEF R!Lists
<1>4. QED
  BY <1>2, <1>3 DEF more

-----------------------------------------------------------------------------
(* finditer goes on.                                                         *)

\* The text under the cursor and the words looked for.
TextAt(pages, c) == pages[c.page].text
WordsAt(c)       == Patterns[c.pattern].words

LEMMA MatchListed ==
    ASSUME NEW pages, R!PagesFit(pages), NEW items, D!Listed(items), NEW c, NEW d, NEW r,
           c.page \in DOMAIN pages, c.pattern \in DOMAIN Patterns,
           NEW a \in DOMAIN WordsAt(c), NEW i \in R!FoundAt(WordsAt(c)[a], TextAt(pages, c)),
           \A b \in DOMAIN WordsAt(c) : \A j \in R!FoundAt(WordsAt(c)[b], TextAt(pages, c)) :
              j >= c.from => i <= j,
           c.from \in Nat, MovedTo(c, d, i + Len(WordsAt(c)[a])),
           r = R!Requirement(c.page, pages[c.page], Patterns[c.pattern], WordsAt(c)[a], i),
           R!PastIsListed(pages, items, c)
    PROVE  R!PastIsListed(pages, Append(items, r), d)
<1> DEFINE t == TextAt(pages, c)
           v == WordsAt(c)
<1>1. /\ R!WordsFit(v) /\ \A b \in DOMAIN v : v[b] \in Seq(Nat)
      /\ t \in Seq(Nat) /\ Radius \in Nat
  BY RulesTyped, PagesTyped DEF WordsAt, TextAt
<1>2. /\ i \in Nat /\ i >= 1 /\ i + Len(v[a]) <= Len(t) + 1 /\ Len(v[a]) \in Nat
  BY <1>1, FoundIs, SeqDomain
<1>3. r.label = Patterns[c.pattern].label /\ r.page = c.page /\ r.quote = R!Snippet(t, i, Len(v[a]))
  <2>1. i \in R!FoundAt(v[a], pages[c.page].text) /\ v[a] \in Seq(Nat)
    BY <1>1 DEF TextAt
  <2>2. QED
    BY <2>1, RequirementIs DEF TextAt
<1>4. ASSUME NEW p \in DOMAIN pages, NEW n \in DOMAIN Patterns, NEW b \in DOMAIN Patterns[n].words,
             NEW j \in R!FoundAt(Patterns[n].words[b], pages[p].text), R!Past(d, p, n, j)
      PROVE  R!Lists(Append(items, r), Patterns[n].label, p, Patterns[n].words[b])
  <2>1. CASE R!Past(c, p, n, j)
    <3>1. R!Lists(items, Patterns[n].label, p, Patterns[n].words[b])
      BY <2>1 DEF R!PastIsListed
    <3>2. QED
      BY <3>1, ListsMore
  <2>2. CASE ~R!Past(c, p, n, j)
    <3>1. p = c.page /\ n = c.pattern /\ ~(j < c.from) /\ j < i + Len(v[a])
      BY <1>4, <2>2 DEF R!Past, MovedTo
    <3>2. b \in DOMAIN v /\ j \in R!FoundAt(v[b], t) /\ v[b] = Patterns[n].words[b]
      BY <3>1 DEF TextAt, WordsAt
    <3>3. v[b] \in Seq(Nat)
      BY <1>1, <3>2
    <3>4. j \in Nat
      BY <1>1, <3>2, <3>3, FoundIs
    <3>5. i <= j
      BY <3>1, <3>2, <3>4
    <3> HIDE DEF v, t
    <3>6. j + Len(v[b]) <= i + Len(v[a]) + Radius
      <4>1. i \in R!FoundAt(v[a], t) /\ a \in DOMAIN v
        BY DEF v, t
      <4>2. QED
        BY <1>1, <3>1, <3>2, <3>5, <4>1, OverlapEnds
    <3>7. R!Has(R!Compact(R!Snippet(t, i, Len(v[a]))), R!Compact(v[b]))
      BY <1>1, <1>2, <3>2, <3>3, <3>5, <3>6, SnippetIs
    <3>8. QED
      BY <1>3, <3>1, <3>2, <3>7, ListsMore
  <2>3. QED
    BY <2>1, <2>2
<1>5. QED
  BY <1>4 DEF R!PastIsListed

LEMMA NoneLeft ==
    ASSUME NEW pages, R!PagesFit(pages), NEW items, NEW c, NEW d,
           c.page \in Nat, c.pattern \in Nat, c.from \in Nat,
           \A b \in DOMAIN WordsAt(c) : \A j \in R!FoundAt(WordsAt(c)[b], TextAt(pages, c)) :
              ~(j >= c.from),
           d.page = c.page, d.pattern = c.pattern + 1, d.from = 1,
           R!PastIsListed(pages, items, c)
    PROVE  R!PastIsListed(pages, items, d)
<1>1. ASSUME NEW p \in DOMAIN pages, NEW n \in DOMAIN Patterns, NEW b \in DOMAIN Patterns[n].words,
             NEW j \in R!FoundAt(Patterns[n].words[b], pages[p].text), R!Past(d, p, n, j)
      PROVE  R!Lists(items, Patterns[n].label, p, Patterns[n].words[b])
  <2>1. n \in Nat /\ Patterns[n].words[b] \in Seq(Nat) /\ pages[p].text \in Seq(Nat)
    BY RulesTyped, PagesTyped, ListedShape
  <2>2. j \in Nat /\ j >= 1
    BY <2>1, FoundIs
  <2>3. R!Past(c, p, n, j)
    <3>1. CASE p = c.page /\ n = c.pattern
      <4>1. ~(j >= c.from)
        BY <3>1 DEF WordsAt, TextAt
      <4>2. QED
        BY <2>2, <3>1, <4>1 DEF R!Past
    <3>2. CASE ~(p = c.page /\ n = c.pattern)
      BY <1>1, <2>1, <2>2, <3>2 DEF R!Past
    <3>3. QED
      BY <3>1, <3>2
  <2>4. QED
    BY <2>3 DEF R!PastIsListed
<1>2. QED
  BY <1>1 DEF R!PastIsListed

LEMMA BlankHasNone ==
    ASSUME NEW w \in Seq(Nat), NEW t \in Seq(Nat), R!Blank(t), ~R!Blank(w)
    PROVE  R!FoundAt(w, t) = {}
<1> SUFFICES ASSUME NEW i \in R!FoundAt(w, t) PROVE FALSE
  OBVIOUS
<1>1. PICK n \in DOMAIN w : w[n] # 0
  BY DEF R!Blank
<1>2. n \in Nat /\ n >= 1 /\ n <= Len(w)
  BY SeqDomain
<1>3. t[i + n - 1] = w[n] /\ i + n - 1 \in 1..Len(t)
  BY <1>2, FoundIsPlace
<1>4. i + n - 1 \in DOMAIN t
  BY <1>3, SeqDomain
<1>5. QED
  BY <1>1, <1>3, <1>4 DEF R!Blank

LEMMA PageLeft ==
    ASSUME NEW pages, R!PagesFit(pages), NEW items, NEW c, NEW d,
           c.page \in Nat, c.pattern \in Nat, c.from \in Nat,
           R!Blank(TextAt(pages, c)) \/ c.pattern > Len(Patterns),
           d.page = c.page + 1, d.pattern = 1, d.from = 1,
           R!PastIsListed(pages, items, c)
    PROVE  R!PastIsListed(pages, items, d)
<1>1. ASSUME NEW p \in DOMAIN pages, NEW n \in DOMAIN Patterns, NEW b \in DOMAIN Patterns[n].words,
             NEW j \in R!FoundAt(Patterns[n].words[b], pages[p].text), R!Past(d, p, n, j)
      PROVE  R!Lists(items, Patterns[n].label, p, Patterns[n].words[b])
  <2>1. /\ n \in Nat /\ n >= 1 /\ n <= Len(Patterns) /\ Len(Patterns) \in Nat
        /\ Patterns[n].words[b] \in Seq(Nat) /\ ~R!Blank(Patterns[n].words[b])
        /\ pages[p].text \in Seq(Nat) /\ p \in Nat
    BY RulesTyped, PagesTyped, ListedShape
  <2>2. j \in Nat /\ j >= 1
    BY <2>1, FoundIs
  <2>3. p <= c.page
    BY <1>1, <2>1, <2>2 DEF R!Past
  <2>4. R!Past(c, p, n, j)
    <3>1. CASE p = c.page
      <4>1. ~R!Blank(TextAt(pages, c))
        BY <2>1, <3>1, BlankHasNone DEF TextAt
      <4>2. n < c.pattern
        BY <2>1, <4>1
      <4>3. QED
        BY <3>1, <4>2 DEF R!Past
    <3>2. CASE p # c.page
      <4>1. p < c.page
        BY <2>1, <2>3, <3>2
      <4>2. QED
        BY <4>1 DEF R!Past
    <3>3. QED
      BY <3>1, <3>2
  <2>5. QED
    BY <2>4 DEF R!PastIsListed
<1>2. QED
  BY <1>1 DEF R!PastIsListed

-----------------------------------------------------------------------------
(* Duplicates, the evidence's text, and the evidence found in it.            *)

LEMMA AllMore ==
    ASSUME NEW items, NEW pages, R!AllQuoted(items, pages), NEW r, R!Shaped(r), R!Quoted(r, pages)
    PROVE  R!AllQuoted(Append(items, r), pages)
<1>1. D!Listed(items) /\ \A k \in DOMAIN items : R!Shaped(items[k]) /\ R!Quoted(items[k], pages)
  BY DEF R!AllQuoted, R!Listed, D!Listed
<1>2. DOMAIN items = 1..Len(items) /\ Len(items) \in Nat
  BY <1>1, ListedShape
<1> DEFINE more == Append(items, r)
<1>3. /\ D!Listed(more) /\ DOMAIN more = 1..(Len(items) + 1)
      /\ \A k \in 1..Len(items) : more[k] = items[k]
      /\ more[Len(items) + 1] = r
  BY <1>1, ListedAppended
<1> HIDE DEF more
<1>4. ASSUME NEW k \in DOMAIN more PROVE R!Shaped(more[k]) /\ R!Quoted(more[k], pages)
  <2>1. CASE k = Len(items) + 1
    BY <1>3, <2>1
  <2>2. CASE k # Len(items) + 1
    <3>1. k \in 1..Len(items)
      BY <1>2, <1>3, <2>2
    <3>2. QED
      BY <1>1, <1>2, <1>3, <3>1
  <2>3. QED
    BY <2>1, <2>2
<1>5. R!Listed(more)
  BY <1>3 DEF R!Listed, D!Listed
<1>6. QED
  BY <1>4, <1>5 DEF R!AllQuoted, more

LEMMA AllListed ==
    ASSUME NEW items, NEW pages, R!AllQuoted(items, pages)
    PROVE  /\ D!Listed(items) /\ DOMAIN items = 1..Len(items) /\ Len(items) \in Nat
           /\ \A k \in DOMAIN items : R!Shaped(items[k]) /\ R!Quoted(items[k], pages)
<1>1. D!Listed(items) /\ \A k \in DOMAIN items : R!Shaped(items[k]) /\ R!Quoted(items[k], pages)
  BY DEF R!AllQuoted, R!Listed, D!Listed
<1>2. QED
  BY <1>1, ListedShape

LEMMA AllUnmatched ==
    ASSUME NEW items, D!Listed(items), NEW r, R!Unmatched(r),
           \A k \in DOMAIN items : R!Unmatched(items[k])
    PROVE  \A k \in DOMAIN Append(items, r) : R!Unmatched(Append(items, r)[k])
<1>1. DOMAIN items = 1..Len(items) /\ Len(items) \in Nat
  BY ListedShape
<1> DEFINE more == Append(items, r)
<1>2. /\ DOMAIN more = 1..(Len(items) + 1)
      /\ \A k \in 1..Len(items) : more[k] = items[k]
      /\ more[Len(items) + 1] = r
  BY ListedAppended
<1> HIDE DEF more
<1>3. ASSUME NEW k \in DOMAIN more PROVE R!Unmatched(more[k])
  <2>1. CASE k = Len(items) + 1
    BY <1>2, <2>1
  <2>2. CASE k # Len(items) + 1
    <3>1. k \in 1..Len(items)
      BY <1>1, <1>2, <2>2
    <3>2. QED
      BY <1>1, <1>2, <3>1
  <2>3. QED
    BY <2>1, <2>2
<1>4. QED
  BY <1>3 DEF more

LEMMA KeyKept ==
    ASSUME NEW items, DOMAIN items = 1..Len(items), Len(items) \in Nat, NEW rs, D!Listed(rs), NEW n \in Nat,
           R!KeysKept(items, rs, n), n + 1 \in DOMAIN items, NEW more,
           more = IF \E k \in DOMAIN rs : R!Key(rs[k]) = R!Key(items[n + 1])
                  THEN rs ELSE Append(rs, items[n + 1])
    PROVE  R!KeysKept(items, more, n + 1)
<1>1. /\ \A k \in DOMAIN items : k <= n => \E m \in DOMAIN rs : R!Key(rs[m]) = R!Key(items[k])
      /\ \A k, m \in DOMAIN rs : k # m => R!Key(rs[k]) # R!Key(rs[m])
  BY DEF R!KeysKept
<1>2. \A k \in DOMAIN items : k <= n + 1 => k <= n \/ k = n + 1
  OBVIOUS
<1>3. CASE \E k \in DOMAIN rs : R!Key(rs[k]) = R!Key(items[n + 1])
  <2>1. more = rs
    BY <1>3
  <2>2. QED
    BY <1>1, <1>2, <1>3, <2>1 DEF R!KeysKept
<1>4. CASE ~\E k \in DOMAIN rs : R!Key(rs[k]) = R!Key(items[n + 1])
  <2>1. more = Append(rs, items[n + 1])
    BY <1>4
  <2>2. /\ DOMAIN rs = 1..Len(rs) /\ Len(rs) \in Nat /\ DOMAIN more = 1..(Len(rs) + 1)
        /\ \A k \in 1..Len(rs) : more[k] = rs[k]
        /\ more[Len(rs) + 1] = items[n + 1]
    BY <2>1, ListedShape, ListedAppended
  <2>3. \A k \in DOMAIN more : (k \in DOMAIN rs /\ more[k] = rs[k]) \/ k = Len(rs) + 1
    BY <2>2
  <2>4. ASSUME NEW k \in DOMAIN items, k <= n + 1
        PROVE  \E m \in DOMAIN more : R!Key(more[m]) = R!Key(items[k])
    <3>1. CASE k = n + 1
      <4>1. Len(rs) + 1 \in DOMAIN more
        BY <2>2
      <4>2. QED
        BY <2>2, <3>1, <4>1
    <3>2. CASE k <= n
      <4>1. PICK m \in DOMAIN rs : R!Key(rs[m]) = R!Key(items[k])
        BY <1>1, <3>2
      <4>2. m \in DOMAIN more /\ more[m] = rs[m]
        BY <2>2
      <4>3. QED
        BY <4>1, <4>2
    <3>3. QED
      BY <1>2, <2>4, <3>1, <3>2
  <2>5. ASSUME NEW k \in DOMAIN more, NEW m \in DOMAIN more, k # m
        PROVE  R!Key(more[k]) # R!Key(more[m])
    BY <1>1, <1>4, <2>2, <2>3, <2>5
  <2>6. QED
    BY <2>4, <2>5 DEF R!KeysKept
<1>5. QED
  BY <1>3, <1>4

LEMMA PageJoined ==
    ASSUME NEW pages, R!PagesFit(pages), NEW all, NEW n \in Nat, R!PagesJoined(all, pages, n),
           n + 1 \in DOMAIN pages, NEW more,
           more = IF pages[n + 1].failed THEN all ELSE all \o R!Compact(pages[n + 1].text)
    PROVE  R!PagesJoined(more, pages, n + 1)
<1>1. /\ all \in Seq(Nat)
      /\ \A i \in DOMAIN pages : i <= n => pages[i].failed \/ R!Has(all, R!Compact(pages[i].text))
  BY DEF R!PagesJoined
<1>2. \A i \in DOMAIN pages : i \in Nat /\ R!Compact(pages[i].text) \in Seq(Nat)
  BY PagesTyped, ListedShape, CompactIs
<1>3. \A i \in DOMAIN pages : i <= n + 1 => i <= n \/ i = n + 1
  BY <1>2
<1>4. CASE pages[n + 1].failed
  <2>1. more = all
    BY <1>4
  <2>2. QED
    BY <1>1, <1>3, <1>4, <2>1 DEF R!PagesJoined
<1>5. CASE ~pages[n + 1].failed
  <2> DEFINE last == R!Compact(pages[n + 1].text)
  <2>1. more = all \o last /\ last \in Seq(Nat)
    BY <1>2, <1>5
  <2>2. more \in Seq(Nat) /\ R!Has(more, last)
    BY <1>1, <2>1, Joined, HasSecond
  <2>3. ASSUME NEW i \in DOMAIN pages, i <= n + 1
        PROVE  pages[i].failed \/ R!Has(more, R!Compact(pages[i].text))
    <3>1. CASE i = n + 1
      BY <2>2, <3>1
    <3>2. CASE i <= n
      <4>1. CASE pages[i].failed
        BY <4>1
      <4>2. CASE ~pages[i].failed
        <5> HIDE DEF last
        <5>1. R!Has(all, R!Compact(pages[i].text))
          BY <1>1, <3>2, <4>2
        <5>2. QED
          BY <1>1, <1>2, <2>1, <5>1, HasFirst
      <4>3. QED
        BY <4>1, <4>2
    <3>3. QED
      BY <1>3, <2>3, <3>1, <3>2
  <2>4. QED
    BY <2>2, <2>3 DEF R!PagesJoined
<1>6. QED
  BY <1>4, <1>5

\* What match_evidence leaves as it is.
SameFinding(r, m) ==
    /\ m.category = r.category /\ m.label = r.label /\ m.page = r.page /\ m.quote = r.quote
    /\ m.title = r.title /\ m.word = r.word /\ m.block = r.block

LEMMA FindingSame ==
    ASSUME NEW r, NEW m, SameFinding(r, m)
    PROVE  /\ R!TermsFor(m) = R!TermsFor(r) /\ R!Key(m) = R!Key(r)
           /\ \A pages : R!Quoted(r, pages) => R!Quoted(m, pages)
<1>1. R!TermsFor(m) = R!TermsFor(r)
  BY DEF SameFinding, R!TermsFor
<1>2. R!Key(m) = R!Key(r)
  BY DEF SameFinding, R!Key
<1>3. \A pages : R!Quoted(r, pages) => R!Quoted(m, pages)
  BY DEF SameFinding, R!Quoted
<1>4. QED
  BY <1>1, <1>2, <1>3

LEMMA StatusGiven ==
    ASSUME NEW r, R!Shaped(r), NEW x, NEW m, m = [r EXCEPT !.status = x]
    PROVE  R!Shaped(m) /\ SameFinding(r, m) /\ m.status = x /\ m.suggested = r.suggested
<1>1. r \in [category : {r.category}, label : {r.label}, page : {r.page}, quote : {r.quote},
             title : {r.title}, word : {r.word}, block : {r.block},
             status : {r.status}, suggested : {r.suggested}, cites : {r.cites}]
  BY DEF R!Shaped
<1>2. /\ m \in [category : {m.category}, label : {m.label}, page : {m.page}, quote : {m.quote},
                title : {m.title}, word : {m.word}, block : {m.block},
                status : {m.status}, suggested : {m.suggested}, cites : {m.cites}]
      /\ SameFinding(r, m) /\ m.status = x /\ m.suggested = r.suggested
  BY <1>1 DEF SameFinding
<1>3. R!TermsFor(m) \subseteq Seq(Nat)
  BY <1>2, FindingSame DEF R!Shaped
<1>4. QED
  BY <1>2, <1>3 DEF R!Shaped

Suggested(r, x, y, z) == [r EXCEPT !.status = x, !.suggested = y, !.cites = z]

LEMMA MatchGiven ==
    ASSUME NEW r, R!Shaped(r), NEW x, NEW y, NEW z, NEW m,
           m = Suggested(r, x, y, z)
    PROVE  /\ R!Shaped(m) /\ SameFinding(r, m)
           /\ m.status = x /\ m.suggested = y /\ m.cites = z
<1>1. r \in [category : {r.category}, label : {r.label}, page : {r.page}, quote : {r.quote},
             title : {r.title}, word : {r.word}, block : {r.block},
             status : {r.status}, suggested : {r.suggested}, cites : {r.cites}]
  BY DEF R!Shaped
<1>2. /\ m \in [category : {m.category}, label : {m.label}, page : {m.page}, quote : {m.quote},
                title : {m.title}, word : {m.word}, block : {m.block},
                status : {m.status}, suggested : {m.suggested}, cites : {m.cites}]
      /\ SameFinding(r, m) /\ m.status = x /\ m.suggested = y /\ m.cites = z
  BY <1>1 DEF SameFinding, Suggested
<1>3. R!TermsFor(m) \subseteq Seq(Nat)
  BY <1>2, FindingSame DEF R!Shaped
<1>4. QED
  BY <1>2, <1>3 DEF R!Shaped

\* A page that could be read and mentions a term: so do the joined texts.
LEMMA MentionIsJoined ==
    ASSUME NEW pages, R!PagesFit(pages), NEW all, R!PagesJoined(all, pages, Len(pages)),
           NEW terms, terms \subseteq Seq(Nat), \A t \in terms : ~R!Has(all, t),
           NEW i \in DOMAIN pages, R!Mentions(pages[i].text, terms)
    PROVE  pages[i].failed
<1> SUFFICES ASSUME ~pages[i].failed PROVE FALSE
  OBVIOUS
<1>1. PICK t \in terms : R!Has(R!Compact(pages[i].text), t)
  BY DEF R!Mentions
<1>2. t \in Seq(Nat) /\ ~R!Has(all, t)
  OBVIOUS
<1> DEFINE c == R!Compact(pages[i].text)
<1>3. c \in Seq(Nat) /\ i <= Len(pages)
  BY PagesTyped, ListedShape, CompactIs
<1>4. R!Has(all, c) /\ all \in Seq(Nat)
  BY <1>3 DEF R!PagesJoined
<1> HIDE DEF c
<1>5. R!Has(c, t)
  BY <1>1 DEF c
<1>6. QED
  BY <1>2, <1>3, <1>4, <1>5, HasThrough

LEMMA MatchedIs ==
    ASSUME NEW pages, R!PagesFit(pages), NEW all, R!PagesJoined(all, pages, Len(pages)),
           NEW r, R!Shaped(r), R!Unmatched(r), NEW m, m = R!Matched(r, all, pages)
    PROVE  R!Shaped(m) /\ SameFinding(r, m) /\ R!Cited(m, pages)
<1> DEFINE terms  == R!TermsFor(r)
           hits   == {i \in DOMAIN pages : ~pages[i].failed /\ R!Mentions(pages[i].text, terms)}
           hit    == R!First(hits)
           blocks == {b \in DOMAIN pages[hit].blocks : R!Mentions(pages[hit].blocks[b], terms)}
           none   == (\A t \in terms : ~R!Has(all, t)) \/ hits = {}
<1>1. m = IF r.category \notin R!EVIDENCE_CATEGORIES THEN r
          ELSE IF none THEN [r EXCEPT !.status = "UNKNOWN"]
          ELSE [r EXCEPT !.status = "NEEDS_REVIEW", !.suggested = "PASS",
                         !.cites = <<hit, R!FirstBlock(blocks)>>]
  BY DEF R!Matched
<1>2. r.status = "NEEDS_REVIEW" /\ r.suggested = "none" /\ terms \subseteq Seq(Nat)
  BY DEF R!Unmatched, R!Shaped
<1>3. CASE r.category \notin R!EVIDENCE_CATEGORIES
  <2>1. m = r
    BY <1>1, <1>3
  <2>2. SameFinding(r, m)
    BY <2>1 DEF SameFinding
  <2>3. R!Cited(m, pages)
    BY <1>3, <2>1 DEF R!Cited
  <2>4. QED
    BY <2>1, <2>2, <2>3
<1>4. CASE r.category \in R!EVIDENCE_CATEGORIES /\ none
  <2> DEFINE u == "UNKNOWN"
  <2>1. m = [r EXCEPT !.status = u]
    BY <1>1, <1>4
  <2> HIDE DEF u
  <2>2. R!Shaped(m) /\ SameFinding(r, m) /\ m.status = u /\ m.suggested = r.suggested
    BY <2>1, StatusGiven
  <2>3. ASSUME NEW i \in DOMAIN pages PROVE pages[i].failed \/ ~R!Mentions(pages[i].text, terms)
    <3> HIDE DEF terms
    <3>1. CASE hits = {}
      BY <3>1
    <3>2. CASE \A t \in terms : ~R!Has(all, t)
      <4> HIDE DEF hits
      <4>1. QED
        BY <1>2, <3>2, MentionIsJoined
    <3>3. QED
      BY <1>4, <3>1, <3>2
  <2>4. m.category = r.category /\ R!TermsFor(m) = terms
    BY <2>2, FindingSame DEF SameFinding
  <2> HIDE DEF terms
  <2>5. R!Cited(m, pages)
    BY <1>2, <1>4, <2>2, <2>3, <2>4 DEF R!Cited, u
  <2>6. QED
    BY <2>2, <2>5
<1>5. CASE r.category \in R!EVIDENCE_CATEGORIES /\ ~none
  <2> DEFINE u == "NEEDS_REVIEW"
             v == "PASS"
             b == R!FirstBlock(blocks)
             x == <<hit, b>>
  <2>1. m = Suggested(r, u, v, x)
    BY <1>1, <1>5 DEF Suggested
  <2>2. x[1] = hit /\ x[2] = b
    OBVIOUS
  <2>3. hit \in DOMAIN pages /\ ~pages[hit].failed /\ R!Mentions(pages[hit].text, terms)
    <3>1. hits # {} /\ hits \subseteq Nat
      BY <1>5, PagesTyped, ListedShape
    <3>2. hit \in hits
      BY <3>1, LeastIs
    <3>3. QED
      BY <3>2
  <2> HIDE DEF hit
  <2>4. b # 0 => R!Mentions(pages[hit].blocks[b], terms)
    <3>1. blocks \subseteq Nat
      BY <2>3, PagesTyped, ListedShape
    <3>2. CASE blocks = {}
      BY <3>2 DEF R!FirstBlock
    <3>3. CASE blocks # {}
      <4>1. R!First(blocks) \in blocks
        BY <3>1, <3>3, LeastIs
      <4>2. b = R!First(blocks)
        BY <3>3 DEF R!FirstBlock
      <4>3. QED
        BY <4>1, <4>2
    <3>4. QED
      BY <3>2, <3>3
  <2> HIDE DEF b, u, v, x, terms
  <2>5. R!Shaped(m) /\ SameFinding(r, m) /\ m.status = u /\ m.suggested = v /\ m.cites = x
    BY <2>1, MatchGiven
  <2>6. m.category = r.category /\ R!TermsFor(m) = terms
    BY <2>5, FindingSame DEF SameFinding, terms
  <2>7. R!Cited(m, pages)
    BY <1>5, <2>2, <2>3, <2>4, <2>5, <2>6 DEF R!Cited, u, v
  <2>8. QED
    BY <2>5, <2>7
<1>6. QED
  BY <1>3, <1>4, <1>5

-----------------------------------------------------------------------------
(* The steps of the rules.                                                   *)

CursorT == [page : Nat \ {0}, pattern : Nat \ {0}, from : Nat \ {0}]

LEMMA InvNow ==
    ASSUME R!RulesInv
    PROVE  /\ R!TypeOK /\ cursor \in CursorT /\ turn \in Nat /\ turn >= 1
           /\ at \in {"extract", "deduplicate", "join", "match", "done"}
           /\ tender \in Tenders /\ evidence \in Evidence
           /\ R!PagesFit(tender) /\ R!PagesFit(evidence)
           /\ at # "extract" => cursor.page > Len(tender)
           /\ at \in {"join", "match"} => evidence # <<>>
           /\ R!AllQuoted(found, tender) /\ \A k \in DOMAIN found : R!Unmatched(found[k])
           /\ R!AllQuoted(requirements, tender)
           /\ R!PastIsListed(tender, found, cursor)
           /\ R!KeysKept(found, requirements, R!Deduplicated)
           /\ R!PagesJoined(all_text, evidence, R!PagesDone)
           /\ R!CitedUpTo(requirements, evidence, R!MatchesDone)
<1>1. tender \in Tenders /\ evidence \in Evidence /\ R!TypeOK
  BY DEF R!RulesInv
<1>2. R!PagesFit(tender) /\ R!PagesFit(evidence)
  BY <1>1, RulesTyped
<1>3. cursor \in CursorT /\ turn \in Nat /\ turn >= 1
      /\ at \in {"extract", "deduplicate", "join", "match", "done"}
  BY <1>1 DEF R!TypeOK, CursorT
<1>4. QED
  BY <1>1, <1>2, <1>3 DEF R!RulesInv

LEMMA CursorTyped ==
    ASSUME NEW c \in CursorT
    PROVE  /\ c.page \in Nat /\ c.page >= 1 /\ c.pattern \in Nat /\ c.pattern >= 1
           /\ c.from \in Nat /\ c.from >= 1
  BY DEF CursorT

LEMMA CursorMoved ==
    ASSUME NEW c \in CursorT, NEW f \in Nat \ {0}, NEW d
    PROVE  /\ d = [c EXCEPT !.from = f] => d \in CursorT /\ MovedTo(c, d, f)
           /\ d = [c EXCEPT !.pattern = @ + 1, !.from = 1] =>
                 d \in CursorT /\ d.page = c.page /\ d.pattern = c.pattern + 1 /\ d.from = 1
           /\ d = [page |-> c.page + 1, pattern |-> 1, from |-> 1] =>
                 d \in CursorT /\ d.page = c.page + 1 /\ d.pattern = 1 /\ d.from = 1
<1> DEFINE g == c.pattern + 1
<1>0. g \in Nat \ {0} /\ 1 \in Nat \ {0} /\ c.page + 1 \in Nat \ {0}
  BY CursorTyped
<1>1. d = [c EXCEPT !.from = f] => d \in CursorT /\ MovedTo(c, d, f)
  BY DEF CursorT, MovedTo
<1>2. ASSUME d = [c EXCEPT !.pattern = @ + 1, !.from = 1]
      PROVE  d \in CursorT /\ d.page = c.page /\ d.pattern = g /\ d.from = 1
  <2>1. d = [c EXCEPT !.pattern = g, !.from = 1]
    BY <1>2
  <2> HIDE DEF g
  <2>2. QED
    BY <1>0, <2>1 DEF CursorT
<1>3. ASSUME d = [page |-> c.page + 1, pattern |-> 1, from |-> 1]
      PROVE  d \in CursorT /\ d.page = c.page + 1 /\ d.pattern = 1 /\ d.from = 1
  BY <1>0, <1>3 DEF CursorT
<1>4. QED
  BY <1>1, <1>2, <1>3

LEMMA NoKeysYet ==
    ASSUME NEW items, NEW more, NEW rs, R!KeysKept(items, rs, 0), DOMAIN more \subseteq Nat \ {0}
    PROVE  R!KeysKept(more, rs, 0)
<1>1. \A k \in DOMAIN more : ~(k <= 0)
  OBVIOUS
<1>2. QED
  BY <1>1 DEF R!KeysKept

LEMMA FindMatchKeeps == R!RulesInv /\ R!FindMatch => R!RulesInv'
<1> SUFFICES ASSUME R!RulesInv, R!FindMatch PROVE R!RulesInv'
  OBVIOUS
<1> DEFINE words == WordsAt(cursor)
           t     == TextAt(tender, cursor)
           i     == R!First(R!Hits)
           A     == {a \in DOMAIN words : i \in R!FoundAt(words[a], t)}
           a0    == R!First(A)
           r     == R!Requirement(cursor.page, tender[cursor.page], Patterns[cursor.pattern], words[a0], i)
<1>1. /\ at = "extract" /\ cursor.page <= Len(tender) /\ cursor.pattern <= Len(Patterns)
      /\ R!Hits # {}
      /\ R!Hits = {k \in UNION {R!FoundAt(words[a], t) : a \in DOMAIN words} : k >= cursor.from}
      /\ found' = Append(found, r) /\ cursor' = [cursor EXCEPT !.from = i + Len(words[a0])]
      /\ UNCHANGED <<tender, evidence, at, turn, requirements, all_text>>
  BY DEF R!FindMatch, R!InPage, R!Hits, R!Words, R!Text, WordsAt, TextAt
<1>2. /\ cursor \in CursorT /\ R!PagesFit(tender) /\ R!PastIsListed(tender, found, cursor)
      /\ R!AllQuoted(found, tender) /\ \A k \in DOMAIN found : R!Unmatched(found[k])
  BY InvNow
<1>3. /\ cursor.page \in Nat /\ cursor.page >= 1 /\ cursor.pattern \in Nat /\ cursor.pattern >= 1
      /\ cursor.from \in Nat /\ cursor.from >= 1
  BY <1>2, CursorTyped
<1>4. cursor.page \in DOMAIN tender /\ cursor.pattern \in DOMAIN Patterns
  BY <1>1, <1>2, <1>3, PagesTyped, RulesTyped, ListedShape
<1>5. t \in Seq(Nat) /\ D!Listed(words) /\ \A a \in DOMAIN words : words[a] \in Seq(Nat)
  BY <1>2, <1>4, PagesTyped, RulesTyped DEF TextAt, WordsAt
<1> HIDE DEF words, t
<1>6. \A a \in DOMAIN words : R!FoundAt(words[a], t) \subseteq Nat
  BY <1>5, FoundIs
<1>7. i \in R!Hits /\ \A k \in R!Hits : i <= k
  <2> DEFINE H == R!Hits
  <2>1. H \subseteq Nat /\ H # {}
    BY <1>1, <1>6
  <2> HIDE DEF H
  <2>2. R!First(H) \in H /\ \A k \in H : R!First(H) <= k
    BY <2>1, LeastIs
  <2>3. QED
    BY <2>2 DEF H
<1>8. a0 \in DOMAIN words /\ i \in R!FoundAt(words[a0], t)
  <2>1. A # {} /\ A \subseteq Nat
    <3> DEFINE n == i
    <3>1. n \in R!Hits
      BY <1>7
    <3> HIDE DEF n
    <3>2. PICK a \in DOMAIN words : n \in R!FoundAt(words[a], t)
      BY <1>1, <3>1
    <3>3. DOMAIN words \subseteq Nat
      BY <1>5, ListedShape
    <3>4. QED
      BY <3>2, <3>3 DEF n
  <2>2. a0 \in A
    BY <2>1, LeastIs
  <2>3. QED
    BY <2>2
<1>9. \A b \in DOMAIN words : \A j \in R!FoundAt(words[b], t) : j >= cursor.from => i <= j
  BY <1>1, <1>7
<1>10. i + Len(words[a0]) \in Nat \ {0}
  BY <1>5, <1>8, FoundIs, SeqDomain
<1> HIDE DEF i, A, a0
<1>11. cursor' \in CursorT /\ MovedTo(cursor, cursor', i + Len(words[a0]))
  BY <1>1, <1>2, <1>10, CursorMoved
<1>12. R!Shaped(r) /\ R!Quoted(r, tender) /\ R!Unmatched(r)
  <2>1. i \in R!FoundAt(words[a0], tender[cursor.page].text) /\ words[a0] \in Seq(Nat)
    BY <1>5, <1>8 DEF t, TextAt
  <2> DEFINE q == r
  <2>2. q = R!Requirement(cursor.page, tender[cursor.page], Patterns[cursor.pattern], words[a0], i)
    OBVIOUS
  <2> HIDE DEF q
  <2>3. R!Shaped(q) /\ R!Quoted(q, tender) /\ R!Unmatched(q)
    BY <1>2, <1>4, <2>1, <2>2, RequirementIs
  <2>4. QED
    BY <2>3 DEF q
<1>13. R!PastIsListed(tender, found', cursor')
  <2> DEFINE q == r
             d == cursor'
  <2>1. /\ q = R!Requirement(cursor.page, tender[cursor.page], Patterns[cursor.pattern],
                             WordsAt(cursor)[a0], i)
        /\ a0 \in DOMAIN WordsAt(cursor) /\ i \in R!FoundAt(WordsAt(cursor)[a0], TextAt(tender, cursor))
        /\ MovedTo(cursor, d, i + Len(WordsAt(cursor)[a0]))
        /\ found' = Append(found, q)
        /\ \A b \in DOMAIN WordsAt(cursor) : \A j \in R!FoundAt(WordsAt(cursor)[b], TextAt(tender, cursor)) :
              j >= cursor.from => i <= j
    BY <1>1, <1>8, <1>9, <1>11 DEF words, t
  <2>2. D!Listed(found)
    BY <1>2, AllListed
  <2> HIDE DEF q, d
  <2>3. R!PastIsListed(tender, Append(found, q), d)
    BY <1>2, <1>3, <1>4, <2>1, <2>2, MatchListed
  <2>4. QED
    BY <2>1, <2>3 DEF d
<1> HIDE DEF r
<1>14. R!AllQuoted(found', tender) /\ \A k \in DOMAIN found' : R!Unmatched(found'[k])
  <2>1. R!AllQuoted(Append(found, r), tender)
    BY <1>2, <1>12, AllMore
  <2>2. \A k \in DOMAIN Append(found, r) : R!Unmatched(Append(found, r)[k])
    BY <1>2, <1>12, AllListed, AllUnmatched
  <2>3. QED
    BY <1>1, <2>1, <2>2
<1>15. R!KeysKept(found', requirements, 0)
  <2>1. R!KeysKept(found, requirements, 0)
    BY <1>1, InvNow DEF R!Deduplicated
  <2>2. DOMAIN found' \subseteq Nat \ {0}
    BY <1>14, AllListed
  <2>3. QED
    BY <2>1, <2>2, NoKeysYet
<1>16. /\ tender' = tender /\ evidence' = evidence /\ at' = at /\ turn' = turn
       /\ requirements' = requirements /\ all_text' = all_text
  BY <1>1
<1>17. R!TypeOK'
  BY <1>11, <1>16 DEF R!RulesInv, R!TypeOK, CursorT
<1>18. R!Deduplicated' = 0 /\ R!PagesDone' = R!PagesDone /\ R!MatchesDone' = R!MatchesDone
  BY <1>1, <1>16 DEF R!Deduplicated, R!PagesDone, R!MatchesDone
<1>19. QED
  BY <1>1, <1>13, <1>14, <1>15, <1>16, <1>17, <1>18 DEF R!RulesInv

LEMMA NextPatternKeeps == R!RulesInv /\ R!NextPattern => R!RulesInv'
<1> SUFFICES ASSUME R!RulesInv, R!NextPattern PROVE R!RulesInv'
  OBVIOUS
<1> DEFINE d == cursor'
<1>1. /\ at = "extract" /\ R!Hits = {}
      /\ R!Hits = {k \in UNION {R!FoundAt(WordsAt(cursor)[a], TextAt(tender, cursor)) :
                                   a \in DOMAIN WordsAt(cursor)} : k >= cursor.from}
      /\ d = [cursor EXCEPT !.pattern = @ + 1, !.from = 1]
      /\ UNCHANGED <<tender, evidence, at, turn, found, requirements, all_text>>
  BY DEF R!NextPattern, R!InPage, R!Hits, R!Words, R!Text, WordsAt, TextAt
<1>2. cursor \in CursorT /\ R!PagesFit(tender) /\ R!PastIsListed(tender, found, cursor)
  BY InvNow
<1> HIDE DEF d
<1>3. d \in CursorT /\ d.page = cursor.page /\ d.pattern = cursor.pattern + 1 /\ d.from = 1
  <2>1. 1 \in Nat \ {0}
    OBVIOUS
  <2>2. QED
    BY <1>1, <1>2, <2>1, CursorMoved
<1>4. \A b \in DOMAIN WordsAt(cursor) : \A j \in R!FoundAt(WordsAt(cursor)[b], TextAt(tender, cursor)) :
         ~(j >= cursor.from)
  BY <1>1
<1>5. R!PastIsListed(tender, found, d)
  BY <1>2, <1>3, <1>4, CursorTyped, NoneLeft
<1>6. R!TypeOK'
  BY <1>1, <1>3 DEF R!RulesInv, R!TypeOK, CursorT, d
<1>7. /\ R!Deduplicated' = R!Deduplicated /\ R!PagesDone' = R!PagesDone
      /\ R!MatchesDone' = R!MatchesDone
  BY <1>1 DEF R!Deduplicated, R!PagesDone, R!MatchesDone
<1>8. /\ tender' = tender /\ evidence' = evidence /\ at' = at /\ turn' = turn /\ found' = found
      /\ requirements' = requirements /\ all_text' = all_text /\ at = "extract"
  BY <1>1
<1>9. QED
  BY <1>5, <1>6, <1>7, <1>8 DEF R!RulesInv, d

LEMMA NextPageKeeps == R!RulesInv /\ R!NextPage => R!RulesInv'
<1> SUFFICES ASSUME R!RulesInv, R!NextPage PROVE R!RulesInv'
  OBVIOUS
<1> DEFINE d == cursor'
<1>1. /\ at = "extract" /\ cursor.page <= Len(tender)
      /\ R!Blank(TextAt(tender, cursor)) \/ ~(cursor.pattern <= Len(Patterns))
      /\ d = [page |-> cursor.page + 1, pattern |-> 1, from |-> 1]
      /\ UNCHANGED <<tender, evidence, at, turn, found, requirements, all_text>>
  BY DEF R!NextPage, R!InPage, TextAt
<1>2. cursor \in CursorT /\ R!PagesFit(tender) /\ R!PastIsListed(tender, found, cursor)
  BY InvNow
<1> HIDE DEF d
<1>3. d \in CursorT /\ d.page = cursor.page + 1 /\ d.pattern = 1 /\ d.from = 1
  <2>1. 1 \in Nat \ {0}
    OBVIOUS
  <2>2. QED
    BY <1>1, <1>2, <2>1, CursorMoved
<1>4. /\ cursor.page \in Nat /\ cursor.pattern \in Nat /\ cursor.from \in Nat
      /\ Len(Patterns) \in Nat
  BY <1>2, CursorTyped, RulesTyped, ListedShape
<1>5. R!Blank(TextAt(tender, cursor)) \/ cursor.pattern > Len(Patterns)
  BY <1>1, <1>4
<1>6. R!PastIsListed(tender, found, d)
  BY <1>2, <1>3, <1>4, <1>5, PageLeft
<1>7. R!TypeOK'
  BY <1>1, <1>3 DEF R!RulesInv, R!TypeOK, CursorT, d
<1>8. /\ R!Deduplicated' = R!Deduplicated /\ R!PagesDone' = R!PagesDone
      /\ R!MatchesDone' = R!MatchesDone
  BY <1>1 DEF R!Deduplicated, R!PagesDone, R!MatchesDone
<1>9. /\ tender' = tender /\ evidence' = evidence /\ at' = at /\ turn' = turn /\ found' = found
      /\ requirements' = requirements /\ all_text' = all_text /\ at = "extract"
  BY <1>1
<1>10. QED
  BY <1>6, <1>7, <1>8, <1>9 DEF R!RulesInv, d

LEMMA NoneCitedYet ==
    ASSUME NEW rs, NEW pages, DOMAIN rs = 1..Len(rs), Len(rs) \in Nat
    PROVE  R!CitedUpTo(rs, pages, 0) <=> \A k \in DOMAIN rs : R!Unmatched(rs[k])
<1>1. \A k \in DOMAIN rs : ~(k <= 0)
  OBVIOUS
<1>2. QED
  BY <1>1 DEF R!CitedUpTo

LEMMA DeduplicateKeeps == R!RulesInv /\ R!Deduplicate => R!RulesInv'
<1> SUFFICES ASSUME R!RulesInv, R!Deduplicate PROVE R!RulesInv'
  OBVIOUS
<1>1. /\ at = "deduplicate" /\ turn <= Len(found)
      /\ requirements' = IF \E k \in DOMAIN requirements : R!Key(requirements[k]) = R!Key(found[turn])
                         THEN requirements ELSE Append(requirements, found[turn])
      /\ turn' = turn + 1
      /\ tender' = tender /\ evidence' = evidence /\ at' = at /\ cursor' = cursor
      /\ found' = found /\ all_text' = all_text
  BY DEF R!Deduplicate
<1>2. /\ turn \in Nat /\ turn >= 1 /\ (turn - 1) + 1 = turn /\ turn - 1 \in Nat
      /\ R!AllQuoted(found, tender) /\ \A k \in DOMAIN found : R!Unmatched(found[k])
      /\ R!AllQuoted(requirements, tender)
  BY InvNow
<1>3. /\ DOMAIN found = 1..Len(found) /\ Len(found) \in Nat /\ turn \in DOMAIN found
      /\ R!Shaped(found[turn]) /\ R!Quoted(found[turn], tender) /\ R!Unmatched(found[turn])
  BY <1>1, <1>2, AllListed
<1>4. /\ D!Listed(requirements) /\ DOMAIN requirements = 1..Len(requirements)
      /\ Len(requirements) \in Nat
  BY <1>2, AllListed
<1>5. R!KeysKept(found, requirements, turn - 1)
  BY <1>1, InvNow DEF R!Deduplicated
<1>6. \A k \in DOMAIN requirements : R!Unmatched(requirements[k])
  <2>1. R!CitedUpTo(requirements, evidence, 0)
    BY <1>1, InvNow DEF R!MatchesDone
  <2>2. QED
    BY <1>4, <2>1, NoneCitedYet
<1> DEFINE more == requirements'
           n    == turn - 1
<1>7. R!KeysKept(found, more, turn)
  <2>1. more = IF \E k \in DOMAIN requirements : R!Key(requirements[k]) = R!Key(found[n + 1])
               THEN requirements ELSE Append(requirements, found[n + 1])
    BY <1>1, <1>2
  <2>2. n \in Nat /\ n + 1 \in DOMAIN found /\ R!KeysKept(found, requirements, n) /\ n + 1 = turn
    BY <1>2, <1>3, <1>5
  <2> HIDE DEF n, more
  <2>3. R!KeysKept(found, more, n + 1)
    BY <1>3, <1>4, <2>1, <2>2, KeyKept
  <2>4. QED
    BY <2>2, <2>3
<1>8. R!AllQuoted(more, tender) /\ \A k \in DOMAIN more : R!Unmatched(more[k])
  <2>1. more = requirements \/ more = Append(requirements, found[turn])
    BY <1>1
  <2> HIDE DEF more
  <2>2. CASE more = requirements
    BY <1>2, <1>6, <2>2
  <2>3. CASE more = Append(requirements, found[turn])
    <3>1. R!AllQuoted(Append(requirements, found[turn]), tender)
      BY <1>2, <1>3, AllMore
    <3>2. \A k \in DOMAIN Append(requirements, found[turn]) :
             R!Unmatched(Append(requirements, found[turn])[k])
      BY <1>3, <1>4, <1>6, AllUnmatched
    <3>3. QED
      BY <2>3, <3>1, <3>2
  <2>4. QED
    BY <2>1, <2>2, <2>3
<1> HIDE DEF more, n
<1>9. R!CitedUpTo(more, evidence, 0)
  BY <1>8, AllListed, NoneCitedYet
<1>10. R!Deduplicated' = turn /\ R!PagesDone' = R!PagesDone /\ R!MatchesDone' = 0
  BY <1>1, <1>2 DEF R!Deduplicated, R!PagesDone, R!MatchesDone
<1>11. R!TypeOK'
  BY <1>1, <1>2 DEF R!RulesInv, R!TypeOK
<1>12. QED
  BY <1>1, <1>7, <1>8, <1>9, <1>10, <1>11 DEF R!RulesInv, more

LEMMA JoinKeeps == R!RulesInv /\ R!Join => R!RulesInv'
<1> SUFFICES ASSUME R!RulesInv, R!Join PROVE R!RulesInv'
  OBVIOUS
<1> DEFINE more == all_text'
           n    == turn - 1
<1>1. /\ at = "join" /\ turn <= Len(evidence)
      /\ more = IF evidence[turn].failed THEN all_text
                ELSE all_text \o R!Compact(evidence[turn].text)
      /\ turn' = turn + 1
      /\ tender' = tender /\ evidence' = evidence /\ at' = at /\ cursor' = cursor
      /\ found' = found /\ requirements' = requirements
  BY DEF R!Join
<1>2. turn \in Nat /\ turn >= 1 /\ n + 1 = turn /\ n \in Nat /\ R!PagesFit(evidence)
  BY InvNow
<1>3. turn \in DOMAIN evidence
  BY <1>1, <1>2, PagesTyped, ListedShape
<1>4. R!PagesJoined(all_text, evidence, n)
  BY <1>1, InvNow DEF R!PagesDone
<1> HIDE DEF more, n
<1>5. R!PagesJoined(more, evidence, n + 1)
  BY <1>1, <1>2, <1>3, <1>4, PageJoined
<1>6. R!Deduplicated' = R!Deduplicated /\ R!PagesDone' = turn /\ R!MatchesDone' = R!MatchesDone
  BY <1>1, <1>2 DEF R!Deduplicated, R!PagesDone, R!MatchesDone
<1>7. R!TypeOK'
  BY <1>1, <1>2 DEF R!RulesInv, R!TypeOK
<1>8. QED
  BY <1>1, <1>2, <1>5, <1>6, <1>7 DEF R!RulesInv, more

LEMMA ListedChanged ==
    ASSUME NEW s, D!Listed(s), NEW i \in DOMAIN s, NEW x, NEW u, u = [s EXCEPT ![i] = x]
    PROVE  /\ D!Listed(u) /\ DOMAIN u = DOMAIN s /\ Len(u) = Len(s)
           /\ u[i] = x /\ \A k \in DOMAIN s : k # i => u[k] = s[k]
<1> DEFINE Z == {s[k] : k \in DOMAIN s} \cup {x}
<1>1. s \in Seq(Z) /\ x \in Z
  BY DEF D!Listed
<1> HIDE DEF Z
<1>2. u \in Seq(Z) /\ Len(u) = Len(s)
  BY <1>1
<1>3. DOMAIN u = DOMAIN s /\ u[i] = x /\ \A k \in DOMAIN s : k # i => u[k] = s[k]
  OBVIOUS
<1>4. QED
  BY <1>2, <1>3, SeqListed

LEMMA KeysSame ==
    ASSUME NEW items, NEW rs, NEW n, R!KeysKept(items, rs, n), NEW more, DOMAIN more = DOMAIN rs,
           \A k \in DOMAIN rs : R!Key(more[k]) = R!Key(rs[k])
    PROVE  R!KeysKept(items, more, n)
  BY DEF R!KeysKept

LEMMA MatchEvidenceKeeps == R!RulesInv /\ R!MatchEvidence => R!RulesInv'
<1> SUFFICES ASSUME R!RulesInv, R!MatchEvidence PROVE R!RulesInv'
  OBVIOUS
<1> DEFINE more == requirements'
           n    == turn - 1
           r    == requirements[turn]
           m    == R!Matched(r, all_text, evidence)
<1>1. /\ at = "match" /\ turn <= Len(requirements)
      /\ more = [requirements EXCEPT ![turn] = m]
      /\ turn' = turn + 1
      /\ tender' = tender /\ evidence' = evidence /\ at' = at /\ cursor' = cursor
      /\ found' = found /\ all_text' = all_text
  BY DEF R!MatchEvidence
<1>2. /\ turn \in Nat /\ turn >= 1 /\ n + 1 = turn /\ n \in Nat /\ R!PagesFit(evidence)
      /\ R!AllQuoted(requirements, tender)
  BY InvNow
<1>3. /\ R!PagesJoined(all_text, evidence, Len(evidence)) /\ R!CitedUpTo(requirements, evidence, n)
      /\ R!KeysKept(found, requirements, Len(found))
  BY <1>1, InvNow DEF R!PagesDone, R!MatchesDone, R!Deduplicated
<1>4. /\ D!Listed(requirements) /\ DOMAIN requirements = 1..Len(requirements)
      /\ Len(requirements) \in Nat
      /\ \A k \in DOMAIN requirements : R!Shaped(requirements[k]) /\ R!Quoted(requirements[k], tender)
  BY <1>2, AllListed
<1>5. turn \in DOMAIN requirements /\ ~(turn <= n)
  BY <1>1, <1>2, <1>4
<1> HIDE DEF more, n
<1>6. /\ D!Listed(more) /\ DOMAIN more = DOMAIN requirements
      /\ more[turn] = m /\ \A k \in DOMAIN requirements : k # turn => more[k] = requirements[k]
  <2> DEFINE x == m
  <2> HIDE DEF x
  <2>1. more = [requirements EXCEPT ![turn] = x]
    BY <1>1 DEF x
  <2>2. /\ D!Listed(more) /\ DOMAIN more = DOMAIN requirements
        /\ more[turn] = x /\ \A k \in DOMAIN requirements : k # turn => more[k] = requirements[k]
    BY <1>4, <1>5, <2>1, ListedChanged
  <2>3. QED
    BY <2>2 DEF x
<1>7. R!Shaped(r) /\ R!Quoted(r, tender) /\ R!Unmatched(r)
  BY <1>3, <1>4, <1>5 DEF R!CitedUpTo
<1> HIDE DEF r
<1>8. R!Shaped(m) /\ SameFinding(r, m) /\ R!Cited(m, evidence)
  BY <1>2, <1>3, <1>7, MatchedIs
<1> HIDE DEF m
<1>9. R!Key(m) = R!Key(r) /\ R!Quoted(m, tender)
  BY <1>7, <1>8, FindingSame
<1>10. R!AllQuoted(more, tender)
  <2>1. \A k \in DOMAIN more : R!Shaped(more[k]) /\ R!Quoted(more[k], tender)
    BY <1>4, <1>6, <1>8, <1>9
  <2>2. R!Listed(more)
    BY <1>6 DEF R!Listed, D!Listed
  <2>3. QED
    BY <2>1, <2>2 DEF R!AllQuoted
<1>11. R!KeysKept(found, more, Len(found))
  <2>1. \A k \in DOMAIN requirements : R!Key(more[k]) = R!Key(requirements[k])
    BY <1>6, <1>9 DEF r
  <2>2. QED
    BY <1>3, <1>6, <2>1, KeysSame
<1>12. R!CitedUpTo(more, evidence, turn)
  <2>1. ASSUME NEW k \in DOMAIN more
        PROVE  IF k <= turn THEN R!Cited(more[k], evidence) ELSE R!Unmatched(more[k])
    <3>1. CASE k = turn
      BY <1>2, <1>6, <1>8, <3>1
    <3>2. CASE k # turn
      <4>1. k \in Nat /\ more[k] = requirements[k] /\ k \in DOMAIN requirements
        BY <1>4, <1>6, <3>2
      <4>2. k <= turn <=> k <= n
        BY <1>2, <3>2, <4>1
      <4>3. QED
        BY <1>3, <4>1, <4>2 DEF R!CitedUpTo
    <3>3. QED
      BY <3>1, <3>2
  <2>2. QED
    BY <2>1 DEF R!CitedUpTo
<1>13. /\ R!Deduplicated' = Len(found) /\ R!PagesDone' = R!PagesDone /\ R!MatchesDone' = turn
  BY <1>1, <1>2 DEF R!Deduplicated, R!PagesDone, R!MatchesDone
<1>14. R!TypeOK'
  BY <1>1, <1>2 DEF R!RulesInv, R!TypeOK
<1>15. QED
  BY <1>1, <1>2, <1>10, <1>11, <1>12, <1>13, <1>14 DEF R!RulesInv, more

LEMMA LoopOver ==
    ASSUME NEW n \in Nat, NEW z \in Nat, z <= n
    PROVE  /\ \A items, rs : DOMAIN items = 1..z /\ R!KeysKept(items, rs, n) => R!KeysKept(items, rs, z)
           /\ \A all, pages : DOMAIN pages = 1..z /\ R!PagesJoined(all, pages, n)
                 => R!PagesJoined(all, pages, z)
           /\ \A rs, pages : DOMAIN rs = 1..z /\ R!CitedUpTo(rs, pages, n) => R!CitedUpTo(rs, pages, z)
<1>1. \A k \in 1..z : k <= n /\ k <= z
  OBVIOUS
<1>2. QED
  BY <1>1 DEF R!KeysKept, R!PagesJoined, R!CitedUpTo

LEMMA NextLoopKeeps == R!RulesInv /\ R!NextLoop => R!RulesInv'
<1> SUFFICES ASSUME R!RulesInv, R!NextLoop PROVE R!RulesInv'
  OBVIOUS
<1> DEFINE n == turn - 1
<1>1. /\ turn' = 1 /\ tender' = tender /\ evidence' = evidence /\ cursor' = cursor
      /\ found' = found /\ requirements' = requirements /\ all_text' = all_text
      /\ \/ at = "extract" /\ cursor.page > Len(tender) /\ at' = "deduplicate"
         \/ /\ at = "deduplicate" /\ turn > Len(found)
            /\ at' = IF evidence = <<>> THEN "done" ELSE "join"
         \/ at = "join" /\ turn > Len(evidence) /\ at' = "match"
         \/ at = "match" /\ turn > Len(requirements) /\ at' = "done"
  BY DEF R!NextLoop
<1>2. /\ turn \in Nat /\ turn >= 1 /\ R!TypeOK
      /\ tender \in Tenders /\ evidence \in Evidence
      /\ at # "extract" => cursor.page > Len(tender)
      /\ at \in {"join", "match"} => evidence # <<>>
      /\ R!PagesJoined(all_text, evidence, R!PagesDone)
      /\ R!KeysKept(found, requirements, R!Deduplicated)
      /\ R!CitedUpTo(requirements, evidence, R!MatchesDone)
  BY InvNow
<1>3. /\ DOMAIN found = 1..Len(found) /\ Len(found) \in Nat
      /\ DOMAIN requirements = 1..Len(requirements) /\ Len(requirements) \in Nat
  BY InvNow, AllListed
<1>4. DOMAIN evidence = 1..Len(evidence) /\ Len(evidence) \in Nat
  BY InvNow, PagesTyped, ListedShape
<1>5. n \in Nat /\ \A z \in Nat : turn > z => z <= n
  BY <1>2
<1>6. R!TypeOK'
  BY <1>1, <1>2 DEF R!TypeOK
<1>7. /\ at' # "extract" /\ cursor.page > Len(tender)
      /\ at' \in {"join", "match"} => evidence # <<>>
  BY <1>1, <1>2
<1>8. R!PagesJoined(all_text, evidence, 0)
  <2>1. all_text \in Seq(Nat)
    BY <1>2 DEF R!PagesJoined
  <2>2. \A i \in DOMAIN evidence : ~(i <= 0)
    BY <1>4
  <2>3. QED
    BY <2>1, <2>2 DEF R!PagesJoined
<1> HIDE DEF n
<1>9. R!KeysKept(found, requirements, R!Deduplicated')
  <2>1. CASE at = "extract"
    <3>1. R!Deduplicated = 0 /\ R!Deduplicated' = 0
      BY <1>1, <2>1 DEF R!Deduplicated
    <3>2. QED
      BY <1>2, <3>1
  <2>2. CASE at = "deduplicate"
    <3>1. R!Deduplicated = n /\ R!Deduplicated' = Len(found) /\ Len(found) <= n
      BY <1>1, <1>3, <1>5, <2>2 DEF R!Deduplicated, n
    <3>2. QED
      BY <1>2, <1>3, <1>5, <3>1, LoopOver
  <2>3. CASE at \in {"join", "match"}
    <3>1. R!Deduplicated = Len(found) /\ R!Deduplicated' = Len(found)
      BY <1>1, <2>3 DEF R!Deduplicated
    <3>2. QED
      BY <1>2, <3>1
  <2>4. QED
    BY <1>1, <2>1, <2>2, <2>3
<1>10. R!PagesJoined(all_text, evidence, R!PagesDone')
  <2>1. CASE at = "join"
    <3>1. R!PagesDone = n /\ R!PagesDone' = Len(evidence) /\ Len(evidence) <= n
      BY <1>1, <1>4, <1>5, <2>1 DEF R!PagesDone, n
    <3>2. QED
      BY <1>2, <1>4, <1>5, <3>1, LoopOver
  <2>2. CASE at # "join"
    <3>1. R!PagesDone' = 0
      BY <1>1, <2>2 DEF R!PagesDone
    <3>2. QED
      BY <1>8, <3>1
  <2>3. QED
    BY <2>1, <2>2
<1>11. R!CitedUpTo(requirements, evidence, R!MatchesDone')
  <2>1. CASE at = "match"
    <3>1. R!MatchesDone = n /\ R!MatchesDone' = Len(requirements) /\ Len(requirements) <= n
      BY <1>1, <1>2, <1>3, <1>5, <2>1 DEF R!MatchesDone, n
    <3>2. QED
      BY <1>2, <1>3, <1>5, <3>1, LoopOver
  <2>2. CASE at # "match"
    <3>1. R!MatchesDone = 0 /\ R!MatchesDone' = 0
      BY <1>1, <2>2 DEF R!MatchesDone
    <3>2. QED
      BY <1>2, <3>1
  <2>3. QED
    BY <2>1, <2>2
<1>12. /\ R!AllQuoted(found, tender) /\ \A k \in DOMAIN found : R!Unmatched(found[k])
       /\ R!AllQuoted(requirements, tender) /\ R!PastIsListed(tender, found, cursor)
  BY InvNow
<1>13. QED
  BY <1>1, <1>2, <1>6, <1>7, <1>9, <1>10, <1>11, <1>12 DEF R!RulesInv

LEMMA RulesStart == R!Init => R!RulesInv
<1> SUFFICES ASSUME R!Init PROVE R!RulesInv
  OBVIOUS
<1>1. /\ tender \in Tenders /\ evidence \in Evidence
      /\ at = "extract" /\ cursor = [page |-> 1, pattern |-> 1, from |-> 1] /\ turn = 1
      /\ found = <<>> /\ requirements = <<>> /\ all_text = <<>>
  BY DEF R!Init
<1>2. R!PagesFit(tender) /\ R!PagesFit(evidence)
  BY <1>1, RulesTyped
<1>3. cursor \in CursorT /\ cursor.page = 1 /\ cursor.pattern = 1 /\ cursor.from = 1
  BY <1>1 DEF CursorT
<1>4. R!TypeOK
  BY <1>1, <1>3 DEF R!TypeOK, CursorT
<1>5. D!Listed(<<>>) /\ DOMAIN <<>> = {} /\ <<>> \in Seq(Nat)
  BY ListedEmpty, ShortSequences
<1>6. R!AllQuoted(<<>>, tender)
  BY <1>5 DEF R!AllQuoted, R!Listed, D!Listed
<1>7. R!PastIsListed(tender, <<>>, cursor)
  <2>1. ASSUME NEW p \in DOMAIN tender, NEW n \in DOMAIN Patterns, NEW b \in DOMAIN Patterns[n].words,
               NEW j \in R!FoundAt(Patterns[n].words[b], tender[p].text)
        PROVE  ~R!Past(cursor, p, n, j)
    <3>1. /\ n \in Nat /\ n >= 1 /\ p \in Nat /\ p >= 1
          /\ Patterns[n].words[b] \in Seq(Nat) /\ tender[p].text \in Seq(Nat)
      BY <1>2, RulesTyped, PagesTyped, ListedShape
    <3>2. j \in Nat /\ j >= 1
      BY <3>1, FoundIs
    <3>3. QED
      BY <1>3, <3>1, <3>2 DEF R!Past
  <2>2. QED
    BY <2>1 DEF R!PastIsListed
<1>8. R!KeysKept(<<>>, <<>>, 0) /\ R!CitedUpTo(<<>>, evidence, 0)
  BY <1>5 DEF R!KeysKept, R!CitedUpTo
<1>9. R!PagesJoined(<<>>, evidence, 0)
  <2>1. \A i \in DOMAIN evidence : ~(i <= 0)
    BY <1>2, PagesTyped, ListedShape
  <2>2. QED
    BY <1>5, <2>1 DEF R!PagesJoined
<1>10. R!Deduplicated = 0 /\ R!PagesDone = 0 /\ R!MatchesDone = 0
  BY <1>1 DEF R!Deduplicated, R!PagesDone, R!MatchesDone
<1>11. \A k \in DOMAIN <<>> : R!Unmatched(<<>>[k])
  BY <1>5
<1> DEFINE none == <<>>
<1>12. found = none /\ requirements = none /\ all_text = none
  BY <1>1
<1>13. /\ R!AllQuoted(none, tender) /\ R!PastIsListed(tender, none, cursor)
       /\ R!KeysKept(none, none, 0) /\ R!CitedUpTo(none, evidence, 0)
       /\ R!PagesJoined(none, evidence, 0) /\ \A k \in DOMAIN none : R!Unmatched(none[k])
  BY <1>6, <1>7, <1>8, <1>9, <1>11
<1> HIDE DEF none
<1>14. at = "extract"
  BY <1>1
<1>15. QED
  BY <1>1, <1>4, <1>10, <1>12, <1>13, <1>14 DEF R!RulesInv

LEMMA RulesStep == R!RulesInv /\ [R!Next]_(R!vars) => R!RulesInv'
<1> SUFFICES ASSUME R!RulesInv, [R!Next]_(R!vars) PROVE R!RulesInv'
  OBVIOUS
<1>1. CASE R!Next
  BY <1>1, FindMatchKeeps, NextPatternKeeps, NextPageKeeps, DeduplicateKeeps, JoinKeeps,
     MatchEvidenceKeeps, NextLoopKeeps DEF R!Next
<1>2. CASE UNCHANGED R!vars
  <2>1. /\ tender' = tender /\ evidence' = evidence /\ at' = at /\ cursor' = cursor /\ turn' = turn
        /\ found' = found /\ requirements' = requirements /\ all_text' = all_text
    BY <1>2 DEF R!vars
  <2>2. /\ R!Deduplicated' = R!Deduplicated /\ R!PagesDone' = R!PagesDone
        /\ R!MatchesDone' = R!MatchesDone /\ (R!TypeOK => R!TypeOK')
    BY <2>1 DEF R!Deduplicated, R!PagesDone, R!MatchesDone, R!TypeOK
  <2>3. QED
    BY <2>1, <2>2 DEF R!RulesInv
<1>3. QED
  BY <1>1, <1>2

LEMMA RulesComposed == Spec => R!Spec
<1>1. Init => R!Init
  BY DEF Init
<1>2. [Next]_vars => [R!Next]_(R!vars)
  BY DEF Next, vars, rvars, R!vars
<1>3. QED
  BY <1>1, <1>2, PTL DEF Spec, R!Spec

\* Requirements with the same key list the same.
LEMMA KeyLists ==
    ASSUME NEW r, NEW m, R!Key(m) = R!Key(r)
    PROVE  m.label = r.label /\ m.page = r.page /\ m.quote = r.quote
<1>1. <<m.category, m.label, m.quote, m.page>> = <<r.category, r.label, r.quote, r.page>>
  BY DEF R!Key
<1>2. \A a, b, c, d, e, f, g, h : <<a, b, c, d>> = <<e, f, g, h>> => b = f /\ c = g /\ d = h
  OBVIOUS
<1>3. QED
  BY <1>1, <1>2

LEMMA NothingLost == R!RulesInv => R!NoFindingLost
<1> SUFFICES ASSUME R!RulesInv, at \notin {"extract", "deduplicate"} PROVE R!NoFindingLost
  BY DEF R!NoFindingLost
<1>1. /\ cursor.page > Len(tender) /\ R!PagesFit(tender) /\ cursor \in CursorT
      /\ R!PastIsListed(tender, found, cursor)
  BY InvNow
<1>2. R!KeysKept(found, requirements, Len(found))
  BY InvNow DEF R!Deduplicated
<1>3. /\ DOMAIN found = 1..Len(found) /\ Len(found) \in Nat
      /\ \A k \in DOMAIN requirements : R!Quoted(requirements[k], tender)
  BY InvNow, AllListed
<1>4. ASSUME NEW p \in DOMAIN tender, NEW n \in DOMAIN Patterns, NEW a \in DOMAIN Patterns[n].words,
             R!Has(tender[p].text, Patterns[n].words[a])
      PROVE  R!Lists(requirements, Patterns[n].label, p, Patterns[n].words[a])
  <2>1. PICK i : i \in R!FoundAt(Patterns[n].words[a], tender[p].text)
    BY <1>4 DEF R!Has
  <2>2. p < cursor.page
    BY <1>1, CursorTyped, PagesTyped, ListedShape
  <2>3. R!Past(cursor, p, n, i)
    BY <2>2 DEF R!Past
  <2>4. R!Lists(found, Patterns[n].label, p, Patterns[n].words[a])
    BY <1>1, <2>1, <2>3 DEF R!PastIsListed
  <2>5. PICK k \in DOMAIN found :
           /\ found[k].label = Patterns[n].label /\ found[k].page = p
           /\ R!Has(R!Compact(found[k].quote), R!Compact(Patterns[n].words[a]))
    BY <2>4 DEF R!Lists
  <2>6. PICK m \in DOMAIN requirements : R!Key(requirements[m]) = R!Key(found[k])
    BY <1>2, <1>3 DEF R!KeysKept
  <2>7. /\ requirements[m].label = found[k].label /\ requirements[m].page = found[k].page
        /\ requirements[m].quote = found[k].quote
    BY <2>6, KeyLists
  <2>8. QED
    BY <2>5, <2>7 DEF R!Lists
<1>5. \A k, m \in DOMAIN requirements : k # m => R!Key(requirements[k]) # R!Key(requirements[m])
  BY <1>2 DEF R!KeysKept
<1>6. QED
  BY <1>3, <1>4, <1>5 DEF R!NoFindingLost

LEMMA CitationsHold == R!RulesInv => R!CitationStands
<1> SUFFICES ASSUME R!RulesInv, at = "done", evidence # <<>>, NEW k \in DOMAIN requirements
             PROVE  R!Cited(requirements[k], evidence)
  BY DEF R!CitationStands
<1>1. R!CitedUpTo(requirements, evidence, Len(requirements))
  BY InvNow DEF R!MatchesDone
<1>2. k <= Len(requirements)
  BY InvNow, AllListed
<1>3. QED
  BY <1>1, <1>2 DEF R!CitedUpTo

\* Whatever the pages, patterns and terms: extract_requirements and _deduplicate (rules.py) list
\* every text a pattern matches, under its label and with a quote that has it, once; and
\* match_evidence calls a requirement matched exactly when a page that could be read mentions
\* one of its terms, and then cites such a page.
THEOREM FindingsAreKept == Spec => []FindingsStand
<1>1. R!RulesInv => FindingsStand
  BY NothingLost, CitationsHold DEF FindingsStand, R!FindingsStand
<1>2. QED
  BY <1>1, RulesComposed, RulesStart, RulesStep, PTL DEF R!Spec

=============================================================================
