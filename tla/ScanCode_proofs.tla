--------------------------- MODULE ScanCode_proofs ---------------------------
(***************************************************************************)
(* For every payload, not the four that TLC prints: what the bytes, the    *)
(* trimming and the printed code make of it.                               *)
(*                                                                         *)
(* Lengths appear as PICKed constants (m = 2, n = 20) where a lemma about  *)
(* any length is used: the provers find its instance by their names.       *)
(***************************************************************************)
EXTENDS ScanCode, SequenceTheorems, FiniteSetTheorems, TLAPS

-----------------------------------------------------------------------------
(* Trimming.                                                               *)

\* A set of naturals that is not empty has a least element.
LEMMA LeastNatural ==
    ASSUME NEW T \in SUBSET Nat, T # {}
    PROVE  \E n \in T : \A m \in T : n <= m
<1> DEFINE R == OpToRel(<, Nat)
<1>1. ASSUME NEW m \in Nat, NEW n \in Nat, m < n PROVE <<m, n>> \in R
    BY <1>1 DEF OpToRel
<1>2. IsWellFoundedOn(R, Nat)
    BY NatLessThanWellFounded
<1> HIDE DEF R
<1>3. PICK n \in T : \A m \in T : <<m, n>> \notin R
    BY <1>2, WFMin
<1>4. ASSUME NEW m \in T PROVE n <= m
  <2>1. m \in Nat /\ n \in Nat /\ ~(m < n)
      BY <1>1, <1>3
  <2> QED
      BY <2>1
<1> QED
    BY <1>4

\* KikCodes.decode returns the payload up to its last byte that is not zero.
LEMMA TrimmedAt ==
    ASSUME NEW bytes \in Seq(Byte)
    PROVE  \E n \in 0..Len(bytes) :
              /\ Trimmed(bytes) = SubSeq(bytes, 1, n)
              /\ n = 0 \/ bytes[n] # 0
              /\ \A i \in (n + 1)..Len(bytes) : bytes[i] = 0
<1> DEFINE Ends(n) == /\ n = 0 \/ bytes[n] # 0
                      /\ \A i \in (n + 1)..Len(bytes) : bytes[i] = 0
           T == {n \in 0..Len(bytes) : \A i \in (n + 1)..Len(bytes) : bytes[i] = 0}
<1>1. T \in SUBSET Nat /\ Len(bytes) \in T
    OBVIOUS
<1>2. PICK n \in T : \A m \in T : n <= m
    BY <1>1, LeastNatural
<1>3. n = 0 \/ bytes[n] # 0
  <2> SUFFICES ASSUME n # 0, bytes[n] = 0 PROVE FALSE
      OBVIOUS
  <2>1. n - 1 \in 0..Len(bytes) /\ ~(n <= n - 1)
      BY <1>2
  <2>2. \A i \in ((n - 1) + 1)..Len(bytes) : i = n \/ i \in (n + 1)..Len(bytes)
      BY <1>2
  <2>3. n - 1 \in T
      BY <1>2, <2>1, <2>2
  <2> QED
      BY <1>2, <2>1, <2>3
<1>4. \E k \in 0..Len(bytes) : Ends(k)
    BY <1>2, <1>3
<1>5. /\ (CHOOSE k \in 0..Len(bytes) : Ends(k)) \in 0..Len(bytes)
      /\ Ends(CHOOSE k \in 0..Len(bytes) : Ends(k))
    BY <1>4
<1> QED
    BY <1>5 DEF Trimmed

\* A payload whose last byte is not zero comes back whole.
LEMMA TrimmedWhole ==
    ASSUME NEW bytes \in Seq(Byte), Len(bytes) = PAYLOAD
    PROVE  /\ bytes[PAYLOAD] # 0 => Trimmed(bytes) = bytes
           /\ bytes[PAYLOAD] = 0 =>
                \E n \in 0..(PAYLOAD - 1) : Trimmed(bytes) = SubSeq(bytes, 1, n)
<1>1. PICK n \in 0..Len(bytes) :
              /\ Trimmed(bytes) = SubSeq(bytes, 1, n)
              /\ n = 0 \/ bytes[n] # 0
              /\ \A i \in (n + 1)..Len(bytes) : bytes[i] = 0
    BY TrimmedAt
<1>2. CASE bytes[PAYLOAD] # 0
  <2>1. n = Len(bytes)
      BY <1>1, <1>2 DEF PAYLOAD
  <2> QED
      BY <1>1, <1>2, <2>1, SubSeqFull
<1>3. CASE bytes[PAYLOAD] = 0
  <2>1. n # PAYLOAD
      BY <1>1, <1>3 DEF PAYLOAD
  <2>2. n \in 0..(PAYLOAD - 1)
      BY <1>1, <2>1 DEF PAYLOAD
  <2> QED
      BY <1>1, <1>3, <2>2
<1> QED
    BY <1>2, <1>3

-----------------------------------------------------------------------------
(* The payload's bytes.                                                    *)

CashPayloads ==
    {p \in [kind : {0, 1}, currency : Currencies, amount : Bytes(8),
            nonce : Bytes(10)] : p.amount[8] = 0}
TipPayloads == [kind : {TipKind}, user : Bytes(16)]

\* n bytes are a sequence of length n.
LEMMA BytesAreSeq ==
    ASSUME NEW n \in Nat, NEW s \in Bytes(n)
    PROVE  s \in Seq(Byte) /\ Len(s) = n
    BY DEF Bytes

LEMMA SeqIsBytes ==
    ASSUME NEW s \in Seq(Byte)
    PROVE  Len(s) \in Nat /\ s \in Bytes(Len(s))
    BY DEF Bytes

\* What \o and SubSeq make of bytes, index by index.  The names keep the provers
\* from rewriting the sequences themselves.
Glue(s, t) == s \o t
Cut(s, lo, hi) == SubSeq(s, lo, hi)

LEMMA GlueAt ==
    ASSUME NEW m \in Nat, NEW n \in Nat, NEW s \in Bytes(m), NEW t \in Bytes(n)
    PROVE  /\ Glue(s, t) \in Bytes(m + n)
           /\ \A i \in 1..m : Glue(s, t)[i] = s[i]
           /\ \A i \in (m + 1)..(m + n) : Glue(s, t)[i] = t[i - m]
<1>1. s \in Seq(Byte) /\ t \in Seq(Byte)
    BY BytesAreSeq
<1>2. /\ Glue(s, t) \in Seq(Byte) /\ Len(Glue(s, t)) = Len(s) + Len(t)
      /\ \A i \in 1..(Len(s) + Len(t)) :
            Glue(s, t)[i] = IF i <= Len(s) THEN s[i] ELSE t[i - Len(s)]
    BY <1>1, ConcatProperties DEF Glue
<1>3. Len(s) = m /\ Len(t) = n
    BY BytesAreSeq
<1>4. Glue(s, t) \in Bytes(Len(Glue(s, t))) /\ Len(Glue(s, t)) = m + n
    BY <1>2, <1>3, SeqIsBytes
<1>5. \A i \in 1..m : Glue(s, t)[i] = s[i]
    BY <1>2, <1>3
<1>6. \A i \in (m + 1)..(m + n) : Glue(s, t)[i] = t[i - m]
    BY <1>2, <1>3
<1> QED
    BY <1>4, <1>5, <1>6

LEMMA CutAt ==
    ASSUME NEW n \in Nat, NEW s \in Bytes(n), NEW a \in Nat, NEW k \in Nat,
           a + k <= n
    PROVE  /\ Cut(s, a + 1, a + k) \in Bytes(k)
           /\ \A i \in 1..k : Cut(s, a + 1, a + k)[i] = s[a + i]
<1> DEFINE r == Cut(s, a + 1, a + k)
<1>1. \A i \in (a + 1)..(a + k) : s[i] \in Byte
    BY DEF Bytes
<1>2. /\ r \in Seq(Byte)
      /\ Len(r) = IF a + 1 <= a + k THEN a + k - (a + 1) + 1 ELSE 0
      /\ \A i \in 1..(a + k - (a + 1) + 1) : r[i] = s[a + 1 + i - 1]
    BY <1>1, SubSeqProperties DEF Cut
<1> HIDE DEF r
<1>3. Len(r) = k
    BY <1>2
<1>4. r \in Bytes(k)
    BY <1>2, <1>3, SeqIsBytes
<1>5. ASSUME NEW i \in 1..k PROVE r[i] = s[a + i]
  <2>1. i \in 1..(a + k - (a + 1) + 1) /\ a + 1 + i - 1 = a + i
      OBVIOUS
  <2> QED
      BY <1>2, <2>1
<1> QED
    BY <1>4, <1>5 DEF r

\* Bytes that agree at every index are the same.
LEMMA SameBytes ==
    ASSUME NEW n \in Nat, NEW s \in Bytes(n), NEW t \in Bytes(n),
           \A i \in 1..n : t[i] = s[i]
    PROVE  t = s
    BY DEF Bytes

\* What is glued together can be cut out again.
LEMMA CutOfGlue ==
    ASSUME NEW m \in Nat, NEW n \in Nat, NEW s \in Bytes(m), NEW t \in Bytes(n)
    PROVE  /\ Cut(Glue(s, t), 1, m) = s
           /\ Cut(Glue(s, t), m + 1, m + n) = t
<1> DEFINE r == Glue(s, t)
<1>1. /\ r \in Bytes(m + n)
      /\ \A i \in 1..m : r[i] = s[i]
      /\ \A i \in (m + 1)..(m + n) : r[i] = t[i - m]
    BY GlueAt
<1> HIDE DEF r
<1>2. Cut(r, 1, m) = s
  <2>1. PICK a \in Nat : a = 0
      OBVIOUS
  <2>2. a + m <= m + n
      BY <2>1
  <2>3. /\ Cut(r, a + 1, a + m) \in Bytes(m)
        /\ \A i \in 1..m : Cut(r, a + 1, a + m)[i] = r[a + i]
      BY <1>1, <2>2, CutAt
  <2>4. \A i \in 1..m : s[i] = Cut(r, 1, m)[i]
      BY <1>1, <2>1, <2>3
  <2>5. Cut(r, 1, m) \in Bytes(m)
      BY <2>1, <2>3
  <2> QED
      BY <2>4, <2>5, SameBytes
<1>3. Cut(r, m + 1, m + n) = t
  <2> DEFINE cut == Cut(r, m + 1, m + n)
  <2>1. cut \in Bytes(n) /\ \A i \in 1..n : cut[i] = r[m + i]
      BY <1>1, CutAt
  <2> HIDE DEF cut
  <2>2. \A i \in 1..n : m + i \in (m + 1)..(m + n) /\ (m + i) - m = i
      OBVIOUS
  <2>3. \A i \in 1..n : t[i] = cut[i]
      BY <1>1, <2>1, <2>2
  <2>4. cut = t
      BY <2>1, <2>3, SameBytes
  <2> QED
      BY <2>4 DEF cut
<1> QED
    BY <1>2, <1>3 DEF r

\* Three parts, one after the other.
LEMMA ThreeParts ==
    ASSUME NEW m \in Nat, NEW n \in Nat, NEW k \in Nat,
           NEW s \in Bytes(m), NEW t \in Bytes(n), NEW u \in Bytes(k)
    PROVE  /\ Glue(Glue(s, t), u) \in Bytes(m + n + k)
           /\ \A i \in 1..m : Glue(Glue(s, t), u)[i] = s[i]
           /\ \A i \in (m + n + 1)..(m + n + k) : Glue(Glue(s, t), u)[i] = u[i - (m + n)]
           /\ Cut(Glue(Glue(s, t), u), m + 1, m + n) = t
           /\ Cut(Glue(Glue(s, t), u), m + n + 1, m + n + k) = u
<1> DEFINE front == Glue(s, t)
           b == Glue(front, u)
<1>1. /\ front \in Bytes(m + n)
      /\ \A i \in 1..m : front[i] = s[i]
      /\ \A i \in (m + 1)..(m + n) : front[i] = t[i - m]
    BY GlueAt
<1> HIDE DEF front
<1>2. m + n \in Nat
    OBVIOUS
<1>3. /\ b \in Bytes(m + n + k)
      /\ \A i \in 1..(m + n) : b[i] = front[i]
      /\ \A i \in (m + n + 1)..(m + n + k) : b[i] = u[i - (m + n)]
    BY <1>1, <1>2, GlueAt
<1>4. Cut(b, m + n + 1, m + n + k) = u
    BY <1>1, <1>2, CutOfGlue
<1> HIDE DEF b
<1>5. \A i \in 1..m : b[i] = s[i]
    BY <1>1, <1>3
<1>6. Cut(b, m + 1, m + n) = t
  <2> DEFINE cut == Cut(b, m + 1, m + n)
  <2>1. m + n + k \in Nat /\ m + n <= m + n + k
      OBVIOUS
  <2>2. cut \in Bytes(n) /\ \A i \in 1..n : cut[i] = b[m + i]
      BY <1>3, <2>1, CutAt
  <2> HIDE DEF cut
  <2>3. \A i \in 1..n : /\ m + i \in (m + 1)..(m + n)
                         /\ m + i \in 1..(m + n)
                         /\ (m + i) - m = i
      OBVIOUS
  <2>4. \A i \in 1..n : t[i] = cut[i]
      BY <1>1, <1>3, <2>2, <2>3
  <2>5. cut = t
      BY <2>2, <2>4, SameBytes
  <2> QED
      BY <2>5 DEF cut
<1>7. b = Glue(Glue(s, t), u)
    BY DEF b, front
<1> QED
    BY <1>3, <1>4, <1>5, <1>6, <1>7

LEMMA TipBytes ==
    ASSUME NEW p \in TipPayloads
    PROVE  /\ PayloadBytes(p) \in Bytes(20)
           /\ PayloadBytes(p)[1] = TipKind /\ PayloadBytes(p)[20] # 0
           /\ SubSeq(PayloadBytes(p), 2, 17) = p.user
<1> DEFINE head == <<TipKind>>
           tail == <<1, 2, 3>>
           user == p.user
           b == Glue(Glue(head, user), tail)
<1>1. user \in Bytes(16) /\ p.kind = TipKind
    BY DEF TipPayloads
<1>2. PayloadBytes(p) = b
    BY <1>1 DEF PayloadBytes, IsCash, TipKind, Glue
<1>3. /\ head \in Bytes(1) /\ head[1] = TipKind
      /\ tail \in Bytes(3) /\ tail[3] = 3
    BY DEF Byte, TipKind, Bytes
<1> HIDE DEF head, tail, user
<1>4. PICK m \in Nat, n \in Nat, k \in Nat : m = 1 /\ n = 16 /\ k = 3
    OBVIOUS
<1>5. head \in Bytes(m) /\ user \in Bytes(n) /\ tail \in Bytes(k)
    BY <1>1, <1>3, <1>4
<1>6. /\ b \in Bytes(m + n + k)
      /\ \A i \in 1..m : b[i] = head[i]
      /\ \A i \in (m + n + 1)..(m + n + k) : b[i] = tail[i - (m + n)]
      /\ Cut(b, m + 1, m + n) = user
  <2>1. b \in Bytes(m + n + k) /\ Cut(b, m + 1, m + n) = user
      BY <1>5, ThreeParts
  <2>2. \A i \in 1..m : b[i] = head[i]
      BY <1>5, ThreeParts
  <2>3. \A i \in (m + n + 1)..(m + n + k) : b[i] = tail[i - (m + n)]
      BY <1>5, ThreeParts
  <2> HIDE DEF b
  <2> QED
      BY <2>1, <2>2, <2>3
<1> HIDE DEF b
<1>7. b \in Bytes(20) /\ Cut(b, 2, 17) = user
    BY <1>4, <1>6
<1>8. b[1] = TipKind
    BY <1>3, <1>4, <1>6
<1>9. b[20] = 3
    BY <1>3, <1>4, <1>6
<1> QED
    BY <1>2, <1>7, <1>8, <1>9 DEF Cut, user

\* The eighth byte of a bill's amount is zero: seven bytes and a zero are the amount.
LEMMA AmountBytes ==
    ASSUME NEW amount \in Bytes(8), amount[8] = 0
    PROVE  SubSeq(amount, 1, 7) \in Bytes(7) /\ SubSeq(amount, 1, 7) \o <<0>> = amount
<1> DEFINE zero == <<0>>
<1>1. zero \in Bytes(1) /\ zero[1] = 0
    BY DEF Bytes, Byte
<1> HIDE DEF zero
<1>2. PICK a \in Nat, m \in Nat, n \in Nat, k \in Nat : a = 0 /\ m = 7 /\ n = 1 /\ k = 8
    OBVIOUS
<1>3. amount \in Bytes(k) /\ zero \in Bytes(n) /\ a + m <= k
    BY <1>1, <1>2
<1> DEFINE cut == Cut(amount, a + 1, a + m)
<1>4. cut \in Bytes(m) /\ \A i \in 1..m : cut[i] = amount[a + i]
    BY <1>3, CutAt
<1>5. cut = Cut(amount, 1, 7)
    BY <1>2
<1> HIDE DEF cut
<1> DEFINE glued == Glue(cut, zero)
<1>6. glued \in Bytes(m + n)
    BY <1>3, <1>4, GlueAt
<1>7. \A i \in 1..m : glued[i] = cut[i]
    BY <1>3, <1>4, GlueAt
<1>8. \A i \in (m + 1)..(m + n) : glued[i] = zero[i - m]
    BY <1>3, <1>4, GlueAt
<1> HIDE DEF glued
<1>9. \A i \in 1..8 : glued[i] = amount[i]
  <2> TAKE i \in 1..8
  <2>1. CASE i \in 1..7
      BY <1>2, <1>4, <1>7, <2>1
  <2>2. CASE i = 8
      BY <1>1, <1>2, <1>8, <2>2
  <2> QED
      BY <2>1, <2>2
<1>10. glued \in Bytes(8)
    BY <1>2, <1>6
<1>11. glued = amount
    BY <1>9, <1>10, SameBytes, 8 \in Nat
<1>12. cut \in Bytes(7)
    BY <1>2, <1>4
<1> QED
    BY <1>5, <1>11, <1>12 DEF glued, zero, Glue, Cut

LEMMA CashBytes ==
    ASSUME NEW p \in CashPayloads
    PROVE  /\ PayloadBytes(p) \in Bytes(20)
           /\ PayloadBytes(p)[1] = p.kind /\ PayloadBytes(p)[2] = p.currency
           /\ PayloadBytes(p)[20] = p.nonce[10]
           /\ SubSeq(PayloadBytes(p), 3, 10) = p.amount
           /\ SubSeq(PayloadBytes(p), 11, 20) = p.nonce
<1> DEFINE head == <<p.kind, p.currency>>
           amount == p.amount
           nonce == p.nonce
           b == Glue(Glue(head, amount), nonce)
<1>1. /\ p.kind \in {0, 1} /\ p.currency \in Currencies
      /\ amount \in Bytes(8) /\ amount[8] = 0 /\ nonce \in Bytes(10)
    BY DEF CashPayloads
<1>2. p.currency \in Byte /\ p.kind \in Byte
  <2>1. p.currency \in Byte
      BY <1>1, ScanCodeAssumption
  <2>2. p.kind \in Byte
      BY <1>1 DEF Byte
  <2> QED
      BY <2>1, <2>2
<1>3. head \in Bytes(2) /\ head[1] = p.kind /\ head[2] = p.currency
    BY <1>2 DEF Bytes
<1>4. PayloadBytes(p) = b
  <2> DEFINE seven == SubSeq(amount, 1, 7)
  <2>1. seven \in Bytes(7) /\ seven \o <<0>> = amount
      BY <1>1, AmountBytes
  <2>2. PayloadBytes(p) = head \o seven \o <<0>> \o nonce
      BY <1>1 DEF PayloadBytes, IsCash
  <2> HIDE DEF seven
  <2>3. head \in Seq(Byte) /\ <<0>> \in Seq(Byte)
      BY <1>2 DEF Byte
  <2> HIDE DEF head
  <2>5. seven \in Seq(Byte)
    <3>1. PICK n \in Nat : n = 7
        OBVIOUS
    <3>2. seven \in Bytes(n)
        BY <2>1, <3>1
    <3> QED
        BY <3>2, BytesAreSeq
  <2>4. (head \o seven) \o <<0>> = head \o (seven \o <<0>>)
      BY <2>3, <2>5, ConcatAssociative
  <2> QED
      BY <2>1, <2>2, <2>4 DEF Glue
<1> HIDE DEF head, amount, nonce
<1>5. PICK m \in Nat, n \in Nat, k \in Nat : m = 2 /\ n = 8 /\ k = 10
    OBVIOUS
<1>6. head \in Bytes(m) /\ amount \in Bytes(n) /\ nonce \in Bytes(k)
    BY <1>1, <1>3, <1>5
<1>7. b \in Bytes(m + n + k)
    BY <1>6, ThreeParts
<1>8. Cut(b, m + 1, m + n) = amount
    BY <1>6, ThreeParts
<1>9. Cut(b, m + n + 1, m + n + k) = nonce
    BY <1>6, ThreeParts
<1>10. \A i \in 1..m : b[i] = head[i]
    BY <1>6, ThreeParts
<1>11. \A i \in (m + n + 1)..(m + n + k) : b[i] = nonce[i - (m + n)]
    BY <1>6, ThreeParts
<1> HIDE DEF b
<1>12. b \in Bytes(20)
    BY <1>5, <1>7
<1>13. Cut(b, 3, 10) = amount /\ Cut(b, 11, 20) = nonce
    BY <1>5, <1>8, <1>9
<1>14. b[1] = p.kind /\ b[2] = p.currency
    BY <1>3, <1>5, <1>10
<1>15. b[20] = nonce[10]
    BY <1>5, <1>11
<1> QED
    BY <1>4, <1>12, <1>13, <1>14, <1>15 DEF Cut, amount, nonce

-----------------------------------------------------------------------------
(* What is read from the bytes.                                            *)

LEMMA NotEmpty ==
    ASSUME NEW n \in Nat, n > 0, NEW s \in Bytes(n)
    PROVE  s # <<>>
<1> SUFFICES ASSUME s = <<>> PROVE FALSE
    OBVIOUS
<1>1. Len(s) = 0
    OBVIOUS
<1>2. Len(s) = n
    BY BytesAreSeq
<1> QED
    BY ONLY <1>1, <1>2, n > 0, n \in Nat

LEMMA TwentyBytes ==
    ASSUME NEW b \in Bytes(20)
    PROVE  b \in Seq(Byte) /\ Len(b) = 20 /\ b # <<>>
<1>1. PICK n \in Nat : n = 20
    OBVIOUS
<1>2. b \in Bytes(n) /\ n > 0
    BY <1>1
<1>3. b \in Seq(Byte) /\ Len(b) = n
    BY <1>2, BytesAreSeq
<1>4. b # <<>>
    BY <1>2, NotEmpty
<1> QED
    BY <1>1, <1>3, <1>4

LEMMA TipReadsBack ==
    ASSUME NEW p \in TipPayloads
    PROVE  ScannedCode(Trimmed(PayloadBytes(p))) = p
<1> DEFINE b == PayloadBytes(p)
<1>1. /\ b \in Bytes(20) /\ b[1] = TipKind /\ b[20] # 0
      /\ SubSeq(b, 2, 17) = p.user
    BY TipBytes
<1> HIDE DEF b
<1>2. b \in Seq(Byte) /\ Len(b) = 20 /\ b # <<>>
    BY <1>1, TwentyBytes
<1>3. Trimmed(b) = b
    BY <1>1, <1>2, TrimmedWhole DEF PAYLOAD
<1>4. b \o Zeros(PAYLOAD - Len(b)) = b
  <2>1. PAYLOAD - Len(b) = 0
      BY <1>2 DEF PAYLOAD
  <2>2. Zeros(0) = <<>>
      BY DEF Zeros
  <2>3. b \o <<>> = b
      BY <1>2
  <2> QED
      BY <2>1, <2>2, <2>3
<1>5. ScannedCode(b) = TipPayload(SubSeq(b, 2, 17))
    BY <1>1, <1>2, <1>4 DEF ScannedCode
<1>6. TipPayload(p.user) = p
    BY DEF TipPayload, TipPayloads
<1> QED
    BY <1>1, <1>3, <1>5, <1>6 DEF b

LEMMA CashReadsBack ==
    ASSUME NEW p \in CashPayloads
    PROVE  ScannedCode(Trimmed(PayloadBytes(p))) = IF p.nonce[10] # 0 THEN p ELSE NoCode
<1> DEFINE b == PayloadBytes(p)
<1>1. /\ b \in Bytes(20) /\ b[1] = p.kind /\ b[2] = p.currency
      /\ b[20] = p.nonce[10]
      /\ SubSeq(b, 3, 10) = p.amount /\ SubSeq(b, 11, 20) = p.nonce
    BY CashBytes
<1> HIDE DEF b
<1>2. p.kind \in {0, 1} /\ p.kind # TipKind /\ p.currency \in Currencies
    BY DEF CashPayloads, TipKind
<1>3. b \in Seq(Byte) /\ Len(b) = 20 /\ b # <<>>
    BY <1>1, TwentyBytes
<1>4. CASE p.nonce[10] # 0
  <2>1. Trimmed(b) = b
      BY <1>1, <1>3, <1>4, TrimmedWhole DEF PAYLOAD
  <2>2. ScannedCode(b) = [kind |-> b[1], currency |-> b[2],
                          amount |-> SubSeq(b, 3, 10), nonce |-> SubSeq(b, 11, 20)]
      BY <1>1, <1>2, <1>3 DEF ScannedCode, PAYLOAD
  <2>3. p = [kind |-> p.kind, currency |-> p.currency, amount |-> p.amount,
             nonce |-> p.nonce]
      BY DEF CashPayloads
  <2> QED
      BY <1>1, <1>4, <2>1, <2>2, <2>3 DEF b
<1>5. CASE p.nonce[10] = 0
  <2>1. PICK n \in 0..(PAYLOAD - 1) : Trimmed(b) = SubSeq(b, 1, n)
      BY <1>1, <1>3, <1>5, TrimmedWhole DEF PAYLOAD
  <2> DEFINE data == SubSeq(b, 1, n)
  <2>2. /\ Len(data) = n
        /\ n > 0 => data[1] = b[1]
      BY <1>3, <2>1 DEF PAYLOAD
  <2> HIDE DEF data
  <2>3. data # <<>> => data[1] # TipKind /\ Len(data) # PAYLOAD
    <3>1. Len(data) # PAYLOAD
        BY <2>1, <2>2 DEF PAYLOAD
    <3>2. CASE n = 0
      <4>1. data = <<>>
          BY <1>3, <3>2 DEF data
      <4> QED
          BY <4>1
    <3>3. CASE n > 0
        BY <1>1, <1>2, <2>2, <3>1, <3>3
    <3> QED
        BY <2>1, <3>2, <3>3 DEF PAYLOAD
  <2>4. ScannedCode(data) = NoCode
      BY <2>3 DEF ScannedCode
  <2> QED
      BY <1>5, <2>1, <2>4 DEF b, data
<1> QED
    BY <1>4, <1>5

\* What the payload's own initialisers make of the bytes its encoder wrote, after
\* KikCodes.decode trimmed them: the payload, every field of it, unless the random
\* nonce of a bill ends in a zero byte, which makes the bill unreadable.
THEOREM ReadsBack ==
    ASSUME NEW p, WellFormed(p)
    PROVE  ScannedCode(Trimmed(PayloadBytes(p))) = IF Scannable(p) THEN p ELSE NoCode
<1>1. CASE p \in CashPayloads
  <2>1. Scannable(p) <=> p.nonce[10] # 0
      BY <1>1 DEF Scannable, IsCash, CashPayloads
  <2> QED
      BY <1>1, <2>1, CashReadsBack
<1>2. CASE p \in TipPayloads
  <2>1. Scannable(p)
      BY <1>2 DEF Scannable, IsCash, TipPayloads, TipKind
  <2> QED
      BY <1>2, <2>1, TipReadsBack
<1>3. p \in CashPayloads \/ p \in TipPayloads
    BY Zenon DEF WellFormed, CashPayloads, TipPayloads
<1> QED
    BY <1>1, <1>2, <1>3

-----------------------------------------------------------------------------
(* The printed code.                                                       *)

\* What is asked of the error correction: a code word is its data and its check
\* bytes, the decoder gives bytes or gives up, and up to six wrong bytes of a code
\* word's 35 are put right.
ReedSolomonCorrects ==
    /\ \A d \in Bytes(23) : /\ RSEncode(d, 12) \in Bytes(35)
                            /\ \A i \in 1..23 : RSEncode(d, 12)[i] = d[i]
    /\ \A w \in Bytes(35) : \/ RSDecode(w, 12) = Uncorrectable
                            \/ \E v \in Bytes(35) : RSDecode(w, 12) = Corrected(v)
    /\ \A d \in Bytes(23), w \in Bytes(35) :
          Cardinality({i \in 1..35 : w[i] # RSEncode(d, 12)[i]}) <= 6 =>
              RSDecode(w, 12) = Corrected(RSEncode(d, 12))

\* Misreading a byte gives a byte.
LEMMA PlusByte ==
    ASSUME NEW a \in Byte, NEW b \in Byte
    PROVE  Plus(a, b) \in Byte
<1>1. ASSUME NEW x \in 0..15, NEW y \in 0..15 PROVE Differ[<<x, y>>] \in 0..15
  <2> DEFINE Odd(w) == (Bit(x, w) + Bit(y, w)) % 2
  <2>1. \A w \in {1, 2, 4, 8} : Odd(w) \in {0, 1}
      BY DEF Bit
  <2>2. Differ[<<x, y>>] = 1 * Odd(1) + 2 * Odd(2) + 4 * Odd(4) + 8 * Odd(8)
      BY DEF Differ
  <2> HIDE DEF Odd
  <2> QED
      BY <2>1, <2>2
<1>2. a \div 16 \in 0..15 /\ b \div 16 \in 0..15 /\ a % 16 \in 0..15 /\ b % 16 \in 0..15
    BY DEF Byte
<1>3. Differ[<<a \div 16, b \div 16>>] \in 0..15 /\ Differ[<<a % 16, b % 16>>] \in 0..15
    BY <1>1, <1>2
<1> QED
    BY <1>3 DEF Plus, Byte

\* The data of a code word: the type, the colour, the payload and a spare zero.
Framed(b) == Glue(Glue(<<2, 0>>, b), <<0>>)

LEMMA FramedBytes ==
    ASSUME NEW b \in Bytes(20)
    PROVE  /\ Framed(b) \in Bytes(23) /\ Framed(b)[1] = 2
           /\ \A i \in 1..20 : Framed(b)[2 + i] = b[i]
<1> DEFINE head == <<2, 0>>
           spare == <<0>>
           d == Glue(Glue(head, b), spare)
<1>1. head \in Bytes(2) /\ head[1] = 2 /\ spare \in Bytes(1)
    BY DEF Bytes, Byte
<1>2. Framed(b) = d
    BY DEF Framed
<1> HIDE DEF head, spare
<1>3. PICK m \in Nat, n \in Nat, k \in Nat : m = 2 /\ n = 20 /\ k = 1
    OBVIOUS
<1>4. head \in Bytes(m) /\ b \in Bytes(n) /\ spare \in Bytes(k)
    BY <1>1, <1>3
<1>5. d \in Bytes(m + n + k)
    BY <1>4, ThreeParts
<1>6. \A i \in 1..m : d[i] = head[i]
    BY <1>4, ThreeParts
<1>7. Cut(d, m + 1, m + n) = b
    BY <1>4, ThreeParts
<1> HIDE DEF d
<1>8. \A i \in 1..n : Cut(d, m + 1, m + n)[i] = d[m + i]
  <2>1. m + n + k \in Nat /\ m + n <= m + n + k
      OBVIOUS
  <2> QED
      BY <1>5, <2>1, CutAt
<1>9. d \in Bytes(23) /\ d[1] = 2
    BY <1>1, <1>3, <1>5, <1>6
<1>10. \A i \in 1..20 : d[2 + i] = b[i]
    BY <1>3, <1>7, <1>8
<1> QED
    BY <1>2, <1>9, <1>10

\* The last k bytes of a code go in front, and back.
Turned(w, n) == Glue(Cut(w, n + 1, ALL), Cut(w, 1, n))

LEMMA TurnedBytes ==
    ASSUME NEW n \in 0..ALL, NEW w \in Bytes(ALL)
    PROVE  /\ Turned(w, n) \in Bytes(ALL)
           /\ \A i \in 1..(ALL - n) : Turned(w, n)[i] = w[n + i]
           /\ \A i \in (ALL - n + 1)..ALL : Turned(w, n)[i] = w[i - (ALL - n)]
<1>1. PICK o \in Nat, k \in Nat, all \in Nat : o = 0 /\ k = ALL - n /\ all = ALL
    BY DEF ALL
<1>2. /\ n \in Nat /\ w \in Bytes(all) /\ n + k = all /\ o + n <= all /\ n + k <= all
    BY <1>1 DEF ALL
<1> DEFINE last == Cut(w, n + 1, n + k)
           first == Cut(w, o + 1, o + n)
<1>3. last \in Bytes(k) /\ \A i \in 1..k : last[i] = w[n + i]
    BY <1>2, CutAt
<1>4. first \in Bytes(n) /\ \A i \in 1..n : first[i] = w[o + i]
    BY <1>2, CutAt
<1>5. last = Cut(w, n + 1, ALL) /\ first = Cut(w, 1, n)
    BY <1>1, <1>2
<1> HIDE DEF last, first
<1> DEFINE r == Glue(last, first)
<1>6. r \in Bytes(k + n)
    BY <1>2, <1>3, <1>4, GlueAt
<1>7. \A i \in 1..k : r[i] = last[i]
    BY <1>2, <1>3, <1>4, GlueAt
<1>8. \A i \in (k + 1)..(k + n) : r[i] = first[i - k]
    BY <1>2, <1>3, <1>4, GlueAt
<1> HIDE DEF r
<1>9. r = Turned(w, n)
    BY <1>5 DEF r, Turned
<1>10. r \in Bytes(ALL)
    BY <1>1, <1>2, <1>6
<1>11. \A i \in 1..(ALL - n) : r[i] = w[n + i]
    BY <1>1, <1>3, <1>7
<1>12. ASSUME NEW i \in (ALL - n + 1)..ALL PROVE r[i] = w[i - (ALL - n)]
  <2>1. i \in (k + 1)..(k + n) /\ i - k \in 1..n /\ o + (i - k) = i - (ALL - n)
      BY <1>1, <1>2 DEF ALL
  <2> QED
      BY <1>4, <1>8, <2>1
<1> QED
    BY <1>9, <1>10, <1>11, <1>12

LEMMA EncodeIsTurned ==
    ASSUME ReedSolomonCorrects, NEW b \in Bytes(20)
    PROVE  /\ RSEncode(Framed(b), 12) \in Bytes(ALL)
           /\ Encode(b) = Turned(RSEncode(Framed(b), 12), DATA)
           /\ Encode(b) \in Bytes(ALL)
<1>1. Framed(b) \in Bytes(23)
    BY FramedBytes
<1>2. RSEncode(Framed(b), 12) \in Bytes(ALL)
    BY <1>1 DEF ReedSolomonCorrects, ALL
<1>3. Encode(b) = Turned(RSEncode(Framed(b), 12), DATA)
    BY DEF Encode, Framed, Turned, Glue, Cut, ECC
<1>4. DATA \in 0..ALL
    BY DEF DATA, ALL
<1> QED
    BY <1>2, <1>3, <1>4, TurnedBytes

\* A code is turned by 22 bytes when it is drawn and by 13 when it is read: where a
\* frame agrees with the code, the word to decode agrees with the code word.
LEMMA TurnedBack ==
    ASSUME NEW word \in Bytes(ALL), NEW frm \in Bytes(ALL), NEW bad \in SUBSET (1..ALL),
           \A i \in (1..ALL) \ bad : frm[i] = Turned(word, DATA)[i]
    PROVE  Cardinality({i \in 1..ALL : Turned(frm, ECC)[i] # word[i]}) <= Cardinality(bad)
<1> DEFINE w == Turned(frm, ECC)
           code == Turned(word, DATA)
           at == [i \in 1..ALL |-> IF i <= DATA THEN ECC + i ELSE i - DATA]
           D == {i \in 1..ALL : w[i] # word[i]}
           f == [i \in D |-> at[i]]
<1>1. /\ \A i \in 1..DATA : w[i] = frm[ECC + i]
      /\ \A i \in (DATA + 1)..ALL : w[i] = frm[i - DATA]
    BY TurnedBytes, ECC \in 0..ALL, ALL - ECC = DATA DEF ALL, ECC, DATA
<1>2. /\ \A i \in 1..ECC : code[i] = word[DATA + i]
      /\ \A i \in (ECC + 1)..ALL : code[i] = word[i - ECC]
    BY TurnedBytes, DATA \in 0..ALL, ALL - DATA = ECC DEF ALL, ECC, DATA
<1> HIDE DEF w, code
<1>3. ASSUME NEW i \in 1..ALL PROVE /\ at[i] \in 1..ALL
                                    /\ w[i] = frm[at[i]] /\ word[i] = code[at[i]]
  <2>1. CASE i <= DATA
    <3>1. at[i] = ECC + i /\ i \in 1..DATA /\ ECC + i \in (ECC + 1)..ALL /\ (ECC + i) - ECC = i
        BY <2>1 DEF ALL, ECC, DATA
    <3> QED
        BY <1>1, <1>2, <3>1 DEF ECC
  <2>2. CASE i > DATA
    <3>1. /\ at[i] = i - DATA /\ i \in (DATA + 1)..ALL /\ i - DATA \in 1..ECC
          /\ DATA + (i - DATA) = i
        BY <2>2 DEF ALL, ECC, DATA
    <3> QED
        BY <1>1, <1>2, <3>1 DEF ECC, ALL
  <2> QED
      BY <2>1, <2>2 DEF DATA
<1>4. \A i, j \in 1..ALL : at[i] = at[j] => i = j
    BY DEF ALL, ECC, DATA
<1>5. \A i \in D : i \in 1..ALL /\ at[i] \in bad
    BY <1>3 DEF code
<1> HIDE DEF at, D
<1>6. f \in Injection(D, bad)
  <2>1. f \in [D -> bad]
      BY <1>5
  <2>2. \A i, j \in D : f[i] = f[j] => i = j
      BY <1>4, <1>5
  <2> HIDE DEF f
  <2> QED
      BY <2>1, <2>2 DEF Injection, IsInjective
<1> HIDE DEF f
<1>7. IsFiniteSet(bad)
  <2>1. PICK one \in Int, all \in Int : one = 1 /\ all = ALL
      BY DEF ALL
  <2>2. IsFiniteSet(one..all)
      BY FS_Interval
  <2>3. bad \in SUBSET (one..all)
      BY <2>1
  <2> QED
      BY <2>2, <2>3, FS_Subset
<1>8. Cardinality(D) <= Cardinality(bad)
    BY <1>6, <1>7, FS_Injection
<1> QED
    BY <1>8 DEF w, D

-----------------------------------------------------------------------------
(* The state machine.                                                      *)

\* The frame is the code, but for the bytes misread.
ScanInv ==
    /\ shown \in Payloads \cup {NoCode}
    /\ frame = <<>> <=> shown = NoCode
    /\ shown # NoCode =>
          /\ frame \in Bytes(ALL)
          /\ \A i \in (1..ALL) \ wrong : frame[i] = Encode(PayloadBytes(shown))[i]
    /\ wrong \subseteq 1..ALL
    /\ parsed = NotScanned \/ parsed.failed \/ Len(parsed.word) = ALL
    /\ buffer \in Bytes(PAYLOAD)
    /\ ReadsWhatIsShown

LEMMA PayloadBytesAreTwenty ==
    ASSUME NEW p \in Payloads
    PROVE  PayloadBytes(p) \in Bytes(PAYLOAD) /\ WellFormed(p) /\ p # NoCode
<1>1. WellFormed(p) /\ p # NoCode
    BY ScanCodeAssumption
<1>2. p \in CashPayloads \/ p \in TipPayloads
    BY <1>1, Zenon DEF WellFormed, CashPayloads, TipPayloads
<1> QED
    BY <1>1, <1>2, CashBytes, TipBytes DEF PAYLOAD

LEMMA InitInv ==
    Init => ScanInv
  BY DEF Init, ScanInv, ReadsWhatIsShown, NotScanned, Junk, Bytes, Byte, PAYLOAD

LEMMA ShowInv ==
    ASSUME ReedSolomonCorrects, ScanInv, NEW p \in Payloads, Show(p)
    PROVE  ScanInv'
<1>1. PayloadBytes(p) \in Bytes(20) /\ p # NoCode
    BY PayloadBytesAreTwenty DEF PAYLOAD
<1>2. Encode(PayloadBytes(p)) \in Bytes(ALL)
    BY <1>1, EncodeIsTurned
<1>3. /\ shown' = p /\ frame' = Encode(PayloadBytes(p)) /\ wrong' = {}
      /\ parsed' = NotScanned /\ buffer' = buffer
    BY DEF Show
<1>4. frame' # <<>>
    BY <1>2, <1>3, ALL \in Nat, ALL > 0, NotEmpty DEF ALL
<1>5. buffer' \in Bytes(PAYLOAD)
    BY <1>3 DEF ScanInv
<1>6. ReadsWhatIsShown'
    BY <1>3 DEF ReadsWhatIsShown
<1> QED
    BY <1>1, <1>2, <1>3, <1>4, <1>5, <1>6 DEF ScanInv

LEMMA MisreadInv ==
    ASSUME ScanInv, NEW m \in Misreads, Misread(m)
    PROVE  ScanInv'
<1>1. /\ shown # NoCode /\ parsed = NotScanned /\ wrong = {}
      /\ wrong' = {e[1] : e \in m}
      /\ shown' = shown /\ parsed' = parsed /\ read' = read /\ buffer' = buffer
    BY DEF Misread
<1>2. frame \in Bytes(ALL) /\ \A i \in 1..ALL : frame[i] = Encode(PayloadBytes(shown))[i]
    BY <1>1 DEF ScanInv
<1>3. m \subseteq (1..ALL) \X Byte
    BY ScanCodeAssumption
<1>4. wrong' \subseteq 1..ALL
    BY <1>1, <1>3
<1>5. ASSUME NEW i \in 1..ALL
      PROVE  /\ frame'[i] \in Byte
             /\ i \notin wrong' => frame'[i] = frame[i]
  <2>1. frame'[i] = IF \E e \in m : e[1] = i
                    THEN Plus(frame[i], (CHOOSE e \in m : e[1] = i)[2]) ELSE frame[i]
      BY DEF Misread
  <2>2. frame[i] \in Byte
      BY <1>2 DEF Bytes
  <2>3. CASE \E e \in m : e[1] = i
    <3> DEFINE e == CHOOSE e \in m : e[1] = i
    <3>1. e \in m /\ e[1] = i
        BY <2>3
    <3> HIDE DEF e
    <3>2. e[2] \in Byte /\ i \in wrong'
        BY <1>1, <1>3, <3>1
    <3>3. Plus(frame[i], e[2]) \in Byte
        BY <2>2, <3>2, PlusByte
    <3> QED
        BY <2>1, <2>3, <3>2, <3>3 DEF e
  <2>4. CASE ~\E e \in m : e[1] = i
      BY <2>1, <2>2, <2>4
  <2> QED
      BY <2>3, <2>4
<1>6. frame' \in Bytes(ALL)
  <2>1. frame' = [i \in 1..ALL |-> frame'[i]]
      BY DEF Misread
  <2> QED
      BY <1>5, <2>1 DEF Bytes
<1>7. frame' # <<>>
    BY <1>6, ALL \in Nat, ALL > 0, NotEmpty DEF ALL
<1>8. ReadsWhatIsShown'
    BY <1>1 DEF ReadsWhatIsShown
<1> QED
    BY <1>1, <1>2, <1>4, <1>5, <1>6, <1>7, <1>8 DEF ScanInv

LEMMA ScanStepInv ==
    ASSUME ReedSolomonCorrects, ScanInv, Scan
    PROVE  ScanInv'
<1> DEFINE b == PayloadBytes(shown)
           word == RSEncode(Framed(b), 12)
           w == Turned(frame, ECC)
<1>1. /\ shown # NoCode /\ parsed = NotScanned
      /\ parsed' = Parse(frame)
      /\ buffer' \in IF parsed'.failed THEN {buffer, Junk} ELSE {SubSeq(parsed'.word, 3, DATA)}
      /\ read' = ScannedCode(Trimmed(buffer'))
      /\ shown' = shown /\ frame' = frame /\ wrong' = wrong
    BY DEF Scan
<1>2. /\ shown \in Payloads /\ frame \in Bytes(ALL) /\ wrong \in SUBSET (1..ALL)
      /\ \A i \in (1..ALL) \ wrong : frame[i] = Encode(b)[i]
      /\ buffer \in Bytes(PAYLOAD)
    BY <1>1 DEF ScanInv
<1>3. b \in Bytes(20) /\ WellFormed(shown)
    BY <1>2, PayloadBytesAreTwenty DEF PAYLOAD
<1>4. word \in Bytes(ALL) /\ Encode(b) = Turned(word, DATA)
    BY <1>3, EncodeIsTurned
<1>5. w \in Bytes(ALL)
    BY <1>2, TurnedBytes, ECC \in 0..ALL DEF ECC, ALL
<1>6. Parse(frame) = IF \/ RSDecode(w, 12).failed
                        \/ RSDecode(w, 12).word[1] % 32 \notin {2, 3}
                     THEN Uncorrectable ELSE RSDecode(w, 12)
    BY DEF Parse, Turned, Glue, Cut, ECC
<1> HIDE DEF b, word, w
<1>7. \/ Parse(frame) = Uncorrectable
      \/ \E v \in Bytes(ALL) : Parse(frame) = Corrected(v)
  <2>1. \/ RSDecode(w, 12) = Uncorrectable
        \/ \E v \in Bytes(ALL) : RSDecode(w, 12) = Corrected(v)
      BY <1>5 DEF ReedSolomonCorrects, ALL
  <2> QED
      BY <1>6, <2>1
<1>8. parsed'.failed \/ Len(parsed'.word) = ALL
  <2>1. CASE Parse(frame) = Uncorrectable
      BY <1>1, <2>1 DEF Uncorrectable
  <2>2. ASSUME NEW v \in Bytes(ALL), Parse(frame) = Corrected(v)
        PROVE  Len(parsed'.word) = ALL
    <3>1. parsed'.word = v
        BY <1>1, <2>2 DEF Corrected
    <3>2. PICK n \in Nat : n = ALL
        BY DEF ALL
    <3>3. v \in Bytes(n)
        BY <3>2
    <3>4. Len(v) = n
        BY <3>3, BytesAreSeq
    <3> QED
        BY <3>1, <3>2, <3>4
  <2> QED
      BY <1>7, <2>1, <2>2
<1>9. buffer' \in Bytes(PAYLOAD)
  <2>1. Junk \in Bytes(PAYLOAD)
      BY DEF Junk, Bytes, Byte
  <2>2. CASE Parse(frame) = Uncorrectable
      BY <1>1, <1>2, <2>1, <2>2 DEF Uncorrectable
  <2>3. ASSUME NEW v \in Bytes(ALL), Parse(frame) = Corrected(v)
        PROVE  buffer' \in Bytes(PAYLOAD)
    <3>1. buffer' = Cut(v, 3, DATA)
        BY <1>1, <2>3 DEF Corrected, Cut
    <3>2. Cut(v, 3, DATA) \in Bytes(PAYLOAD)
      <4>1. PICK a \in Nat, k \in Nat, all \in Nat : a = 2 /\ k = 20 /\ all = 35
          OBVIOUS
      <4>2. v \in Bytes(all) /\ a + k <= all
          BY <4>1 DEF ALL
      <4>3. Cut(v, a + 1, a + k) \in Bytes(k)
          BY <4>2, CutAt
      <4> QED
          BY <4>1, <4>3 DEF DATA, PAYLOAD
    <3> QED
        BY <3>1, <3>2
  <2> QED
      BY <1>7, <2>2, <2>3
<1>10. ASSUME Cardinality(wrong) <= 6
       PROVE  read' = IF Scannable(shown) THEN shown ELSE NoCode
  <2>1. RSDecode(w, 12) = Corrected(word)
    <3>1. Cardinality({i \in 1..ALL : w[i] # word[i]}) <= Cardinality(wrong)
        BY <1>2, <1>4, TurnedBack DEF w
    <3>2. Cardinality({i \in 1..ALL : w[i] # word[i]}) <= 6
      <4>1. PICK one \in Int, all \in Int : one = 1 /\ all = ALL
          BY DEF ALL
      <4>2. IsFiniteSet(one..all)
          BY FS_Interval
      <4>3. /\ wrong \in SUBSET (one..all)
            /\ {i \in 1..ALL : w[i] # word[i]} \in SUBSET (one..all)
          BY <1>2, <4>1
      <4>4. /\ IsFiniteSet(wrong)
            /\ IsFiniteSet({i \in 1..ALL : w[i] # word[i]})
          BY <4>2, <4>3, FS_Subset
      <4>5. /\ Cardinality(wrong) \in Nat
            /\ Cardinality({i \in 1..ALL : w[i] # word[i]}) \in Nat
          BY <4>4, FS_CardinalityType
      <4> QED
          BY <1>10, <3>1, <4>5
    <3>3. Framed(b) \in Bytes(23)
        BY <1>3, FramedBytes
    <3> QED
        BY <1>5, <3>2, <3>3 DEF ReedSolomonCorrects, word, ALL
  <2>2. /\ word[1] = 2
        /\ \A i \in 1..20 : word[2 + i] = b[i]
    <3>1. /\ Framed(b) \in Bytes(23) /\ Framed(b)[1] = 2
          /\ \A i \in 1..20 : Framed(b)[2 + i] = b[i]
        BY <1>3, FramedBytes
    <3>2. \A i \in 1..23 : word[i] = Framed(b)[i]
        BY <3>1 DEF ReedSolomonCorrects, word
    <3> QED
        BY <3>1, <3>2
  <2>3. Parse(frame) = Corrected(word)
    <3>1. RSDecode(w, 12).failed = FALSE /\ RSDecode(w, 12).word = word
        BY <2>1 DEF Corrected
    <3>2. word[1] % 32 \in {2, 3}
        BY <2>2
    <3> QED
        BY <1>6, <2>1, <3>1, <3>2
  <2>4. buffer' = Cut(word, 3, DATA)
      BY <1>1, <2>3 DEF Corrected, Cut
  <2>5. Cut(word, 3, DATA) = b
    <3>1. PICK a \in Nat, k \in Nat, all \in Nat : a = 2 /\ k = 20 /\ all = 35
        OBVIOUS
    <3>2. word \in Bytes(all) /\ a + k <= all
        BY <1>4, <3>1 DEF ALL
    <3>3. /\ Cut(word, a + 1, a + k) \in Bytes(k)
          /\ \A i \in 1..k : Cut(word, a + 1, a + k)[i] = word[a + i]
        BY <3>2, CutAt
    <3>4. b \in Bytes(k) /\ \A i \in 1..k : b[i] = Cut(word, a + 1, a + k)[i]
        BY <1>3, <2>2, <3>1, <3>3
    <3>5. Cut(word, a + 1, a + k) = b
        BY <3>3, <3>4, SameBytes
    <3> QED
        BY <3>1, <3>5 DEF DATA
  <2> QED
      BY <1>1, <1>3, <2>4, <2>5, ReadsBack DEF b
<1>11. ReadsWhatIsShown'
    BY <1>1, <1>10 DEF ReadsWhatIsShown
<1> QED
    BY <1>1, <1>8, <1>9, <1>11 DEF ScanInv

LEMMA StepInv ==
    ASSUME ReedSolomonCorrects, ScanInv, [Next]_vars
    PROVE  ScanInv'
<1>1. CASE Next
    BY <1>1, ShowInv, MisreadInv, ScanStepInv DEF Next
<1>2. CASE UNCHANGED vars
    BY <1>2 DEF vars, ScanInv, ReadsWhatIsShown
<1> QED
    BY <1>1, <1>2

LEMMA ScanInvHolds ==
    ASSUME ReedSolomonCorrects
    PROVE  Spec => []ScanInv
  BY InitInv, StepInv, PTL DEF Spec

\* A frame stays the 35 bytes of a code, and the buffer that KikCodes.decode hands
\* out stays 20 bytes, whatever was misread and however often the decoder gave up.
THEOREM ScanTypeCorrect ==
    ASSUME ReedSolomonCorrects
    PROVE  Spec => []TypeOK
<1>1. ScanInv => TypeOK
  <2> SUFFICES ASSUME ScanInv PROVE TypeOK
      OBVIOUS
  <2>1. PICK twenty \in Nat, all \in Nat : twenty = PAYLOAD /\ all = ALL
      BY DEF PAYLOAD, ALL
  <2>2. buffer \in Bytes(twenty) /\ (shown # NoCode => frame \in Bytes(all))
      BY <2>1 DEF ScanInv
  <2>3. buffer \in Seq(Byte) /\ Len(buffer) = twenty
      BY <2>2, BytesAreSeq
  <2>4. shown # NoCode => frame \in Seq(Byte) /\ Len(frame) = all
      BY <2>2, BytesAreSeq
  <2> QED
      BY <2>1, <2>3, <2>4 DEF ScanInv, TypeOK
<1> QED
    BY <1>1, ScanInvHolds, PTL

\* For every payload, and every way of misreading at most six of the code's bytes:
\* KikCode::encode's turning of the code word, the scanner's turning it back, the type
\* and colour in front, the trimming and the payload's own initialisers lose nothing,
\* the result that KikCodes.decode ignores cannot matter, and only a bill whose
\* nonce ends in a zero byte is not read.
THEOREM ReadsTheCode ==
    ASSUME ReedSolomonCorrects
    PROVE  Spec => []ReadsWhatIsShown
<1>1. ScanInv => ReadsWhatIsShown
    BY DEF ScanInv
<1> QED
    BY <1>1, ScanInvHolds, PTL
=============================================================================
