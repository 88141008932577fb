------------------------- MODULE OptionCodecs_proofs -------------------------
(***************************************************************************)
(* What the two ends of an exchange make of the same bytes, for options,   *)
(* identifiers, payloads and VSS information of every length, and for      *)
(* every way in which a header is damaged: the types, the round trip of    *)
(* the SMF_DPD option, the keys of the DPD cache and virtual subnet        *)
(* selection.                                                              *)
(*                                                                         *)
(* The facts about the operators come first: the flags byte, encode and    *)
(* decode; the loop of check_server_support, whose recursive function is   *)
(* shown to say that there is a set of positions which the scan does not   *)
(* leave and at none of which it meets VSS-Control (Scan); vss::extract;   *)
(* the keys.  The inductive invariant, CodecInv, then says what the bytes  *)
(* on the wire were made of.                                               *)
(***************************************************************************)
EXTENDS OptionCodecs, FiniteSetTheorems, SequenceTheorems, WellFoundedInduction,
        TLAPS

-----------------------------------------------------------------------------
(* Bytes and sequences *)

\* encode's arithmetic on the first byte is undone by decode's, as long as the
\* type of the tagger id fits two bits and its length five.
LEMMA FlagsDecode ==
  ASSUME NEW t \in 0..3, NEW l \in 0..31, NEW h \in {0, 128}
  PROVE  LET f == ((t * 32) % 256) + (l % 32) + h
         IN  f \in Byte /\ f % 32 = l /\ (f \div 32) % 4 = t /\ (f >= 128 <=> h = 128)
  BY DEF Byte

\* decode's arithmetic on the first byte is undone by encode's, for every byte.
LEMMA FlagsEncode ==
  ASSUME NEW f \in Byte
  PROVE  LET low == ((((f \div 32) % 4) * 32) % 256) + ((f % 32) % 32)
         IN  low \in 0..127 /\ f = IF f >= 128 THEN low + 128 ELSE low
  BY DEF Byte

\* The flags byte of an option, and what can be read off it again.
LEMMA FlagsOf ==
  ASSUME NEW o, IsOption(o)
  PROVE  /\ Flags(o) \in Byte
         /\ o.tid_type < 4 /\ o.tid_len < 32 =>
              /\ Flags(o) % 32 = o.tid_len
              /\ (Flags(o) \div 32) % 4 = o.tid_type
              /\ Flags(o) >= 128 <=> o.h_bit
<1>1. o.tid_type \in Byte /\ o.tid_len \in Byte /\ o.h_bit \in BOOLEAN
  BY DEF IsOption
<1>2. Flags(o) \in Byte
  <2> DEFINE low == ((o.tid_type * 32) % 256) + (o.tid_len % 32)
  <2>1. (o.tid_type * 32) % 256 \in {32 * k : k \in 0..7}
    BY <1>1 DEF Byte
  <2>2. o.tid_len % 32 \in 0..31
    BY <1>1 DEF Byte
  <2>3. low \in Byte
    BY <2>1, <2>2 DEF Byte
  <2>4. Flags(o) = IF o.h_bit /\ low < 128 THEN low + 128 ELSE low
    BY DEF Flags
  <2> HIDE DEF low
  <2> QED
    BY <2>3, <2>4 DEF Byte
<1>3. ASSUME o.tid_type < 4, o.tid_len < 32
      PROVE  /\ Flags(o) % 32 = o.tid_len
             /\ (Flags(o) \div 32) % 4 = o.tid_type
             /\ Flags(o) >= 128 <=> o.h_bit
  <2>1. o.tid_type \in 0..3 /\ o.tid_len \in 0..31
    BY <1>1, <1>3 DEF Byte
  <2>2. ((o.tid_type * 32) % 256) + (o.tid_len % 32) < 128
    BY <2>1
  <2>3. CASE o.h_bit
    <3>1. Flags(o) = ((o.tid_type * 32) % 256) + (o.tid_len % 32) + 128
      BY <2>2, <2>3 DEF Flags
    <3> QED
      BY <2>1, <2>3, <3>1, FlagsDecode
  <2>4. CASE ~o.h_bit
    <3>1. Flags(o) = ((o.tid_type * 32) % 256) + (o.tid_len % 32) + 0
      BY <2>1, <2>4 DEF Flags
    <3> QED
      BY <2>1, <2>4, <3>1, FlagsDecode
  <2> QED
    BY <2>3, <2>4
<1> QED
  BY <1>2, <1>3

\* The bytes of a tagger id.
LEMMA TaggerBytes ==
  /\ BytesOf({}) = <<>>
  /\ \A b : BytesOf({b}) = b
  BY DEF BytesOf

\* The parts of an option that encode writes are bytes.
LEMMA OptionParts ==
  ASSUME NEW o, IsOption(o)
  PROVE  /\ BytesOf(o.tagger_id) \in Seq(Byte) /\ o.identifier \in Seq(Byte)
         /\ Len(o.identifier) \in Nat /\ o.tid_len \in Byte
         /\ OptDataLen(o) \in Nat
<1>1. o.tagger_id \in SUBSET Seq(Byte) /\ o.identifier \in Seq(Byte)
      /\ o.tid_len \in Byte
  BY DEF IsOption
<1>2. BytesOf(o.tagger_id) \in Seq(Byte)
  <2>1. CASE o.tagger_id = {}
    BY <2>1, TaggerBytes, EmptySeq
  <2>2. CASE o.tagger_id # {}
    BY <1>1, <2>2 DEF BytesOf
  <2> QED
    BY <2>1, <2>2
<1>3. Len(o.identifier) \in Nat
  BY <1>1, LenProperties
<1>4. o.tid_len \in Nat
  <2>1. o.tid_len \in Byte
    BY <1>1
  <2> QED
    BY <2>1 DEF Byte
<1> QED
  BY <1>1, <1>2, <1>3, <1>4 DEF OptDataLen

\* The data of an option: the flags, the tagger id and the identifier.
Data(o) == <<Flags(o)>> \o (BytesOf(o.tagger_id) \o o.identifier)

\* What follows the length: the flags, the tagger id, the identifier.
LEMMA DataFacts ==
  ASSUME NEW o, IsOption(o)
  PROVE  LET t == BytesOf(o.tagger_id)
             d == Data(o)
         IN  /\ d \in Seq(Byte)
             /\ Len(d) = 1 + Len(t) + Len(o.identifier)
             /\ d[1] = Flags(o)
             /\ \A k \in 1..Len(t) : d[k + 1] = t[k]
             /\ \A k \in 1..Len(o.identifier) :
                  d[k + 1 + Len(t)] = o.identifier[k]
<1> DEFINE t == BytesOf(o.tagger_id)
           d == Data(o)
           r == t \o o.identifier
           f == <<Flags(o)>>
<1>1. t \in Seq(Byte) /\ o.identifier \in Seq(Byte) /\ Flags(o) \in Byte
  BY OptionParts, FlagsOf
<1>2. /\ r \in Seq(Byte) /\ Len(r) = Len(t) + Len(o.identifier)
      /\ \A i \in 1 .. Len(t) + Len(o.identifier) :
           r[i] = IF i <= Len(t) THEN t[i] ELSE o.identifier[i - Len(t)]
  BY <1>1, ConcatProperties
<1>3. f \in Seq(Byte) /\ Len(f) = 1 /\ f[1] = Flags(o)
  BY <1>1
<1>4. d = f \o r
  BY DEF Data
<1> HIDE DEF f, r, t, d
<1>5. /\ d \in Seq(Byte) /\ Len(d) = 1 + Len(r)
      /\ \A i \in 1 .. 1 + Len(r) : d[i] = IF i <= 1 THEN f[i] ELSE r[i - 1]
  <2>1. f \in Seq(Byte) /\ r \in Seq(Byte)
    BY <1>2, <1>3
  <2>2. /\ f \o r \in Seq(Byte) /\ Len(f \o r) = Len(f) + Len(r)
        /\ \A i \in 1 .. Len(f) + Len(r) :
             (f \o r)[i] = IF i <= Len(f) THEN f[i] ELSE r[i - Len(f)]
    BY <2>1, ConcatProperties
  <2>3. Len(f) = 1
    BY <1>3
  <2> QED
    BY <1>4, <2>2, <2>3
<1>6. Len(t) \in Nat /\ Len(o.identifier) \in Nat /\ Len(r) \in Nat
  BY <1>1, <1>2, LenProperties
<1>7. d[1] = Flags(o)
  BY <1>3, <1>5, <1>6
<1>8. ASSUME NEW k \in 1..Len(t) PROVE d[k + 1] = t[k]
  <2>1. d[k + 1] = r[(k + 1) - 1] /\ (k + 1) - 1 = k
    BY <1>2, <1>5, <1>6
  <2> QED
    BY <1>2, <1>6, <2>1
<1>9. ASSUME NEW k \in 1..Len(o.identifier)
      PROVE  d[k + 1 + Len(t)] = o.identifier[k]
  <2>1. k + 1 + Len(t) \in 1 .. 1 + Len(r) /\ ~(k + 1 + Len(t) <= 1)
        /\ (k + 1 + Len(t)) - 1 = k + Len(t)
    BY <1>2, <1>6
  <2>2. d[k + 1 + Len(t)] = r[k + Len(t)]
    BY <1>5, <2>1
  <2>3. k + Len(t) \in 1 .. Len(t) + Len(o.identifier) /\ ~(k + Len(t) <= Len(t))
        /\ (k + Len(t)) - Len(t) = k
    BY <1>6
  <2> QED
    BY <1>2, <2>2, <2>3
<1>10. Len(d) = 1 + Len(t) + Len(o.identifier)
  <2>1. Len(d) = 1 + Len(r) /\ Len(r) = Len(t) + Len(o.identifier)
    BY <1>2, <1>5
  <2>2. \A a, b \in Nat : 1 + (a + b) = 1 + a + b
    OBVIOUS
  <2>3. 1 + (Len(t) + Len(o.identifier)) = 1 + Len(t) + Len(o.identifier)
    BY <1>6, <2>2
  <2> QED
    BY <2>1, <2>3
<1> QED
  BY <1>5, <1>7, <1>8, <1>9, <1>10 DEF t, d

\* Byte strings may be put together in any order.
LEMMA ByteConcat ==
  \A s, t, u \in Seq(Byte) : (s \o t) \o u = s \o (t \o u)
  BY ConcatAssociative

\* The header of an option: its type and length.
LEMMA HeaderFacts ==
  ASSUME NEW n \in Byte
  PROVE  LET h == <<SMF_DPD_OPTION_TYPE, n>>
         IN  h \in Seq(Byte) /\ Len(h) = 2 /\ h[1] = SMF_DPD_OPTION_TYPE /\ h[2] = n
<1>1. SMF_DPD_OPTION_TYPE \in Byte
  BY DEF SMF_DPD_OPTION_TYPE, Byte
<1> QED
  BY <1>1

\* encode writes the type, the length and the data.
LEMMA EncodeData ==
  ASSUME NEW o, IsOption(o)
  PROVE  /\ OptDataLen(o) % 256 \in Byte
         /\ Encode(o) = <<SMF_DPD_OPTION_TYPE, OptDataLen(o) % 256>> \o Data(o)
         /\ Encode(o) \in Seq(Byte)
<1> DEFINE n == OptDataLen(o) % 256
           h == <<SMF_DPD_OPTION_TYPE, n>>
           f == <<Flags(o)>>
           t == BytesOf(o.tagger_id)
           i == o.identifier
<1>1. n \in Byte
  <2>1. OptDataLen(o) \in Nat
    BY OptionParts
  <2> QED
    BY <2>1 DEF Byte
<1>2. t \in Seq(Byte) /\ i \in Seq(Byte) /\ Flags(o) \in Byte
  BY OptionParts, FlagsOf
<1>3. h \in Seq(Byte) /\ f \in Seq(Byte)
  BY <1>1, <1>2, HeaderFacts
<1>4. h \o f = <<SMF_DPD_OPTION_TYPE, n, Flags(o)>>
  <2> DEFINE g == <<SMF_DPD_OPTION_TYPE, n, Flags(o)>>
  <2> HIDE DEF n
  <2>1. g \in Seq(Byte) /\ Len(g) = 3
    BY <1>1, <1>2 DEF SMF_DPD_OPTION_TYPE, Byte
  <2>2. h \o f \in Seq(Byte) /\ Len(h \o f) = 3
    BY <1>3, ConcatProperties
  <2>3. /\ (h \o f)[1] = SMF_DPD_OPTION_TYPE
        /\ (h \o f)[2] = n /\ (h \o f)[3] = Flags(o)
    BY <1>3
  <2>4. \A k \in 1..Len(h \o f) : (h \o f)[k] = g[k]
    BY <2>2, <2>3
  <2> QED
    BY <2>1, <2>2, <2>4, SeqEqual
<1>5. Encode(o) = ((h \o f) \o t) \o i
  BY <1>4 DEF Encode
<1>6. Data(o) = f \o (t \o i)
  BY DEF Data
<1> HIDE DEF h, f, t, i, n
<1>7. t \o i \in Seq(Byte) /\ f \o (t \o i) \in Seq(Byte)
  BY <1>2, <1>3, ConcatProperties
<1>8. ((h \o f) \o t) \o i = (h \o f) \o (t \o i)
  <2>1. h \o f \in Seq(Byte)
    BY <1>3, ConcatProperties
  <2> QED
    BY <1>2, <2>1, ByteConcat
<1>9. (h \o f) \o (t \o i) = h \o (f \o (t \o i))
  BY <1>3, <1>7, ByteConcat
<1>10. h \o (f \o (t \o i)) \in Seq(Byte)
  BY <1>3, <1>7, ConcatProperties
<1> QED
  BY <1>1, <1>5, <1>6, <1>8, <1>9, <1>10 DEF h, n

\* In a header whose length byte is right, the option's data are found again.
LEMMA OptionDataFound ==
  ASSUME NEW d \in Seq(Byte), Len(d) \in Byte, NEW p \in Seq(Byte)
  PROVE  OptionData((<<SMF_DPD_OPTION_TYPE, Len(d)>> \o d) \o p) = d
<1> DEFINE h == <<SMF_DPD_OPTION_TYPE, Len(d)>>
           w == (h \o d) \o p
<1>1. h \in Seq(Byte) /\ Len(h) = 2 /\ h[2] = Len(d)
  BY HeaderFacts
<1> HIDE DEF h
<1>2. /\ h \o d \in Seq(Byte) /\ Len(h \o d) = Len(h) + Len(d)
      /\ \A k \in 1 .. Len(h) + Len(d) :
           (h \o d)[k] = IF k <= Len(h) THEN h[k] ELSE d[k - Len(h)]
  BY <1>1, ConcatProperties
<1>3. /\ w \in Seq(Byte) /\ Len(w) = Len(h \o d) + Len(p)
      /\ \A k \in 1 .. Len(h \o d) + Len(p) :
           w[k] = IF k <= Len(h \o d) THEN (h \o d)[k] ELSE p[k - Len(h \o d)]
  BY <1>2, ConcatProperties
<1>4. Len(d) \in Nat /\ Len(p) \in Nat
  BY LenProperties
<1> HIDE DEF w
<1>5. w[2] = Len(d) /\ 2 + Len(d) <= Len(w)
  BY <1>1, <1>2, <1>3, <1>4
<1>6. OptionData(w) = SubSeq(w, 3, 2 + Len(d))
  BY <1>5 DEF OptionData
<1>7. \A k \in 1..Len(d) : w[k + 2] = d[k]
  <2> TAKE k \in 1..Len(d)
  <2>1. k + 2 \in 1 .. 2 + Len(d) /\ ~(k + 2 <= 2) /\ (k + 2) - 2 = k
    BY <1>4
  <2>2. (h \o d)[k + 2] = d[k]
    BY <1>1, <1>2, <2>1
  <2>3. k + 2 \in 1 .. Len(h \o d) + Len(p) /\ k + 2 <= Len(h \o d)
    BY <1>1, <1>2, <1>4, <2>1
  <2> QED
    BY <1>3, <2>2, <2>3
<1> DEFINE s == SubSeq(w, 3, 2 + Len(d))
<1>8. /\ s \in Seq(Byte)
      /\ Len(s) = IF 3 <= 2 + Len(d) THEN (2 + Len(d)) - 3 + 1 ELSE 0
      /\ \A k \in 1 .. (2 + Len(d)) - 3 + 1 : s[k] = w[3 + k - 1]
  <2>1. 3 \in Int /\ 2 + Len(d) \in Int
    BY <1>4
  <2>2. \A k \in 3 .. 2 + Len(d) : w[k] \in Byte
    <3> TAKE k \in 3 .. 2 + Len(d)
    <3>1. k \in 1..Len(w)
      BY <1>4, <1>5
    <3> QED
      BY <1>3, <3>1, ElementOfSeq
  <2> QED
    BY <2>1, <2>2, SubSeqProperties
<1> HIDE DEF s
<1>9. Len(s) = Len(d)
  BY <1>4, <1>8
<1>10. ASSUME NEW k \in 1..Len(s) PROVE s[k] = d[k]
  <2>1. k \in 1 .. (2 + Len(d)) - 3 + 1 /\ k \in 1..Len(d) /\ 3 + k - 1 = k + 2
    BY <1>4, <1>9
  <2> QED
    BY <1>7, <1>8, <2>1
<1>11. s = d
  BY <1>8, <1>9, <1>10, SeqEqual
<1> QED
  BY <1>6, <1>11 DEF s, w, h

\* What can be said of a part of a byte string.
LEMMA BytesPart ==
  ASSUME NEW d \in Seq(Byte), NEW a \in 1 .. Len(d) + 1, NEW b \in 0..Len(d),
         a <= b + 1
  PROVE  /\ SubSeq(d, a, b) \in Seq(Byte)
         /\ Len(SubSeq(d, a, b)) = b + 1 - a
         /\ \A k \in 1 .. b + 1 - a : SubSeq(d, a, b)[k] = d[k + a - 1]
<1>1. Len(d) \in Nat /\ a \in Int /\ b \in Int
  BY LenProperties
<1>2. \A k \in a..b : d[k] \in Byte
  <2> TAKE k \in a..b
  <2>1. k \in 1..Len(d)
    BY <1>1
  <2> QED
    BY <2>1, ElementOfSeq
<1> DEFINE s == SubSeq(d, a, b)
<1>3. /\ s \in Seq(Byte)
      /\ Len(s) = IF a <= b THEN b - a + 1 ELSE 0
      /\ \A k \in 1 .. b - a + 1 : s[k] = d[a + k - 1]
  BY <1>1, <1>2, SubSeqProperties
<1> HIDE DEF s
<1>4. Len(s) = b + 1 - a
  BY <1>1, <1>3
<1>5. ASSUME NEW k \in 1 .. b + 1 - a PROVE s[k] = d[k + a - 1]
  <2>1. k \in 1 .. b - a + 1 /\ a + k - 1 = k + a - 1
    BY <1>1
  <2> QED
    BY <1>3, <2>1
<1> QED
  BY <1>3, <1>4, <1>5 DEF s

\* decode undoes encode.
LEMMA DecodeData ==
  ASSUME NEW o, IsOption(o), WellFormed(o)
  PROVE  Len(Data(o)) = OptDataLen(o) /\ Decode(Data(o)) = {o}
<1> DEFINE d == Data(o)
           t == BytesOf(o.tagger_id)
           id == o.identifier
           l == o.tid_len
<1>1. /\ d \in Seq(Byte) /\ Len(d) = 1 + Len(t) + Len(id) /\ d[1] = Flags(o)
      /\ \A k \in 1..Len(t) : d[k + 1] = t[k]
      /\ \A k \in 1..Len(id) : d[k + 1 + Len(t)] = id[k]
  BY DataFacts
<1>2. t \in Seq(Byte) /\ id \in Seq(Byte) /\ Len(t) \in Nat /\ Len(id) \in Nat
  BY OptionParts, LenProperties
<1>3. /\ Flags(o) % 32 = l /\ (Flags(o) \div 32) % 4 = o.tid_type
      /\ Flags(o) >= 128 <=> o.h_bit
  BY FlagsOf DEF WellFormed
<1>4. Len(t) = l
  <2>1. CASE l = 0
    BY <2>1, TaggerBytes, EmptySeq DEF WellFormed
  <2>2. CASE l # 0
    BY <2>2 DEF WellFormed
  <2> QED
    BY <2>1, <2>2
<1>5. Len(id) > 0
  <2>1. id # <<>>
    BY DEF WellFormed
  <2> QED
    BY <1>2, <2>1, EmptySeq
<1>6. Len(d) = OptDataLen(o)
  BY <1>1, <1>4 DEF OptDataLen
<1> HIDE DEF d, t, id, l
<1>7. /\ l \in Nat /\ Len(id) \in Nat /\ Len(d) \in Nat
      /\ Len(d) = 1 + l + Len(id)
  BY <1>1, <1>2, <1>4, LenProperties
<1>8. ~(Len(d) < 2 \/ Len(d) <= 1 + (d[1] % 32))
  <2>1. d[1] % 32 = l
    BY <1>1, <1>3
  <2>2. ~(Len(d) < 2 \/ Len(d) <= 1 + l)
    BY <1>5, <1>7
  <2> QED
    BY <2>1, <2>2
<1>9. SubSeq(d, 2, 1 + l) = t
  <2> DEFINE s == SubSeq(d, 2, 1 + l)
  <2>1. 2 \in 1 .. Len(d) + 1 /\ 1 + l \in 0..Len(d) /\ 2 <= (1 + l) + 1
    BY <1>7
  <2>2. /\ s \in Seq(Byte) /\ Len(s) = (1 + l) + 1 - 2
        /\ \A k \in 1 .. (1 + l) + 1 - 2 : s[k] = d[k + 2 - 1]
    BY <1>1, <2>1, BytesPart
  <2>3. Len(s) = Len(t) /\ (1 + l) + 1 - 2 = Len(t)
    BY <1>4, <1>7, <2>2
  <2> HIDE DEF s
  <2>4. ASSUME NEW k \in 1..Len(s) PROVE s[k] = t[k]
    <3>1. k \in 1 .. (1 + l) + 1 - 2 /\ k \in 1..Len(t) /\ k + 2 - 1 = k + 1
      BY <1>2, <2>3
    <3> QED
      BY <1>1, <2>2, <3>1
  <2> QED
    BY <1>2, <2>2, <2>3, <2>4, SeqEqual DEF s
<1>10. SubSeq(d, 2 + l, Len(d)) = id
  <2> DEFINE s == SubSeq(d, 2 + l, Len(d))
  <2>1. 2 + l \in 1 .. Len(d) + 1 /\ Len(d) \in 0..Len(d) /\ 2 + l <= Len(d) + 1
    BY <1>7
  <2>2. /\ s \in Seq(Byte) /\ Len(s) = Len(d) + 1 - (2 + l)
        /\ \A k \in 1 .. Len(d) + 1 - (2 + l) : s[k] = d[k + (2 + l) - 1]
    BY <1>1, <2>1, BytesPart
  <2>3. Len(s) = Len(id) /\ Len(d) + 1 - (2 + l) = Len(id)
    <3>1. Len(d) + 1 - (2 + l) = Len(id)
      BY <1>7
    <3> QED
      BY <2>2, <3>1
  <2> HIDE DEF s
  <2>4. ASSUME NEW k \in 1..Len(s) PROVE s[k] = id[k]
    <3>1. k \in 1 .. Len(d) + 1 - (2 + l) /\ k \in 1..Len(id)
          /\ k + (2 + l) - 1 = k + 1 + Len(t)
      BY <1>2, <1>4, <1>7, <2>3
    <3> QED
      BY <1>1, <2>2, <3>1
  <2> QED
    BY <1>2, <2>2, <2>3, <2>4, SeqEqual DEF s
<1>11. o.tagger_id = IF l = 0 THEN {} ELSE {t}
  BY DEF WellFormed, IsOption, t, l
<1>12. Decode(d) = {[h_bit |-> d[1] >= 128, tid_type |-> (d[1] \div 32) % 4,
                     tid_len |-> l,
                     tagger_id |-> IF l = 0 THEN {} ELSE {SubSeq(d, 2, 1 + l)},
                     identifier |-> SubSeq(d, 2 + l, Len(d))]}
  <2>1. d[1] % 32 = l
    BY <1>1, <1>3
  <2> QED
    BY <1>8, <2>1 DEF Decode
<1>13. o = [h_bit |-> o.h_bit, tid_type |-> o.tid_type, tid_len |-> o.tid_len,
            tagger_id |-> o.tagger_id, identifier |-> o.identifier]
  BY DEF IsOption
<1>14. (d[1] >= 128) = o.h_bit /\ (d[1] \div 32) % 4 = o.tid_type
  <2>1. o.h_bit \in BOOLEAN
    BY DEF IsOption
  <2> QED
    BY <1>1, <1>3, <2>1
<1>15. Decode(d) = {o}
  BY <1>9, <1>10, <1>11, <1>12, <1>13, <1>14 DEF id, l
<1> QED
  BY <1>6, <1>15 DEF d

\* encode undoes decode, whatever the bytes.
LEMMA EncodeDecoded ==
  ASSUME NEW d \in Seq(Byte), Len(d) <= 255, NEW o \in Decode(d)
  PROVE  IsOption(o) /\ Encode(o) = <<SMF_DPD_OPTION_TYPE, Len(d)>> \o d
<1> DEFINE l == d[1] % 32
           tag == SubSeq(d, 2, 1 + l)
           id == SubSeq(d, 2 + l, Len(d))
<1>1. Len(d) \in Nat /\ ~(Len(d) < 2 \/ Len(d) <= 1 + l)
  BY LenProperties DEF Decode
<1>2. d[1] \in Byte
  <2>1. 1 \in 1..Len(d)
    BY <1>1
  <2> QED
    BY <2>1, ElementOfSeq
<1>3. l \in 0..31
  <2>1. \A x \in Byte : x % 32 \in 0..31
    BY DEF Byte
  <2> QED
    BY <1>2, <2>1
<1>4. o = [h_bit |-> d[1] >= 128, tid_type |-> (d[1] \div 32) % 4,
           tid_len |-> l, tagger_id |-> IF l = 0 THEN {} ELSE {tag},
           identifier |-> id]
  BY <1>1 DEF Decode
<1> HIDE DEF l
<1>5. /\ tag \in Seq(Byte) /\ Len(tag) = l
      /\ \A k \in 1..l : tag[k] = d[k + 1]
  <2>1. 2 \in 1 .. Len(d) + 1 /\ 1 + l \in 0..Len(d) /\ 2 <= (1 + l) + 1
    BY <1>1, <1>3
  <2>2. /\ tag \in Seq(Byte) /\ Len(tag) = (1 + l) + 1 - 2
        /\ \A k \in 1 .. (1 + l) + 1 - 2 : tag[k] = d[k + 2 - 1]
    BY <2>1, BytesPart
  <2>3. (1 + l) + 1 - 2 = l /\ \A k \in 1..l : k + 2 - 1 = k + 1
    BY <1>3
  <2> QED
    BY <2>2, <2>3
<1>6. /\ id \in Seq(Byte) /\ Len(id) = Len(d) - 1 - l
      /\ \A k \in 1 .. Len(d) - 1 - l : id[k] = d[k + 1 + l]
  <2>1. 2 + l \in 1 .. Len(d) + 1 /\ Len(d) \in 0..Len(d) /\ 2 + l <= Len(d) + 1
    BY <1>1, <1>3
  <2>2. /\ id \in Seq(Byte) /\ Len(id) = Len(d) + 1 - (2 + l)
        /\ \A k \in 1 .. Len(d) + 1 - (2 + l) : id[k] = d[k + (2 + l) - 1]
    BY <2>1, BytesPart
  <2>3. Len(d) + 1 - (2 + l) = Len(d) - 1 - l
        /\ \A k \in 1 .. Len(d) - 1 - l : k + (2 + l) - 1 = k + 1 + l
    BY <1>1, <1>3
  <2> QED
    BY <2>2, <2>3
<1> HIDE DEF tag, id
<1>7. /\ o.h_bit = (d[1] >= 128) /\ o.tid_type = (d[1] \div 32) % 4
      /\ o.tid_len = l /\ o.tagger_id = (IF l = 0 THEN {} ELSE {tag})
      /\ o.identifier = id
  BY <1>4
<1>8. BytesOf(o.tagger_id) = tag
  <2>1. CASE l = 0
    <3>1. tag = <<>>
      BY <1>5, <2>1, EmptySeq
    <3> QED
      BY <1>7, <2>1, <3>1, TaggerBytes
  <2>2. CASE l # 0
    BY <1>7, <2>2, TaggerBytes
  <2> QED
    BY <2>1, <2>2
<1>9. IsOption(o)
  <2>1. (d[1] \div 32) % 4 \in Byte /\ l \in Byte /\ (d[1] >= 128) \in BOOLEAN
    <3>1. \A x \in Byte : (x \div 32) % 4 \in Byte
      BY DEF Byte
    <3>2. l \in Byte
      BY <1>3 DEF Byte
    <3> QED
      BY <1>2, <3>1, <3>2
  <2>2. (IF l = 0 THEN {} ELSE {tag}) \in SUBSET Seq(Byte)
    BY <1>5
  <2>3. o.tagger_id \in {{}, {BytesOf(o.tagger_id)}}
    BY <1>7, <1>8
  <2> QED
    BY <1>4, <1>6, <2>1, <2>2, <2>3 DEF IsOption
<1>10. Flags(o) = d[1]
  <2> DEFINE low == ((o.tid_type * 32) % 256) + (o.tid_len % 32)
  <2>1. low \in 0..127 /\ d[1] = IF d[1] >= 128 THEN low + 128 ELSE low
    <3>1. o.tid_type = (d[1] \div 32) % 4 /\ o.tid_len = d[1] % 32
      BY <1>7 DEF l
    <3>2. low = ((((d[1] \div 32) % 4) * 32) % 256) + ((d[1] % 32) % 32)
      BY <3>1
    <3> HIDE DEF low
    <3> QED
      BY <1>2, <3>2, FlagsEncode
  <2> HIDE DEF low
  <2>2. low < 128
    BY <2>1
  <2> USE DEF low
  <2>3. Flags(o) = IF o.h_bit /\ low < 128 THEN low + 128 ELSE low
    BY DEF Flags
  <2> HIDE DEF low
  <2> QED
    BY <1>7, <2>1, <2>2, <2>3
<1>11. OptDataLen(o) = Len(d) /\ OptDataLen(o) % 256 = Len(d)
  <2>1. OptDataLen(o) = Len(d)
    BY <1>1, <1>3, <1>6, <1>7 DEF OptDataLen
  <2> QED
    BY <1>1, <2>1
<1>12. Data(o) = d
  <2> DEFINE e == Data(o)
  <2>1. /\ e \in Seq(Byte) /\ Len(e) = 1 + Len(tag) + Len(id) /\ e[1] = d[1]
        /\ \A k \in 1..Len(tag) : e[k + 1] = tag[k]
        /\ \A k \in 1..Len(id) : e[k + 1 + Len(tag)] = id[k]
    <3> DEFINE t == BytesOf(o.tagger_id)
    <3>1. /\ e \in Seq(Byte) /\ Len(e) = 1 + Len(t) + Len(o.identifier)
          /\ e[1] = Flags(o)
          /\ \A k \in 1..Len(t) : e[k + 1] = t[k]
          /\ \A k \in 1..Len(o.identifier) : e[k + 1 + Len(t)] = o.identifier[k]
      BY <1>9, DataFacts
    <3>2. t = tag /\ o.identifier = id
      BY <1>7, <1>8
    <3> HIDE DEF t, e
    <3> QED
      BY <1>10, <3>1, <3>2
  <2> HIDE DEF e
  <2>2. Len(e) = Len(d)
    BY <1>1, <1>3, <1>5, <1>6, <2>1
  <2>3. ASSUME NEW k \in 1..Len(e) PROVE e[k] = d[k]
    <3>1. CASE k = 1
      BY <2>1, <3>1
    <3>2. CASE k \in 2 .. 1 + l
      <4>1. k - 1 \in 1..l /\ (k - 1) + 1 = k
        BY <1>3, <3>2
      <4> QED
        BY <1>5, <2>1, <4>1
    <3>3. CASE k > 1 + l
      <4>1. /\ k - 1 - l \in 1 .. Len(d) - 1 - l
            /\ (k - 1 - l) + 1 + l = k
        BY <1>1, <1>3, <2>2, <3>3
      <4>2. e[(k - 1 - l) + 1 + Len(tag)] = id[k - 1 - l]
        BY <1>6, <2>1, <4>1
      <4>3. id[k - 1 - l] = d[(k - 1 - l) + 1 + l]
        BY <1>6, <4>1
      <4> QED
        BY <1>5, <4>1, <4>2, <4>3
    <3> QED
      BY <1>3, <3>1, <3>2, <3>3
  <2> QED
    BY <2>1, <2>2, <2>3, SeqEqual DEF e
<1> QED
  BY <1>9, <1>11, <1>12, EncodeData

-----------------------------------------------------------------------------
(* check_server_support *)

\* The least-number principle: well-founded induction in a form without an
\* operator parameter.
LEMMA LeastNumber ==
  ASSUME NEW T, T \subseteq Nat, T # {}
  PROVE  \E n \in T : \A k \in T : n <= k
<1> DEFINE R == OpToRel(<, Nat)
<1>1. IsWellFoundedOn(R, Nat)
  BY NatLessThanWellFounded
<1>2. R = {ss \in Nat \X Nat : ss[1] < ss[2]}
  BY DEF OpToRel
<1> HIDE DEF R
<1>3. PICK n \in T : \A k \in T : ~(<<k, n>> \in R)
  BY <1>1, WFMin
<1>4. ASSUME NEW k \in T PROVE n <= k
  <2>1. n \in Nat /\ k \in Nat
    OBVIOUS
  <2>2. ~(<<k, n>> \in {ss \in Nat \X Nat : ss[1] < ss[2]})
    BY <1>2, <1>3
  <2>3. ~(k < n)
    BY <2>1, <2>2
  <2> QED
    BY <2>1, <2>3
<1> QED
  BY <1>4

\* Likewise for the greatest of some bounded numbers.
LEMMA GreatestNumber ==
  ASSUME NEW b \in Nat, NEW T, T \subseteq 0..b, T # {}
  PROVE  \E n \in T : \A k \in T : k <= n
<1> DEFINE U == {b - k : k \in T}
<1>1. U \subseteq Nat
  <2>1. \A k \in 0..b : b - k \in Nat
    OBVIOUS
  <2> QED
    BY <2>1
<1>0. U # {}
  OBVIOUS
<1>2. PICK u \in U : \A v \in U : u <= v
  BY <1>0, <1>1, LeastNumber
<1>3. PICK n \in T : u = b - n
  OBVIOUS
<1>4. ASSUME NEW k \in T PROVE k <= n
  <2>1. b - n <= b - k
    BY <1>2, <1>3
  <2>2. n \in Nat /\ k \in Nat
    OBVIOUS
  <2> QED
    BY <2>1, <2>2
<1> QED
  BY <1>4

\* A set of positions that the scan of raw does not leave, and at none of which
\* it meets VSS-Control.
Clear(raw, R) ==
  \A pos \in R : pos + 2 <= Len(raw) =>
    raw[pos + 1] # VSS_CONTROL_SUBOPT_CODE /\ pos + 2 + raw[pos + 2] \in R

\* The scan that begins at pos meets no VSS-Control.
Scan(raw, pos) == \E R \in SUBSET Nat : pos \in R /\ Clear(raw, R)

\* One step of the scan, f standing for the rest of it.
ScanStep(raw, f, pos) ==
  IF pos + 2 > Len(raw) THEN TRUE
  ELSE /\ raw[pos + 1] # VSS_CONTROL_SUBOPT_CODE
       /\ f[pos + 2 + raw[pos + 2]]

\* The positions of a byte string: the scan moves on by two at least.
LEMMA ScanMoves ==
  ASSUME NEW raw \in Seq(Byte), NEW pos \in Nat, ~(pos + 2 > Len(raw))
  PROVE  /\ raw[pos + 2] \in Nat /\ Len(raw) \in Nat
         /\ pos + 2 + raw[pos + 2] \in Nat
         /\ pos + 2 + raw[pos + 2] > pos
         /\ pos + 2 <= Len(raw)
<1>1. Len(raw) \in Nat
  BY LenProperties
<1>2. pos + 2 \in 1..Len(raw)
  BY <1>1
<1>3. raw[pos + 2] \in Byte
  BY <1>2, ElementOfSeq
<1>4. \A x \in Byte : x \in Nat
  BY DEF Byte
<1>5. raw[pos + 2] \in Nat
  BY <1>3, <1>4
<1> QED
  BY <1>1, <1>5

\* Scan satisfies the equation of the loop.
LEMMA ScanUnfold ==
  ASSUME NEW raw \in Seq(Byte), NEW pos \in Nat, NEW f,
         ~(pos + 2 > Len(raw)) =>
           f[pos + 2 + raw[pos + 2]] = Scan(raw, pos + 2 + raw[pos + 2])
  PROVE  ScanStep(raw, f, pos) = Scan(raw, pos)
<1>1. Len(raw) \in Nat
  BY LenProperties
<1>2. CASE pos + 2 > Len(raw)
  <2>1. {pos} \in SUBSET Nat /\ pos \in {pos} /\ Clear(raw, {pos})
    BY <1>1, <1>2 DEF Clear
  <2> QED
    BY <1>2, <2>1 DEF ScanStep, Scan
<1>3. CASE ~(pos + 2 > Len(raw))
  <2> DEFINE q == pos + 2 + raw[pos + 2]
  <2>1. q \in Nat /\ pos + 2 <= Len(raw)
    BY <1>3, ScanMoves
  <2>2. ScanStep(raw, f, pos) =
          (raw[pos + 1] # VSS_CONTROL_SUBOPT_CODE /\ Scan(raw, q))
    BY <1>3 DEF ScanStep
  <2>3. ASSUME Scan(raw, pos)
        PROVE  raw[pos + 1] # VSS_CONTROL_SUBOPT_CODE /\ Scan(raw, q)
    <3>1. PICK R \in SUBSET Nat : pos \in R /\ Clear(raw, R)
      BY <2>3 DEF Scan
    <3>2. raw[pos + 1] # VSS_CONTROL_SUBOPT_CODE /\ q \in R
      BY <2>1, <3>1 DEF Clear
    <3> QED
      BY <3>1, <3>2 DEF Scan
  <2>4. ASSUME raw[pos + 1] # VSS_CONTROL_SUBOPT_CODE, Scan(raw, q)
        PROVE  Scan(raw, pos)
    <3>1. PICK R \in SUBSET Nat : q \in R /\ Clear(raw, R)
      BY <2>4 DEF Scan
    <3>2. R \cup {pos} \in SUBSET Nat /\ pos \in R \cup {pos}
      OBVIOUS
    <3>3. Clear(raw, R \cup {pos})
      BY <2>4, <3>1 DEF Clear
    <3> QED
      BY <3>2, <3>3 DEF Scan
  <2>5. Scan(raw, pos) \in BOOLEAN
    BY DEF Scan
  <2> QED
    BY <2>2, <2>3, <2>4, <2>5
<1> QED
  BY <1>2, <1>3

\* The loop of check_server_support computes Scan.
LEMMA CheckIsScan ==
  ASSUME NEW raw \in Seq(Byte)
  PROVE  CheckServerSupport(raw) = Scan(raw, 0)
<1> DEFINE L == Len(raw)
           Eq(f) == f = [pos \in Nat |-> ScanStep(raw, f, pos)]
           u == CHOOSE f : Eq(f)
           g == [pos \in Nat |-> Scan(raw, pos)]
<1>1. L \in Nat
  BY LenProperties
<1>2. CheckServerSupport(raw) = u[0]
  BY DEF CheckServerSupport, ScanStep
<1>3. Eq(g)
  <2>1. ASSUME NEW pos \in Nat PROVE ScanStep(raw, g, pos) = Scan(raw, pos)
    <3>1. ~(pos + 2 > Len(raw)) =>
            g[pos + 2 + raw[pos + 2]] = Scan(raw, pos + 2 + raw[pos + 2])
      BY ScanMoves
    <3> HIDE DEF g
    <3> QED
      BY <3>1, ScanUnfold
  <2> QED
    BY <2>1
<1> HIDE DEF g
<1>4. Eq(u)
  BY <1>3
<1> HIDE DEF u
<1>5. ASSUME NEW pos \in Nat
      PROVE  u[pos] = ScanStep(raw, u, pos)
  BY <1>4
<1> DEFINE T == {pos \in 0..L : u[pos] # Scan(raw, pos)}
<1>6. ASSUME NEW pos \in Nat, pos \notin T PROVE u[pos] = Scan(raw, pos)
  <2>1. CASE pos \in 0..L
    BY <1>6, <2>1
  <2>2. CASE pos \notin 0..L
    <3>1. pos + 2 > L
      BY <1>1, <2>2
    <3>2. ScanStep(raw, u, pos) = Scan(raw, pos)
      BY <3>1, ScanUnfold
    <3> QED
      BY <1>5, <3>2
  <2> QED
    BY <2>1, <2>2
<1>7. T = {}
  <2> SUFFICES ASSUME T # {} PROVE FALSE
    OBVIOUS
  <2>1. PICK n \in T : \A k \in T : k <= n
    BY <1>1, GreatestNumber
  <2>2. n \in Nat /\ u[n] # Scan(raw, n)
    BY <2>1
  <2> HIDE DEF T
  <2>3. ~(n + 2 > L) =>
          u[n + 2 + raw[n + 2]] = Scan(raw, n + 2 + raw[n + 2])
    <3> SUFFICES ASSUME ~(n + 2 > L)
                 PROVE  u[n + 2 + raw[n + 2]] = Scan(raw, n + 2 + raw[n + 2])
      OBVIOUS
    <3> DEFINE q == n + 2 + raw[n + 2]
    <3>1. q \in Nat /\ q > n
      BY <2>2, ScanMoves
    <3> HIDE DEF q
    <3>2. ~(q <= n)
      BY <2>2, <3>1
    <3>3. q \notin T
      BY <2>1, <3>2
    <3>4. u[q] = Scan(raw, q)
      BY <1>6, <3>1, <3>3
    <3> QED
      BY <3>4 DEF q
  <2>4. ScanStep(raw, u, n) = Scan(raw, n)
    BY <2>2, <2>3, ScanUnfold
  <2> QED
    BY <1>5, <2>2, <2>4
<1> QED
  BY <1>2, <1>6, <1>7

\* The bytes of a concatenation.
LEMMA BytesOfConcat ==
  ASSUME NEW b \in Seq(Byte), NEW s \in Seq(Byte)
  PROVE  LET raw == b \o s
         IN  /\ raw \in Seq(Byte) /\ Len(raw) = Len(b) + Len(s)
             /\ Len(b) \in Nat /\ Len(s) \in Nat
             /\ \A i \in 1..Len(b) : raw[i] = b[i]
             /\ \A k \in Nat : k + 1 <= Len(b) => raw[k + 1] = b[k + 1]
             /\ \A k \in Nat : k + 1 <= Len(s) => raw[Len(b) + k + 1] = s[k + 1]
<1> DEFINE raw == b \o s
<1>1. raw \in Seq(Byte) /\ Len(raw) = Len(b) + Len(s)
      /\ Len(b) \in Nat /\ Len(s) \in Nat
  BY ConcatProperties, LenProperties
<1>2. \A i \in 1 .. Len(b) + Len(s) :
        raw[i] = IF i <= Len(b) THEN b[i] ELSE s[i - Len(b)]
  BY ConcatProperties
<1> HIDE DEF raw
<1>3. ASSUME NEW k \in Nat, k + 1 <= Len(b) PROVE raw[k + 1] = b[k + 1]
  <2>1. k + 1 \in 1 .. Len(b) + Len(s)
    BY <1>1, <1>3
  <2> QED
    BY <1>2, <1>3, <2>1
<1>4. ASSUME NEW k \in Nat, k + 1 <= Len(s) PROVE raw[Len(b) + k + 1] = s[k + 1]
  <2> DEFINE i == Len(b) + k + 1
  <2>1. i \in 1 .. Len(b) + Len(s) /\ ~(i <= Len(b)) /\ i - Len(b) = k + 1
    BY <1>1, <1>4
  <2> HIDE DEF i
  <2>2. raw[i] = s[k + 1]
    BY <1>2, <2>1
  <2> QED
    BY <2>2 DEF i
<1>5. ASSUME NEW i \in 1..Len(b) PROVE raw[i] = b[i]
  <2>1. i \in 1 .. Len(b) + Len(s) /\ i <= Len(b)
    BY <1>1
  <2> QED
    BY <1>2, <2>1
<1> QED
  BY <1>1, <1>3, <1>4, <1>5 DEF raw

\* A byte is a natural number.
LEMMA ByteNat == \A x \in Byte : x \in Nat
  BY DEF Byte

\* The scan passes over sub-options: what it says of b \o s is what it says
\* of s alone.
LEMMA ScanSkips ==
  ASSUME NEW b \in Seq(Byte), SubOptions(b), NEW s \in Seq(Byte)
  PROVE  Scan(b \o s, 0) = Scan(s, 0)
<1> DEFINE raw == b \o s
           B == Len(b)
<1>1. /\ raw \in Seq(Byte) /\ Len(raw) = B + Len(s) /\ B \in Nat /\ Len(s) \in Nat
      /\ \A k \in Nat : k + 1 <= B => raw[k + 1] = b[k + 1]
      /\ \A k \in Nat : k + 1 <= Len(s) => raw[B + k + 1] = s[k + 1]
  BY BytesOfConcat
<1>2. PICK ends \in SUBSET (0..B) :
        /\ 0 \in ends /\ B \in ends
        /\ \A pos \in ends \ {B} :
             /\ pos + 2 <= B
             /\ b[pos + 1] # VSS_CONTROL_SUBOPT_CODE
             /\ pos + 2 + b[pos + 2] \in ends
  BY DEF SubOptions
<1> HIDE DEF raw, B
<1>3. ASSUME NEW pos \in ends \ {B}
      PROVE  /\ pos \in Nat /\ pos + 2 <= Len(raw)
             /\ raw[pos + 1] # VSS_CONTROL_SUBOPT_CODE
             /\ pos + 2 + raw[pos + 2] \in ends
             /\ pos + 2 + raw[pos + 2] > pos
  <2>1. pos \in Nat /\ pos + 2 <= B /\ pos + 1 \in Nat
    BY <1>1, <1>2
  <2>2. raw[pos + 1] = b[pos + 1]
    BY <1>1, <2>1
  <2>3. (pos + 1) + 1 <= B /\ (pos + 1) + 1 = pos + 2
    BY <1>1, <2>1
  <2>4. raw[pos + 2] = b[pos + 2]
    BY <1>1, <2>1, <2>3
  <2>5. pos + 2 <= Len(raw)
    BY <1>1, <2>1
  <2>6. raw[pos + 2] \in Nat
    <3>1. pos + 2 \in 1..Len(raw)
      BY <1>1, <2>1, <2>5
    <3> QED
      BY <1>1, <3>1, ElementOfSeq, ByteNat
  <2>7. pos + 2 + raw[pos + 2] > pos
    BY <2>1, <2>6
  <2> QED
    BY <1>2, <2>1, <2>2, <2>4, <2>5, <2>7
<1>4. ASSUME NEW k \in Nat, k + 2 <= Len(s)
      PROVE  /\ B + k + 2 <= Len(raw) /\ B + k \in Nat
             /\ raw[B + k + 1] = s[k + 1] /\ raw[B + k + 2] = s[k + 2]
             /\ k + 2 + s[k + 2] \in Nat
             /\ B + k + 2 + s[k + 2] = B + (k + 2 + s[k + 2])
  <2>1. B + k + 2 <= Len(raw) /\ B + k \in Nat /\ k + 1 <= Len(s) /\ k + 1 \in Nat
        /\ (k + 1) + 1 <= Len(s) /\ (k + 1) + 1 = k + 2 /\ B + (k + 1) + 1 = B + k + 2
    BY <1>1, <1>4
  <2>2. raw[B + k + 1] = s[k + 1]
    BY <1>1, <2>1
  <2>3. raw[B + k + 2] = s[k + 2]
    BY <1>1, <2>1
  <2>4. s[k + 2] \in Nat
    <3>1. k + 2 \in 1..Len(s)
      BY <1>1, <1>4
    <3> QED
      BY <3>1, ElementOfSeq, ByteNat
  <2>5. k + 2 + s[k + 2] \in Nat /\ B + k + 2 + s[k + 2] = B + (k + 2 + s[k + 2])
    <3>1. \A x \in Nat : k + 2 + x \in Nat /\ B + k + 2 + x = B + (k + 2 + x)
      BY <1>1
    <3> QED
      BY <2>4, <3>1
  <2> QED
    BY <2>1, <2>2, <2>3, <2>5
<1>5. ASSUME Scan(s, 0) PROVE Scan(raw, 0)
  <2>1. PICK R \in SUBSET Nat : 0 \in R /\ Clear(s, R)
    BY <1>5 DEF Scan
  <2> DEFINE Q == {pos \in ends : pos # B} \cup {B + k : k \in R}
  <2>2. B + 0 = B
    BY <1>1
  <2>3. ends \subseteq Q
    BY <2>1, <2>2
  <2>4. 0 \in Q
    BY <1>2, <2>3
  <2>5. Q \in SUBSET Nat
    <3>1. \A k \in R : B + k \in Nat
      BY <1>1, <2>1
    <3>2. ends \subseteq Nat
      BY <1>1, <1>2
    <3> QED
      BY <3>1, <3>2
  <2>6. ASSUME NEW pos \in Q, pos + 2 <= Len(raw)
        PROVE  raw[pos + 1] # VSS_CONTROL_SUBOPT_CODE /\ pos + 2 + raw[pos + 2] \in Q
    <3>1. CASE pos \in ends \ {B}
      BY <1>3, <2>3, <3>1
    <3>2. CASE pos \notin ends \ {B}
      <4>1. PICK k \in R : pos = B + k
        BY <2>6, <3>2
      <4>2. k \in Nat
        BY <2>1
      <4>3. k + 2 <= Len(s)
        BY <1>1, <2>6, <4>1, <4>2
      <4>4. s[k + 1] # VSS_CONTROL_SUBOPT_CODE /\ k + 2 + s[k + 2] \in R
        BY <2>1, <4>3 DEF Clear
      <4>5. B + (k + 2 + s[k + 2]) \in Q
        BY <4>4
      <4> HIDE DEF Q
      <4>6. /\ raw[B + k + 1] = s[k + 1] /\ raw[B + k + 2] = s[k + 2]
            /\ B + k + 2 + s[k + 2] = B + (k + 2 + s[k + 2])
        BY <1>4, <4>2, <4>3
      <4> QED
        BY <4>1, <4>4, <4>5, <4>6
    <3> QED
      BY <3>1, <3>2
  <2> HIDE DEF Q
  <2>7. Clear(raw, Q)
    BY <2>6 DEF Clear
  <2> QED
    BY <2>4, <2>5, <2>7 DEF Scan
<1>6. ASSUME Scan(raw, 0) PROVE Scan(s, 0)
  <2>1. PICK R \in SUBSET Nat : 0 \in R /\ Clear(raw, R)
    BY <1>6 DEF Scan
  <2>2. B \in R
    <3>1. R \cap ends \subseteq 0..B /\ R \cap ends # {}
      BY <1>2, <2>1
    <3>2. PICK n \in R \cap ends : \A k \in R \cap ends : k <= n
      BY <1>1, <3>1, GreatestNumber
    <3> SUFFICES ASSUME n # B PROVE FALSE
      BY <3>2
    <3> DEFINE q == n + 2 + raw[n + 2]
    <3>3. n \in Nat /\ n + 2 <= Len(raw) /\ q \in ends /\ q > n
      BY <1>3, <3>2
    <3>4. q \in R
      BY <2>1, <3>2, <3>3 DEF Clear
    <3> HIDE DEF q
    <3>5. q <= n /\ q \in Nat
      BY <1>2, <3>2, <3>3, <3>4
    <3> QED
      BY <3>3, <3>5
  <2> DEFINE Q == {k \in Nat : B + k \in R}
  <2>3. 0 \in Q /\ Q \in SUBSET Nat
    <3>1. B + 0 = B
      BY <1>1
    <3> QED
      BY <2>2, <3>1
  <2>4. ASSUME NEW k \in Q, k + 2 <= Len(s)
        PROVE  s[k + 1] # VSS_CONTROL_SUBOPT_CODE /\ k + 2 + s[k + 2] \in Q
    <3>1. k \in Nat /\ B + k \in R
      OBVIOUS
    <3>2. /\ B + k + 2 <= Len(raw) /\ raw[B + k + 1] = s[k + 1]
          /\ raw[B + k + 2] = s[k + 2] /\ k + 2 + s[k + 2] \in Nat
          /\ B + k + 2 + s[k + 2] = B + (k + 2 + s[k + 2])
      BY <1>4, <2>4, <3>1
    <3>3. raw[B + k + 1] # VSS_CONTROL_SUBOPT_CODE /\ B + k + 2 + raw[B + k + 2] \in R
      BY <2>1, <3>1, <3>2 DEF Clear
    <3> QED
      BY <3>2, <3>3
  <2> HIDE DEF Q
  <2>5. Clear(s, Q)
    BY <2>4 DEF Clear
  <2> QED
    BY <2>3, <2>5 DEF Scan
<1>7. Scan(raw, 0) \in BOOLEAN /\ Scan(s, 0) \in BOOLEAN
  BY DEF Scan
<1>8. Scan(raw, 0) = Scan(s, 0)
  BY <1>5, <1>6, <1>7
<1> QED
  BY <1>8 DEF raw

\* Sub-option 151 of an info whose length fits into its byte is a sub-option
\* for the scan.
LEMMA VssSubOptIsOne ==
  ASSUME NEW v \in VssConfig, Len(v.vss_info) <= 254
  PROVE  VssSubOpt(v) \in Seq(Byte) /\ SubOptions(VssSubOpt(v))
<1> DEFINE i == v.vss_info
           L == Len(i)
           h == <<VSS_SUBOPT_CODE, (1 + L) % 256, v.vss_type>>
           w == h \o i
<1>1. i \in Seq(Byte) /\ v.vss_type \in Byte
  BY DEF VssConfig
<1>2. L \in Nat /\ (1 + L) % 256 = 1 + L /\ 1 + L \in Byte
  <2>1. L \in Nat
    BY <1>1, LenProperties
  <2>2. L <= 254
    OBVIOUS
  <2>3. \A n \in Nat : n <= 254 => (1 + n) % 256 = 1 + n /\ 1 + n \in Byte
    BY DEF Byte
  <2> QED
    BY <2>1, <2>2, <2>3
<1>3. h \in Seq(Byte) /\ Len(h) = 3 /\ h[1] = VSS_SUBOPT_CODE /\ h[2] = 1 + L
  <2>1. VSS_SUBOPT_CODE \in Byte
    BY DEF VSS_SUBOPT_CODE, Byte
  <2> HIDE DEF L
  <2> QED
    BY <1>1, <1>2, <2>1
<1>4. w = VssSubOpt(v)
  BY DEF VssSubOpt
<1> HIDE DEF h, i
<1>5. /\ w \in Seq(Byte) /\ Len(w) = 3 + L
      /\ \A k \in 1..3 : w[k] = h[k]
  <2>1. /\ w \in Seq(Byte) /\ Len(w) = Len(h) + Len(i)
        /\ \A k \in 1..Len(h) : w[k] = h[k]
    BY <1>1, <1>3, BytesOfConcat
  <2> HIDE DEF w
  <2> QED
    BY <1>3, <2>1
<1> HIDE DEF w, L
<1>6. w[1] = VSS_SUBOPT_CODE /\ w[2] = 1 + L
  <2>1. 1 \in 1..3 /\ 2 \in 1..3
    OBVIOUS
  <2>2. w[1] = h[1] /\ w[2] = h[2]
    BY <1>5, <2>1
  <2> QED
    BY <1>3, <2>2
<1>7. SubOptions(w)
  <2> DEFINE ends == {0, Len(w)}
  <2>1. ends \in SUBSET (0..Len(w)) /\ {0, Len(w)} \subseteq ends
    BY <1>2, <1>5
  <2>2. ASSUME NEW pos \in ends \ {Len(w)}
        PROVE  /\ pos + 2 <= Len(w)
               /\ w[pos + 1] # VSS_CONTROL_SUBOPT_CODE
               /\ pos + 2 + w[pos + 2] \in ends
    <3>1. pos = 0 /\ pos + 1 = 1 /\ pos + 2 = 2
      OBVIOUS
    <3>2. 2 <= Len(w) /\ 2 + (1 + L) = Len(w)
      BY <1>2, <1>5
    <3>3. VSS_SUBOPT_CODE # VSS_CONTROL_SUBOPT_CODE
      BY DEF VSS_SUBOPT_CODE, VSS_CONTROL_SUBOPT_CODE
    <3> QED
      BY <1>6, <3>1, <3>2, <3>3
  <2> HIDE DEF ends
  <2> QED
    BY <2>1, <2>2 DEF SubOptions
<1> QED
  BY <1>4, <1>5, <1>7

\* The scan of nothing meets nothing, and that of VSS-Control meets it.
LEMMA ScanEnds ==
  /\ Scan(<<>>, 0)
  /\ \A s \in Seq(Byte) : ~Scan(VssControl \o s, 0)
<1>1. Scan(<<>>, 0)
  <2>1. {0} \in SUBSET Nat /\ 0 \in {0}
    OBVIOUS
  <2>2. Clear(<<>>, {0})
    <3>1. ~(0 + 2 <= Len(<<>>))
      OBVIOUS
    <3> QED
      BY <3>1 DEF Clear
  <2> QED
    BY <2>1, <2>2 DEF Scan
<1>2. VssControl \in Seq(Byte) /\ Len(VssControl) = 2
      /\ VssControl[1] = VSS_CONTROL_SUBOPT_CODE
  <2>1. VSS_CONTROL_SUBOPT_CODE \in Byte /\ 0 \in Byte
    BY DEF VSS_CONTROL_SUBOPT_CODE, Byte
  <2> QED
    BY <2>1 DEF VssControl
<1>3. ASSUME NEW s \in Seq(Byte) PROVE ~Scan(VssControl \o s, 0)
  <2> DEFINE raw == VssControl \o s
  <2>1. /\ Len(raw) = 2 + Len(s) /\ Len(s) \in Nat
        /\ \A i \in 1..2 : raw[i] = VssControl[i]
    <3>1. /\ Len(raw) = Len(VssControl) + Len(s) /\ Len(s) \in Nat
          /\ \A i \in 1..Len(VssControl) : raw[i] = VssControl[i]
      BY <1>2, BytesOfConcat
    <3> HIDE DEF raw
    <3> QED
      BY <1>2, <3>1
  <2> HIDE DEF raw
  <2>2. 0 + 2 <= Len(raw)
    BY <2>1
  <2>3. raw[0 + 1] = VSS_CONTROL_SUBOPT_CODE
    <3>1. 1 \in 1..2 /\ 0 + 1 = 1
      OBVIOUS
    <3> QED
      BY <1>2, <2>1, <3>1
  <2>4. ~Scan(raw, 0)
    BY <2>2, <2>3 DEF Scan, Clear
  <2> QED
    BY <2>4 DEF raw
<1> QED
  BY <1>1, <1>3

\* check_server_support is right about the server, wherever VSS-Control stands
\* among the sub-options of the echo and whatever bytes they contain.
LEMMA EchoUnderstood ==
  ASSUME NEW b \in Seq(Byte), SubOptions(b), NEW a \in Seq(Byte), SubOptions(a),
         NEW v \in VssConfig, Len(v.vss_info) <= 254
  PROVE  /\ CheckServerSupport(b \o VssSubOpt(v) \o <<>> \o a) = TRUE
         /\ CheckServerSupport(b \o VssSubOpt(v) \o VssControl \o a) = FALSE
<1> DEFINE w == VssSubOpt(v)
           c == VssControl
<1>1. w \in Seq(Byte) /\ SubOptions(w)
  BY VssSubOptIsOne
<1>2. c \in Seq(Byte) /\ <<>> \in Seq(Byte)
  <2>1. VSS_CONTROL_SUBOPT_CODE \in Byte /\ 0 \in Byte
    BY DEF VSS_CONTROL_SUBOPT_CODE, Byte
  <2> QED
    BY <2>1 DEF VssControl
<1>3. /\ ~Scan(c \o a, 0) /\ Scan(<<>>, 0)
  BY ScanEnds
<1> HIDE DEF w, c
<1>4. ASSUME NEW m \in Seq(Byte)
      PROVE  CheckServerSupport(b \o w \o m \o a) = Scan(m \o a, 0)
  <2>1. m \o a \in Seq(Byte) /\ w \o m \in Seq(Byte) /\ b \o w \in Seq(Byte)
        /\ w \o (m \o a) \in Seq(Byte) /\ b \o (w \o (m \o a)) \in Seq(Byte)
    BY <1>1, BytesOfConcat
  <2>2. b \o w \o m \o a = b \o (w \o (m \o a))
    <3>1. (b \o w) \o m = b \o (w \o m)
      BY <1>1, ByteConcat
    <3>2. (b \o (w \o m)) \o a = b \o ((w \o m) \o a)
      <4> DEFINE x == w \o m
      <4>1. x \in Seq(Byte)
        BY <2>1
      <4> HIDE DEF x
      <4>2. (b \o x) \o a = b \o (x \o a)
        BY <4>1, ByteConcat
      <4> QED
        BY <4>2 DEF x
    <3>3. (w \o m) \o a = w \o (m \o a)
      BY <1>1, ByteConcat
    <3> QED
      BY <3>1, <3>2, <3>3
  <2>3. Scan(b \o (w \o (m \o a)), 0) = Scan(w \o (m \o a), 0)
    BY <2>1, ScanSkips
  <2>4. Scan(w \o (m \o a), 0) = Scan(m \o a, 0)
    BY <1>1, <2>1, ScanSkips
  <2> QED
    BY <2>1, <2>2, <2>3, <2>4, CheckIsScan
<1>5. Scan(<<>> \o a, 0)
  <2>1. <<>> \o a = a /\ a \o <<>> = a
    BY ConcatEmptySeq
  <2>2. Scan(a \o <<>>, 0) = Scan(<<>>, 0)
    BY <1>2, ScanSkips
  <2> QED
    BY <1>3, <2>1, <2>2
<1>6. /\ CheckServerSupport(b \o w \o <<>> \o a) = TRUE
      /\ CheckServerSupport(b \o w \o c \o a) = FALSE
  <2>1. Scan(<<>> \o a, 0) = TRUE /\ Scan(c \o a, 0) = FALSE
    BY <1>3, <1>5 DEF Scan
  <2> QED
    BY <1>2, <1>4, <2>1
<1> QED
  BY <1>6 DEF w, c

-----------------------------------------------------------------------------
(* vss::extract and the keys of packets *)

\* vss::extract recovers the VSS from among other options.
LEMMA ExtractUnderstood ==
  ASSUME NEW b \in Seq(V6Option), \A k \in DOMAIN b : b[k].code # VSS_OPTION_CODE,
         NEW a \in Seq(V6Option), \A k \in DOMAIN a : a[k].code # VSS_OPTION_CODE,
         NEW v \in VssConfig
  PROVE  ExtractV6(b \o <<EncodeV6(v)>> \o a) = {<<v.vss_type, v.vss_info>>}
<1> DEFINE e == EncodeV6(v)
           d == <<v.vss_type>> \o v.vss_info
           m == b \o <<e>>
           w == m \o a
           n == Len(b) + 1
           vss == {k \in DOMAIN w : w[k].code = VSS_OPTION_CODE}
<1>1. v.vss_type \in Byte /\ v.vss_info \in Seq(Byte)
  BY DEF VssConfig
<1>2. /\ d \in Seq(Byte) /\ d # <<>> /\ Head(d) = v.vss_type /\ Tail(d) = v.vss_info
  BY <1>1
<1>3. e.code = VSS_OPTION_CODE /\ e.data = d
  BY DEF EncodeV6
<1>4. e \in V6Option
  <2>1. VSS_OPTION_CODE \in Nat
    BY DEF VSS_OPTION_CODE
  <2> HIDE DEF d
  <2> QED
    BY <1>2, <2>1 DEF EncodeV6, V6Option, d
<1> HIDE DEF d, e
<1>5. /\ Len(b) \in Nat /\ Len(a) \in Nat /\ DOMAIN b = 1..Len(b) /\ DOMAIN a = 1..Len(a)
      /\ <<e>> \in Seq(V6Option) /\ Len(<<e>>) = 1 /\ <<e>>[1] = e
  BY <1>4, LenProperties
<1>6. /\ m \in Seq(V6Option) /\ Len(m) = Len(b) + Len(<<e>>)
      /\ \A i \in 1 .. Len(b) + Len(<<e>>) :
           m[i] = IF i <= Len(b) THEN b[i] ELSE <<e>>[i - Len(b)]
  BY <1>5, ConcatProperties
<1> HIDE DEF m
<1>7. /\ w \in Seq(V6Option) /\ Len(w) = Len(m) + Len(a)
      /\ \A i \in 1 .. Len(m) + Len(a) :
           w[i] = IF i <= Len(m) THEN m[i] ELSE a[i - Len(m)]
  <2>1. \A s \in Seq(V6Option) :
          /\ s \o a \in Seq(V6Option) /\ Len(s \o a) = Len(s) + Len(a)
          /\ \A i \in 1 .. Len(s) + Len(a) :
               (s \o a)[i] = IF i <= Len(s) THEN s[i] ELSE a[i - Len(s)]
    BY ConcatProperties
  <2> QED
    BY <1>6, <2>1
<1>8. DOMAIN w = 1..Len(w)
  BY <1>7, LenProperties
<1> HIDE DEF w
<1>9. n \in DOMAIN w /\ w[n] = e
  <2>1. n \in 1..Len(w) /\ n \in 1 .. Len(b) + Len(<<e>>) /\ ~(n <= Len(b))
        /\ n - Len(b) = 1 /\ n <= Len(m) /\ n \in 1 .. Len(m) + Len(a)
    BY <1>5, <1>6, <1>7
  <2> HIDE DEF n
  <2> QED
    BY <1>5, <1>6, <1>7, <1>8, <2>1
<1>10. ASSUME NEW k \in DOMAIN w, k # n PROVE w[k].code # VSS_OPTION_CODE
  <2>1. k \in 1 .. Len(m) + Len(a)
    BY <1>7, <1>8
  <2>2. CASE k <= Len(b)
    <3>1. k \in 1..Len(b) /\ k \in 1 .. Len(b) + Len(<<e>>) /\ k <= Len(m)
      BY <1>5, <1>6, <2>1, <2>2
    <3>2. w[k] = b[k]
      BY <1>6, <1>7, <2>1, <2>2, <3>1
    <3> QED
      BY <1>5, <3>1, <3>2
  <2>3. CASE ~(k <= Len(b))
    <3>1. ~(k <= Len(m)) /\ k - Len(m) \in 1..Len(a)
      BY <1>5, <1>6, <1>10, <2>1, <2>3
    <3>2. w[k] = a[k - Len(m)]
      BY <1>7, <2>1, <3>1
    <3> QED
      BY <1>5, <3>1, <3>2
  <2> QED
    BY <2>2, <2>3
<1> HIDE DEF n
<1>11. vss = {n}
  BY <1>3, <1>9, <1>10
<1>12. n <= n
  BY <1>5 DEF n
<1>13. (CHOOSE k \in vss : \A j \in vss : k <= j) = n
  <2> HIDE DEF vss
  <2> QED
    BY <1>11, <1>12
<1>14. ExtractV6(w) = {<<Head(d), Tail(d)>>}
  BY <1>2, <1>3, <1>9, <1>11, <1>13 DEF ExtractV6
<1> QED
  BY <1>2, <1>14 DEF w, m, e

\* u64::from of a u16 or u32 loses nothing.
LEMMA Quotient ==
  ASSUME NEW k \in Nat
  PROVE  k \div 256 \in Nat /\ k = 256 * (k \div 256) + (k % 256)
  BY SMT

\* A number is the sum of its bytes, each at its place.
LEMMA NumberOfBytes ==
  ASSUME NEW n \in Nat
  PROVE  n = (n \div 16777216) * 16777216 + ((n \div 65536) % 256) * 65536
             + ((n \div 256) % 256) * 256 + (n % 256)
<1>1. (n \div 256) \div 256 = n \div 65536
  BY SMT
<1>2. (n \div 65536) \div 256 = n \div 16777216
  BY SMT
<1>3. PICK x \in Nat : x = n \div 256 /\ n = 256 * x + (n % 256)
  BY Quotient
<1>4. PICK y \in Nat : y = n \div 65536 /\ x = 256 * y + (x % 256)
  BY <1>1, <1>3, Quotient
<1>5. PICK z \in Nat : z = n \div 16777216 /\ y = 256 * z + (y % 256)
  BY <1>2, <1>4, Quotient
<1>6. n % 256 \in Nat /\ x % 256 \in Nat /\ y % 256 \in Nat
  BY SMT
<1>7. n = z * 16777216 + (y % 256) * 65536 + (x % 256) * 256 + (n % 256)
  BY <1>3, <1>4, <1>5, <1>6, SMT
<1> QED
  BY <1>3, <1>4, <1>5, <1>7, SMT

\* Different numbers are different u64s.
LEMMA U64FromSeparates ==
  ASSUME NEW n \in Nat, NEW k \in Nat, U64From(n) = U64From(k)
  PROVE  n = k
<1>1. \A a1, a2, a3, a4, b1, b2, b3, b4 :
        <<0, 0, 0, 0, a1, a2, a3, a4>> = <<0, 0, 0, 0, b1, b2, b3, b4>>
          => a1 = b1 /\ a2 = b2 /\ a3 = b3 /\ a4 = b4
  OBVIOUS
<1>2. /\ n \div 16777216 = k \div 16777216
      /\ (n \div 65536) % 256 = (k \div 65536) % 256
      /\ (n \div 256) % 256 = (k \div 256) % 256 /\ n % 256 = k % 256
  BY <1>1 DEF U64From
<1>3. /\ n = (n \div 16777216) * 16777216 + ((n \div 65536) % 256) * 65536
             + ((n \div 256) % 256) * 256 + (n % 256)
      /\ k = (k \div 16777216) * 16777216 + ((k \div 65536) % 256) * 65536
             + ((k \div 256) % 256) * 256 + (k % 256)
  BY NumberOfBytes
<1> QED
  BY <1>2, <1>3

\* Identifiers of one length, up to eight bytes, are different u64s.
LEMMA BytesToU64Separates ==
  ASSUME NEW b \in Seq(Byte), NEW c \in Seq(Byte),
         Len(b) = Len(c), Len(b) <= 8, BytesToU64(b) = BytesToU64(c)
  PROVE  b = c
<1>1. Len(b) \in Nat
  BY LenProperties
<1>2. ASSUME NEW i \in 1..Len(b) PROVE b[i] = c[i]
  <2>1. i \in 1..8 /\ i <= Len(b) /\ i <= Len(c)
    BY <1>1
  <2>2. BytesToU64(b)[i] = b[i] /\ BytesToU64(c)[i] = c[i]
    BY <2>1 DEF BytesToU64
  <2> QED
    BY <2>2
<1> QED
  BY <1>2, SeqEqual

\* A number and an identifier of up to four bytes, not all zero, are different.
LEMMA NumberAndBytesDiffer ==
  ASSUME NEW n \in Nat, NEW b \in Seq(Byte), Len(b) <= 4,
         NEW i \in DOMAIN b, b[i] # 0
  PROVE  U64From(n) # BytesToU64(b)
<1>1. Len(b) \in Nat /\ i \in 1..Len(b)
  BY LenProperties
<1>2. i \in 1..8 /\ i <= Len(b) /\ i \in {1, 2, 3, 4}
  BY <1>1
<1>3. BytesToU64(b)[i] = b[i]
  BY <1>2 DEF BytesToU64
<1>4. U64From(n)[i] = 0
  <2>1. U64From(n)[1] = 0 /\ U64From(n)[2] = 0 /\ U64From(n)[3] = 0 /\ U64From(n)[4] = 0
    BY DEF U64From
  <2> QED
    BY <1>2, <2>1
<1> QED
  BY <1>3, <1>4

\* The payloads x and y differ, or one of them ends, in the first 64 bytes.
Differ64(x, y) ==
  \E i \in (1..64) \cap (DOMAIN x \cup DOMAIN y) :
    i \in DOMAIN x \cap DOMAIN y => x[i] # y[i]

\* Such payloads are hashed from different bytes.
LEMMA HashesDiffer ==
  ASSUME NEW src \in Seq(Byte), NEW dst \in Seq(Byte),
         NEW x \in Seq(Byte), NEW y \in Seq(Byte),
         HashInput(src, dst, x) = HashInput(src, dst, y)
  PROVE  ~Differ64(x, y)
<1> SUFFICES ASSUME NEW i \in 1..64, i \in DOMAIN x \/ i \in DOMAIN y,
                    i \in DOMAIN x /\ i \in DOMAIN y => x[i] # y[i]
             PROVE  FALSE
  BY DEF Differ64
<1> DEFINE H(p) == SubSeq(p, 1, IF Len(p) < 64 THEN Len(p) ELSE 64)
           pre == src \o dst
<1>1. pre \in Seq(Byte)
  BY BytesOfConcat
<1>2. pre \o H(x) = pre \o H(y)
  BY DEF HashInput
<1>3. ASSUME NEW p \in Seq(Byte)
      PROVE  /\ H(p) \in Seq(Byte) /\ DOMAIN p = 1..Len(p) /\ Len(p) \in Nat
             /\ i \in DOMAIN p <=> i <= Len(H(p))
             /\ i \in DOMAIN p => H(p)[i] = p[i]
  <2> DEFINE c == IF Len(p) < 64 THEN Len(p) ELSE 64
  <2>1. Len(p) \in Nat /\ DOMAIN p = 1..Len(p)
    BY LenProperties
  <2>2. c \in 0..Len(p) /\ (i \in 1..Len(p) <=> i <= c) /\ 1 \in 1 .. Len(p) + 1
        /\ 1 <= c + 1 /\ c + 1 - 1 = c /\ c \in Nat
    BY <2>1
  <2> HIDE DEF c
  <2>3. /\ SubSeq(p, 1, c) \in Seq(Byte)
        /\ Len(SubSeq(p, 1, c)) = c + 1 - 1
        /\ \A k \in 1 .. c + 1 - 1 : SubSeq(p, 1, c)[k] = p[k + 1 - 1]
    BY <2>2, BytesPart
  <2>4. i + 1 - 1 = i /\ (i <= c => i \in 1 .. c + 1 - 1)
    BY <2>2
  <2>5. i \in DOMAIN p => SubSeq(p, 1, c)[i] = p[i]
    BY <2>1, <2>2, <2>3, <2>4
  <2>6. /\ SubSeq(p, 1, c) \in Seq(Byte)
        /\ i \in DOMAIN p <=> i <= Len(SubSeq(p, 1, c))
    BY <2>1, <2>2, <2>3
  <2> QED
    BY <2>1, <2>5, <2>6 DEF c
<1> HIDE DEF H, pre
<1>4. H(x) = H(y)
  <2> DEFINE u == H(x)
             v == H(y)
  <2>1. u \in Seq(Byte) /\ v \in Seq(Byte)
    BY <1>3
  <2> HIDE DEF u, v
  <2>2. /\ Len(pre \o u) = Len(pre) + Len(u) /\ Len(u) \in Nat /\ Len(pre) \in Nat
        /\ \A k \in Nat : k + 1 <= Len(u) => (pre \o u)[Len(pre) + k + 1] = u[k + 1]
    BY <1>1, <2>1, BytesOfConcat
  <2>3. /\ Len(pre \o v) = Len(pre) + Len(v) /\ Len(v) \in Nat
        /\ \A k \in Nat : k + 1 <= Len(v) => (pre \o v)[Len(pre) + k + 1] = v[k + 1]
    BY <1>1, <2>1, BytesOfConcat
  <2>4. pre \o u = pre \o v
    BY <1>2 DEF u, v
  <2>5. Len(u) = Len(v)
    BY <2>2, <2>3, <2>4
  <2>6. ASSUME NEW j \in 1..Len(u) PROVE u[j] = v[j]
    <3>1. PICK k \in Nat : j = k + 1 /\ k + 1 <= Len(u)
      <4>1. j - 1 \in Nat /\ j = (j - 1) + 1 /\ (j - 1) + 1 <= Len(u)
        BY <2>2
      <4> QED
        BY <4>1
    <3> QED
      BY <2>2, <2>3, <2>4, <2>5, <3>1
  <2>7. u = v
    BY <2>1, <2>5, <2>6, SeqEqual
  <2> QED
    BY <2>7 DEF u, v
<1>5. /\ i \in DOMAIN x <=> i <= Len(H(x))
      /\ i \in DOMAIN x => H(x)[i] = x[i]
      /\ i \in DOMAIN y <=> i <= Len(H(y))
      /\ i \in DOMAIN y => H(y)[i] = y[i]
  BY <1>3
<1> QED
  BY <1>4, <1>5

-----------------------------------------------------------------------------
(* The inductive invariant *)

Fields == {"kind", "stage", "given", "wire", "fate", "got"}

\* An SMF_DPD option under way: a header of whole bytes that holds the type
\* and the length at least, is what encode has written if it is intact, and
\* what decode makes of it once it has arrived.
DpdInv ==
  task.kind = "dpd" =>
    /\ IsOption(task.given) /\ task.wire \in Seq(Byte) /\ Len(task.wire) >= 2
    /\ \/ task.stage = "wire" /\ task.got = {}
       \/ task.stage = "done" /\ task.got = Decode(OptionData(task.wire))
    /\ task.fate = "intact" => task.wire = Encode(task.given) \o Padding

\* The echo of Option 82.
EchoOf(b, a) ==
  b \o VssSubOpt(task.given)
    \o (IF task.fate = "supported" THEN <<>> ELSE VssControl) \o a

Vss4Inv ==
  task.kind = "vss4" =>
    /\ task.given \in VssConfig /\ task.wire \in Seq(Byte)
    /\ task.stage = "wire" => task.wire = VssSubOpt(task.given)
    /\ task.stage # "wire" => \E b, a \in OtherOpts : task.wire = EchoOf(b, a)
    /\ task.stage = "done" => task.got = {CheckServerSupport(task.wire)}

Vss6Inv ==
  task.kind = "vss6" =>
    /\ task.given \in VssConfig
    /\ \E b, a \in OtherV6Opts :
         task.got = ExtractV6(b \o <<EncodeV6(task.given)>> \o a)

\* What the key of a packet is made of.
Keyed(p) ==
  \E f \in Flows :
    \/ /\ p.how = "option" /\ p.id \in Seq(Byte)
       /\ p.key = DpdKey(f[1], f[2], BytesToU64(p.id))
    \/ /\ p.how = "raw"
       /\ \E n \in RawIds : p.id = <<n>> /\ p.key = DpdKey(f[1], f[2], U64From(n))
    \/ p.how = "hash" /\ p.id \in Payloads /\ p.key = HDpdHash(f[1], f[2], p.id)

SeenInv ==
  /\ IsFiniteSet(seen) /\ Cardinality(seen) <= MaxSeen
  /\ \A p \in seen : Keyed(p)

CodecInv ==
  /\ agent \in Configs \cup {NoAgent}
  /\ DOMAIN task = Fields /\ task.stage \in {"wire", "echoed", "done"}
  /\ DpdInv /\ Vss4Inv /\ Vss6Inv /\ SeenInv

\* The data of a header, however it has been cut, fits into a length byte.
LEMMA DataOfHeader ==
  ASSUME NEW w \in Seq(Byte), Len(w) >= 2
  PROVE  OptionData(w) \in Seq(Byte) /\ Len(OptionData(w)) <= 255
<1> DEFINE e == IF 2 + w[2] <= Len(w) THEN 2 + w[2] ELSE Len(w)
<1>1. Len(w) \in Nat /\ w[2] \in Byte
  <2>1. Len(w) \in Nat
    BY LenProperties
  <2>2. 2 \in 1..Len(w)
    BY <2>1
  <2> QED
    BY <2>1, <2>2, ElementOfSeq
<1>2. \A n \in Nat, x \in Byte : n >= 2 =>
        LET c == IF 2 + x <= n THEN 2 + x ELSE n
        IN  c \in 0..n /\ 3 \in 1 .. n + 1 /\ 3 <= c + 1 /\ c + 1 - 3 <= 255
  BY DEF Byte
<1>3. e \in 0..Len(w) /\ 3 \in 1 .. Len(w) + 1 /\ 3 <= e + 1 /\ e + 1 - 3 <= 255
  BY <1>1, <1>2
<1> HIDE DEF e
<1>4. SubSeq(w, 3, e) \in Seq(Byte) /\ Len(SubSeq(w, 3, e)) = e + 1 - 3
  BY <1>3, BytesPart
<1>5. OptionData(w) = SubSeq(w, 3, e)
  BY DEF OptionData, e
<1> QED
  BY <1>3, <1>4, <1>5

\* The header that is sent.
LEMMA SentHeader ==
  ASSUME NEW o, IsOption(o)
  PROVE  Encode(o) \o Padding \in Seq(Byte) /\ Len(Encode(o) \o Padding) >= 2
<1>1. Encode(o) \in Seq(Byte)
  BY EncodeData
<1>2. Padding \in Seq(Byte) /\ Len(Padding) = 3
  <2>1. 0 \in Byte /\ 1 \in Byte
    BY DEF Byte
  <2> QED
    BY <2>1 DEF Padding
<1>3. /\ Encode(o) \o Padding \in Seq(Byte)
      /\ Len(Encode(o) \o Padding) = Len(Encode(o)) + Len(Padding)
      /\ Len(Encode(o)) \in Nat
  BY <1>1, <1>2, BytesOfConcat
<1> QED
  BY <1>2, <1>3

\* A well-formed option that arrives intact is decoded to itself.
LEMMA IntactDecoded ==
  ASSUME NEW o, IsOption(o), WellFormed(o)
  PROVE  Decode(OptionData(Encode(o) \o Padding)) = {o}
<1> DEFINE d == Data(o)
<1>1. d \in Seq(Byte)
  BY DataFacts
<1>2. Len(d) = OptDataLen(o) /\ Decode(d) = {o}
  BY DecodeData
<1>3. OptDataLen(o) \in Nat /\ OptDataLen(o) <= 255
  BY OptionParts DEF WellFormed
<1>4. OptDataLen(o) % 256 = OptDataLen(o) /\ OptDataLen(o) \in Byte
  <2>1. \A n \in Nat : n <= 255 => n % 256 = n /\ n \in Byte
    BY DEF Byte
  <2> QED
    BY <1>3, <2>1
<1>5. Encode(o) = <<SMF_DPD_OPTION_TYPE, Len(d)>> \o d
  BY <1>2, <1>4, EncodeData
<1>6. Padding \in Seq(Byte)
  <2>1. 0 \in Byte /\ 1 \in Byte
    BY DEF Byte
  <2> QED
    BY <2>1 DEF Padding
<1> HIDE DEF d
<1>7. OptionData((<<SMF_DPD_OPTION_TYPE, Len(d)>> \o d) \o Padding) = d
  BY <1>1, <1>2, <1>4, <1>6, OptionDataFound
<1> QED
  BY <1>2, <1>5, <1>7

\* A header with its flags changed.
LEMMA GarbledHeader ==
  ASSUME NEW w \in Seq(Byte), NEW b \in Byte
  PROVE  [w EXCEPT ![3] = b] \in Seq(Byte) /\ Len([w EXCEPT ![3] = b]) = Len(w)
<1>1. DOMAIN w = 1..Len(w) /\ w = [i \in DOMAIN w |-> w[i]]
  BY LenProperties
<1>2. CASE 3 \in 1..Len(w)
  BY <1>2, ExceptSeq
<1>3. CASE 3 \notin 1..Len(w)
  <2>1. [w EXCEPT ![3] = b] = w
    BY <1>1, <1>3
  <2> QED
    BY <2>1
<1> QED
  BY <1>2, <1>3

-----------------------------------------------------------------------------
(* The actions preserve it *)

\* Initially there is no exchange.
LEMMA NoTaskFacts ==
  /\ DOMAIN NoTask = Fields /\ NoTask.stage = "done" /\ NoTask.kind = "none"
  BY DEF NoTask, Fields

\* CodecInv holds before the first exchange.
LEMMA InitCodec == Init => CodecInv
<1> SUFFICES ASSUME Init PROVE CodecInv
  OBVIOUS
<1>1. agent = NoAgent /\ task = NoTask /\ seen = {}
  BY DEF Init
<1>2. SeenInv
  <2>1. IsFiniteSet(seen) /\ Cardinality(seen) = 0
    BY <1>1, FS_EmptySet
  <2>2. MaxSeen \in Nat
    BY BoundsAssumption
  <2>3. \A p \in seen : Keyed(p)
    BY <1>1
  <2> QED
    BY <2>1, <2>2, <2>3 DEF SeenInv
<1>3. DpdInv /\ Vss4Inv /\ Vss6Inv
  BY <1>1, NoTaskFacts DEF DpdInv, Vss4Inv, Vss6Inv
<1> QED
  BY <1>1, <1>2, <1>3, NoTaskFacts DEF CodecInv

\* A step that leaves the packets seen alone and gives the agent and the
\* exchange the form they must have.
LEMMA ExchangeStep ==
  ASSUME CodecInv, UNCHANGED seen, agent' \in Configs \cup {NoAgent},
         DOMAIN task' = Fields, task'.stage \in {"wire", "echoed", "done"},
         DpdInv', Vss4Inv', Vss6Inv'
  PROVE  CodecInv'
<1>1. SeenInv'
  BY DEF CodecInv, SeenInv, Keyed
<1> QED
  BY <1>1 DEF CodecInv

\* RelayAgent::new begins no exchange.
LEMMA NewStep ==
  ASSUME CodecInv, NEW cfg \in Configs, New(cfg)
  PROVE  CodecInv'
<1>1. agent' = cfg /\ UNCHANGED task /\ UNCHANGED seen
  BY DEF New
<1>2. DpdInv' /\ Vss4Inv' /\ Vss6Inv'
  BY <1>1 DEF CodecInv, DpdInv, Vss4Inv, Vss6Inv, EchoOf
<1>3. DOMAIN task' = Fields /\ task'.stage \in {"wire", "echoed", "done"}
  BY <1>1 DEF CodecInv
<1> QED
  BY <1>1, <1>2, <1>3, ExchangeStep

\* A header is sent as encode has written it.
LEMMA SendDpdStep ==
  ASSUME CodecInv, NEW o \in Options, SendDpd(o)
  PROVE  CodecInv'
<1>1. /\ task' = [NoTask EXCEPT !.kind = "dpd", !.stage = "wire", !.given = o,
                                !.wire = Encode(o) \o Padding]
      /\ UNCHANGED agent /\ UNCHANGED seen
  BY DEF SendDpd
<1>2. IsOption(o)
  BY BoundsAssumption
<1>3. /\ DOMAIN task' = Fields /\ task'.kind = "dpd" /\ task'.stage = "wire"
      /\ task'.given = o /\ task'.wire = Encode(o) \o Padding /\ task'.got = {}
  BY <1>1 DEF NoTask, Fields
<1>4. DpdInv'
  BY <1>2, <1>3, SentHeader DEF DpdInv
<1>5. Vss4Inv' /\ Vss6Inv'
  BY <1>3 DEF Vss4Inv, Vss6Inv
<1>6. agent' \in Configs \cup {NoAgent}
  BY <1>1 DEF CodecInv
<1> QED
  BY <1>1, <1>3, <1>4, <1>5, <1>6, ExchangeStep

\* A header that arrives as w.
LEMMA DamageStep ==
  ASSUME CodecInv, NEW w \in Seq(Byte), Len(w) >= 2, Damage(w)
  PROVE  CodecInv'
<1>1. /\ task.kind = "dpd" /\ task.stage = "wire"
      /\ task' = [task EXCEPT !.wire = w, !.fate = "damaged"]
      /\ UNCHANGED agent /\ UNCHANGED seen
  BY DEF Damage
<1>2. DOMAIN task = Fields /\ IsOption(task.given) /\ task.got = {}
  BY <1>1 DEF CodecInv, DpdInv
<1>3. /\ DOMAIN task' = Fields /\ task'.kind = "dpd" /\ task'.stage = "wire"
      /\ task'.given = task.given /\ task'.wire = w /\ task'.got = {}
      /\ task'.fate = "damaged"
  BY <1>1, <1>2 DEF Fields
<1>4. DpdInv'
  BY <1>2, <1>3 DEF DpdInv
<1>5. Vss4Inv' /\ Vss6Inv'
  BY <1>3 DEF Vss4Inv, Vss6Inv
<1>6. agent' \in Configs \cup {NoAgent}
  BY <1>1 DEF CodecInv
<1> QED
  BY <1>1, <1>3, <1>4, <1>5, <1>6, ExchangeStep

\* A header that is cut keeps its type and length.
LEMMA CutStep ==
  ASSUME CodecInv, NEW n \in CutLens, Cut(n)
  PROVE  CodecInv'
<1> DEFINE w == SubSeq(task.wire, 1, n)
<1>1. Damage(w) /\ n < Len(task.wire)
  BY DEF Cut
<1>2. task.wire \in Seq(Byte)
  BY <1>1 DEF Damage, CodecInv, DpdInv
<1>3. n \in Nat /\ n >= 2
  BY BoundsAssumption
<1>4. Len(task.wire) \in Nat
  BY <1>2, LenProperties
<1>5. /\ 1 \in 1 .. Len(task.wire) + 1 /\ n \in 0..Len(task.wire) /\ 1 <= n + 1
      /\ n + 1 - 1 = n
  BY <1>1, <1>3, <1>4
<1>6. w \in Seq(Byte) /\ Len(w) = n + 1 - 1
  BY <1>2, <1>5, BytesPart
<1>7. Len(w) >= 2
  BY <1>3, <1>5, <1>6
<1> HIDE DEF w
<1> QED
  BY <1>1, <1>6, <1>7, DamageStep

\* A header whose flags are changed keeps its length.
LEMMA GarbleStep ==
  ASSUME CodecInv, NEW b \in FlagBytes, Garble(b)
  PROVE  CodecInv'
<1> DEFINE w == [task.wire EXCEPT ![3] = b]
<1>1. Damage(w) /\ task.kind = "dpd"
  BY DEF Garble
<1>2. task.wire \in Seq(Byte) /\ Len(task.wire) >= 2
  BY <1>1 DEF CodecInv, DpdInv
<1>3. b \in Byte
  BY BoundsAssumption
<1>4. w \in Seq(Byte) /\ Len(w) >= 2
  BY <1>2, <1>3, GarbledHeader
<1> HIDE DEF w
<1> QED
  BY <1>1, <1>4, DamageStep

\* A header that has arrived is decoded as it is.
LEMMA ReceiveDpdStep ==
  ASSUME CodecInv, ReceiveDpd
  PROVE  CodecInv'
<1>1. /\ task.kind = "dpd"
      /\ task' = [task EXCEPT !.stage = "done", !.got = Decode(OptionData(task.wire))]
      /\ UNCHANGED agent /\ UNCHANGED seen
  BY DEF ReceiveDpd
<1>2. /\ DOMAIN task = Fields /\ IsOption(task.given)
      /\ task.wire \in Seq(Byte) /\ Len(task.wire) >= 2
      /\ task.fate = "intact" => task.wire = Encode(task.given) \o Padding
  BY <1>1 DEF CodecInv, DpdInv
<1>3. /\ DOMAIN task' = Fields /\ task'.kind = "dpd" /\ task'.stage = "done"
      /\ task'.given = task.given /\ task'.wire = task.wire /\ task'.fate = task.fate
      /\ task'.got = Decode(OptionData(task.wire))
  BY <1>1, <1>2 DEF Fields
<1>4. DpdInv'
  BY <1>2, <1>3 DEF DpdInv
<1>5. Vss4Inv' /\ Vss6Inv'
  BY <1>3 DEF Vss4Inv, Vss6Inv
<1>6. agent' \in Configs \cup {NoAgent}
  BY <1>1 DEF CodecInv
<1> QED
  BY <1>1, <1>3, <1>4, <1>5, <1>6, ExchangeStep

\* A packet with such a key is added to the ones seen.
LEMMA IdentifiedStep ==
  ASSUME CodecInv, NEW how, NEW id, NEW key, Identified(how, id, key),
         Keyed([how |-> how, id |-> id, key |-> key])
  PROVE  CodecInv'
<1> DEFINE p == [how |-> how, id |-> id, key |-> key]
<1>1. /\ Cardinality(seen) < MaxSeen /\ seen' = seen \cup {p}
      /\ task' = NoTask /\ UNCHANGED agent
  BY DEF Identified
<1>2. Keyed(p)
  OBVIOUS
<1> HIDE DEF p
<1>3. IsFiniteSet(seen) /\ \A q \in seen : Keyed(q)
  BY DEF CodecInv, SeenInv
<1>4. /\ IsFiniteSet(seen') /\ Cardinality(seen') \in Nat
      /\ Cardinality(seen') = Cardinality(seen) \/ Cardinality(seen') = Cardinality(seen) + 1
  <2>1. IsFiniteSet(seen \cup {p})
    BY <1>3, FS_AddElement
  <2>2. Cardinality(seen \cup {p}) =
          IF p \in seen THEN Cardinality(seen) ELSE Cardinality(seen) + 1
    BY <1>3, FS_AddElement
  <2>3. Cardinality(seen \cup {p}) \in Nat
    BY <2>1, FS_CardinalityType
  <2> QED
    BY <1>1, <2>1, <2>2, <2>3
<1>5. Cardinality(seen) \in Nat /\ MaxSeen \in Nat
  BY <1>3, FS_CardinalityType, BoundsAssumption
<1>6. Cardinality(seen') <= MaxSeen
  BY <1>1, <1>4, <1>5
<1>7. \A q \in seen' : Keyed(q)
  BY <1>1, <1>2, <1>3
<1>8. SeenInv'
  BY <1>4, <1>6, <1>7 DEF SeenInv, Keyed
<1>9. DpdInv' /\ Vss4Inv' /\ Vss6Inv'
  BY <1>1, NoTaskFacts DEF DpdInv, Vss4Inv, Vss6Inv
<1>10. agent' \in Configs \cup {NoAgent}
  BY <1>1 DEF CodecInv
<1> QED
  BY <1>1, <1>8, <1>9, <1>10, NoTaskFacts DEF CodecInv

\* What an option has been decoded to is an option.
LEMMA GotOptions ==
  ASSUME CodecInv, task.kind = "dpd", NEW o \in task.got
  PROVE  /\ task.stage = "done" /\ IsOption(o)
         /\ LET data == OptionData(task.wire)
            IN  Encode(o) = <<SMF_DPD_OPTION_TYPE, Len(data)>> \o data
<1>1. /\ task.stage = "done" /\ task.got = Decode(OptionData(task.wire))
      /\ task.wire \in Seq(Byte) /\ Len(task.wire) >= 2
  BY DEF CodecInv, DpdInv
<1> DEFINE d == OptionData(task.wire)
<1>2. d \in Seq(Byte) /\ Len(d) <= 255
  BY <1>1, DataOfHeader
<1>3. o \in Decode(d)
  BY <1>1
<1> HIDE DEF d
<1>4. IsOption(o) /\ Encode(o) = <<SMF_DPD_OPTION_TYPE, Len(d)>> \o d
  BY <1>2, <1>3, EncodeDecoded
<1> QED
  BY <1>1, <1>4 DEF d

\* The key of a packet with an option.
LEMMA IdentifyOptionStep ==
  ASSUME CodecInv, NEW f \in Flows, IdentifyOption(f)
  PROVE  CodecInv'
<1>1. task.kind = "dpd"
  BY DEF IdentifyOption
<1>2. PICK o \in task.got :
        Identified("option", o.identifier, IDpdPacketIdFromOption(f[1], f[2], o))
  BY DEF IdentifyOption
<1>3. o.identifier \in Seq(Byte)
  BY <1>1, GotOptions, OptionParts
<1> DEFINE id == o.identifier
           key == IDpdPacketIdFromOption(f[1], f[2], o)
<1>4. key = DpdKey(f[1], f[2], BytesToU64(id))
  BY DEF IDpdPacketIdFromOption
<1> HIDE DEF id, key
<1>5. Keyed([how |-> "option", id |-> id, key |-> key])
  BY <1>3, <1>4 DEF Keyed, id
<1> QED
  BY <1>2, <1>5, IdentifiedStep DEF id, key

\* The key of a packet with an identification number.
LEMMA IdentifyRawStep ==
  ASSUME CodecInv, NEW f \in Flows, NEW n \in RawIds, IdentifyRaw(f, n)
  PROVE  CodecInv'
<1> DEFINE key == IDpdPacketIdFromRaw(f[1], f[2], n)
<1>1. Identified("raw", <<n>>, key)
  BY DEF IdentifyRaw
<1>2. key = DpdKey(f[1], f[2], U64From(n))
  BY DEF IDpdPacketIdFromRaw
<1> HIDE DEF key
<1>3. Keyed([how |-> "raw", id |-> <<n>>, key |-> key])
  BY <1>2 DEF Keyed
<1> QED
  BY <1>1, <1>3, IdentifiedStep

\* The key of a packet that is hashed.
LEMMA IdentifyHashStep ==
  ASSUME CodecInv, NEW f \in Flows, NEW x \in Payloads, IdentifyHash(f, x)
  PROVE  CodecInv'
<1> DEFINE key == HDpdHash(f[1], f[2], x)
<1>1. Identified("hash", x, key)
  BY DEF IdentifyHash
<1>2. key = HDpdHash(f[1], f[2], x)
  OBVIOUS
<1> HIDE DEF key
<1>3. Keyed([how |-> "hash", id |-> x, key |-> key])
  BY <1>2 DEF Keyed
<1> QED
  BY <1>1, <1>3, IdentifiedStep

\* Sub-option 151 is bytes, whatever the length of the info.
LEMMA VssSubOptBytes ==
  ASSUME NEW v \in VssConfig
  PROVE  VssSubOpt(v) \in Seq(Byte)
<1> DEFINE i == v.vss_info
           l == (1 + Len(i)) % 256
           h == <<VSS_SUBOPT_CODE, l, v.vss_type>>
<1>1. i \in Seq(Byte) /\ v.vss_type \in Byte
  BY DEF VssConfig
<1>2. l \in Byte
  <2>1. \A n \in Nat : (1 + n) % 256 \in Byte
    BY DEF Byte
  <2> QED
    BY <1>1, <2>1, LenProperties
<1>3. VSS_SUBOPT_CODE \in Byte
  BY DEF VSS_SUBOPT_CODE, Byte
<1> HIDE DEF l, i
<1>4. h \in Seq(Byte)
  BY <1>1, <1>2, <1>3 DEF i
<1> HIDE DEF h
<1>5. h \o i \in Seq(Byte)
  BY <1>1, <1>4, BytesOfConcat
<1> QED
  BY <1>5 DEF VssSubOpt, h, i, l

\* The VSS of an agent is one of the configurations'.
LEMMA AgentVss ==
  ASSUME CodecInv, agent # NoAgent
  PROVE  agent.dhcpv4 \in VssConfig /\ agent.dhcpv6 \in VssConfig
<1>1. agent \in Configs
  BY DEF CodecInv
<1> QED
  BY <1>1, VssAssumption

\* The agent sends sub-option 151.
LEMMA SendVss4Step ==
  ASSUME CodecInv, SendVss4
  PROVE  CodecInv'
<1> DEFINE v == agent.dhcpv4
<1>1. /\ task' = [NoTask EXCEPT !.kind = "vss4", !.stage = "wire", !.given = v,
                                !.wire = VssSubOpt(v)]
      /\ UNCHANGED agent /\ UNCHANGED seen
  BY DEF SendVss4
<1>2. v \in VssConfig
  BY AgentVss DEF SendVss4
<1> HIDE DEF v
<1>3. /\ DOMAIN task' = Fields /\ task'.kind = "vss4" /\ task'.stage = "wire"
      /\ task'.given = v /\ task'.wire = VssSubOpt(v)
  BY <1>1 DEF NoTask, Fields
<1>4. Vss4Inv'
  BY <1>2, <1>3, VssSubOptBytes DEF Vss4Inv
<1>5. DpdInv' /\ Vss6Inv'
  BY <1>3 DEF DpdInv, Vss6Inv
<1>6. agent' \in Configs \cup {NoAgent}
  BY <1>1 DEF CodecInv
<1> QED
  BY <1>1, <1>3, <1>4, <1>5, <1>6, ExchangeStep

\* The server echoes it among other sub-options.
LEMMA EchoStep ==
  ASSUME CodecInv, NEW b \in OtherOpts, NEW a \in OtherOpts, NEW supports \in BOOLEAN,
         Echo(b, a, supports)
  PROVE  CodecInv'
<1> DEFINE v == task.given
           c == IF supports THEN <<>> ELSE VssControl
           fate == IF supports THEN "supported" ELSE "unsupported"
           w == b \o VssSubOpt(v) \o c \o a
<1>1. task.kind = "vss4" /\ task.stage = "wire" /\ UNCHANGED agent /\ UNCHANGED seen
  BY DEF Echo
<1>2. v \in VssConfig /\ task.wire = VssSubOpt(v) /\ DOMAIN task = Fields
  BY <1>1 DEF CodecInv, Vss4Inv
<1>3. task' = [task EXCEPT !.stage = "echoed", !.fate = fate, !.wire = w]
  BY <1>2 DEF Echo
<1>4. w \in Seq(Byte)
  <2>1. b \in Seq(Byte) /\ a \in Seq(Byte)
    BY VssAssumption
  <2>2. c \in Seq(Byte)
    <3>1. VSS_CONTROL_SUBOPT_CODE \in Byte /\ 0 \in Byte
      BY DEF VSS_CONTROL_SUBOPT_CODE, Byte
    <3> QED
      BY <3>1 DEF VssControl
  <2>3. VssSubOpt(v) \in Seq(Byte)
    BY <1>2, VssSubOptBytes
  <2> HIDE DEF c, v
  <2>4. b \o VssSubOpt(v) \in Seq(Byte)
    BY <2>1, <2>3, BytesOfConcat
  <2>5. b \o VssSubOpt(v) \o c \in Seq(Byte)
    BY <2>2, <2>4, BytesOfConcat
  <2> QED
    BY <2>1, <2>5, BytesOfConcat
<1>5. c = IF fate = "supported" THEN <<>> ELSE VssControl
  OBVIOUS
<1>6. w = b \o VssSubOpt(v) \o c \o a
  OBVIOUS
<1> HIDE DEF v, w, c, fate
<1>7. /\ DOMAIN task' = Fields /\ task'.kind = "vss4" /\ task'.stage = "echoed"
      /\ task'.given = v /\ task'.wire = w /\ task'.fate = fate
  BY <1>1, <1>2, <1>3 DEF Fields, v
<1>8. EchoOf(b, a)' = w
  BY <1>5, <1>6, <1>7 DEF EchoOf
<1>9. Vss4Inv'
  <2>1. \E b2, a2 \in OtherOpts : task'.wire = EchoOf(b2, a2)'
    BY <1>7, <1>8
  <2> QED
    BY <1>2, <1>4, <1>7, <2>1 DEF Vss4Inv
<1>10. DpdInv' /\ Vss6Inv'
  BY <1>7 DEF DpdInv, Vss6Inv
<1>11. agent' \in Configs \cup {NoAgent}
  BY <1>1 DEF CodecInv
<1> QED
  BY <1>1, <1>7, <1>9, <1>10, <1>11, ExchangeStep

\* check_server_support looks at the echo.
LEMMA CheckEchoStep ==
  ASSUME CodecInv, CheckEcho
  PROVE  CodecInv'
<1>1. /\ task.kind = "vss4" /\ task.stage = "echoed"
      /\ task' = [task EXCEPT !.stage = "done", !.got = {CheckServerSupport(task.wire)}]
      /\ UNCHANGED agent /\ UNCHANGED seen
  BY DEF CheckEcho
<1>2. /\ DOMAIN task = Fields /\ task.given \in VssConfig /\ task.wire \in Seq(Byte)
      /\ \E b, a \in OtherOpts : task.wire = EchoOf(b, a)
  BY <1>1 DEF CodecInv, Vss4Inv
<1>3. /\ DOMAIN task' = Fields /\ task'.kind = "vss4" /\ task'.stage = "done"
      /\ task'.given = task.given /\ task'.wire = task.wire /\ task'.fate = task.fate
      /\ task'.got = {CheckServerSupport(task.wire)}
  BY <1>1, <1>2 DEF Fields
<1>4. \E b, a \in OtherOpts : task'.wire = EchoOf(b, a)'
  BY <1>2, <1>3 DEF EchoOf
<1>5. Vss4Inv'
  BY <1>2, <1>3, <1>4 DEF Vss4Inv
<1>6. DpdInv' /\ Vss6Inv'
  BY <1>3 DEF DpdInv, Vss6Inv
<1>7. agent' \in Configs \cup {NoAgent}
  BY <1>1 DEF CodecInv
<1> QED
  BY <1>1, <1>3, <1>5, <1>6, <1>7, ExchangeStep

\* vss::extract looks at a message with the VSS option.
LEMMA ExchangeVss6Step ==
  ASSUME CodecInv, NEW b \in OtherV6Opts, NEW a \in OtherV6Opts, ExchangeVss6(b, a)
  PROVE  CodecInv'
<1> DEFINE v == agent.dhcpv6
           opts == b \o <<EncodeV6(v)>> \o a
<1>1. /\ task' = [NoTask EXCEPT !.kind = "vss6", !.given = v, !.wire = opts,
                                !.got = ExtractV6(opts)]
      /\ UNCHANGED agent /\ UNCHANGED seen
  BY DEF ExchangeVss6
<1>2. v \in VssConfig
  BY AgentVss DEF ExchangeVss6
<1>3. /\ DOMAIN task' = Fields /\ task'.kind = "vss6" /\ task'.stage = "done"
      /\ task'.given = v /\ task'.got = ExtractV6(b \o <<EncodeV6(v)>> \o a)
  BY <1>1 DEF NoTask, Fields
<1> HIDE DEF v, opts
<1>4. Vss6Inv'
  BY <1>2, <1>3 DEF Vss6Inv
<1>5. DpdInv' /\ Vss4Inv'
  BY <1>3 DEF DpdInv, Vss4Inv
<1>6. agent' \in Configs \cup {NoAgent}
  BY <1>1 DEF CodecInv
<1> QED
  BY <1>1, <1>3, <1>4, <1>5, <1>6, ExchangeStep

\* CodecInv is inductive.
LEMMA NextCodec == CodecInv /\ [Next]_vars => CodecInv'
<1> SUFFICES ASSUME CodecInv, [Next]_vars PROVE CodecInv'
  OBVIOUS
<1>1. ASSUME NEW cfg \in Configs, New(cfg) PROVE CodecInv'
  BY <1>1, NewStep
<1>2. ASSUME NEW o \in Options, SendDpd(o) PROVE CodecInv'
  BY <1>2, SendDpdStep
<1>3. ASSUME NEW n \in CutLens, Cut(n) PROVE CodecInv'
  BY <1>3, CutStep
<1>4. ASSUME NEW b \in FlagBytes, Garble(b) PROVE CodecInv'
  BY <1>4, GarbleStep
<1>5. CASE ReceiveDpd
  BY <1>5, ReceiveDpdStep
<1>6. ASSUME NEW f \in Flows, IdentifyOption(f) PROVE CodecInv'
  BY <1>6, IdentifyOptionStep
<1>7. ASSUME NEW f \in Flows, NEW n \in RawIds, IdentifyRaw(f, n) PROVE CodecInv'
  BY <1>7, IdentifyRawStep
<1>8. ASSUME NEW f \in Flows, NEW x \in Payloads, IdentifyHash(f, x) PROVE CodecInv'
  BY <1>8, IdentifyHashStep
<1>9. CASE SendVss4
  BY <1>9, SendVss4Step
<1>10. ASSUME NEW b \in OtherOpts, NEW a \in OtherOpts, NEW supports \in BOOLEAN,
              Echo(b, a, supports)
       PROVE  CodecInv'
  BY <1>10, EchoStep
<1>11. CASE CheckEcho
  BY <1>11, CheckEchoStep
<1>12. ASSUME NEW b \in OtherV6Opts, NEW a \in OtherV6Opts, ExchangeVss6(b, a)
       PROVE  CodecInv'
  BY <1>12, ExchangeVss6Step
<1>13. CASE UNCHANGED vars
  <2>1. UNCHANGED agent /\ UNCHANGED task /\ UNCHANGED seen
    BY <1>13 DEF vars
  <2>2. DpdInv' /\ Vss4Inv' /\ Vss6Inv'
    BY <2>1 DEF CodecInv, DpdInv, Vss4Inv, Vss6Inv, EchoOf
  <2>3. /\ agent' \in Configs \cup {NoAgent} /\ DOMAIN task' = Fields
        /\ task'.stage \in {"wire", "echoed", "done"}
    BY <2>1 DEF CodecInv
  <2> QED
    BY <2>1, <2>2, <2>3, ExchangeStep
<1> QED
  BY <1>1, <1>2, <1>3, <1>4, <1>5, <1>6, <1>7, <1>8, <1>9, <1>10, <1>11,
     <1>12, <1>13 DEF Next

\* The exchanges and the packets seen have the form that CodecInv states.
LEMMA CodecInvariant == Spec => []CodecInv
  BY InitCodec, NextCodec, PTL DEF Spec

-----------------------------------------------------------------------------
(* The properties *)

\* OptionCodecs.TypeOK: headers are bytes, however they have been damaged, and
\* decode returns options only.
THEOREM TypeCorrect == Spec => []TypeOK
<1>1. ASSUME CodecInv PROVE TypeOK
  <2>1. task.kind \in {"dpd", "vss4"} => task.wire \in Seq(Byte)
    BY <1>1 DEF CodecInv, DpdInv, Vss4Inv
  <2>2. task.kind = "dpd" => \A o \in task.got : IsOption(o)
    BY <1>1, GotOptions
  <2> QED
    BY <1>1, <2>1, <2>2 DEF TypeOK, CodecInv, SeenInv
<1> QED
  BY <1>1, CodecInvariant, PTL

\* OptionCodecs.RoundTrip: encode and decode agree on every well-formed option
\* that arrives intact, for every length of tagger id and identifier.
THEOREM IntactRoundTrip == Spec => []RoundTrip
<1>1. ASSUME CodecInv PROVE RoundTrip
  <2> SUFFICES ASSUME task.kind = "dpd", task.stage = "done", task.fate = "intact",
                      WellFormed(task.given)
               PROVE  task.got = {task.given}
    BY DEF RoundTrip
  <2>1. /\ IsOption(task.given) /\ task.got = Decode(OptionData(task.wire))
        /\ task.wire = Encode(task.given) \o Padding
    BY <1>1 DEF CodecInv, DpdInv
  <2> QED
    BY <2>1, IntactDecoded
<1> QED
  BY <1>1, CodecInvariant, PTL

\* OptionCodecs.DecodeExact: whatever has happened to a header on the way, an
\* option that decode accepts encodes to the very bytes that have arrived.
THEOREM DecodedExactly == Spec => []DecodeExact
<1>1. ASSUME CodecInv PROVE DecodeExact
  BY <1>1, GotOptions DEF DecodeExact
<1> QED
  BY <1>1, CodecInvariant, PTL

\* The key of a packet that is identified by a number.
LEMMA RawKey ==
  ASSUME NEW p, Keyed(p), p.how = "raw"
  PROVE  \E n \in RawIds : p.id = <<n>> /\ p.key.packet_id = U64From(n)
<1>1. PICK f \in Flows, n \in RawIds :
        p.id = <<n>> /\ p.key = DpdKey(f[1], f[2], U64From(n))
  BY DEF Keyed
<1>2. DpdKey(f[1], f[2], U64From(n)).packet_id = U64From(n)
  BY DEF DpdKey
<1> QED
  BY <1>1, <1>2

\* OptionCodecs.KeySeparates: packets of different flows, numbers, identifiers
\* or payloads, as MustDiffer says, never share a key of the DPD cache.
THEOREM KeysSeparate == Spec => []KeySeparates
<1>1. ASSUME CodecInv PROVE KeySeparates
  <2> SUFFICES ASSUME NEW p \in seen, NEW q \in seen, MustDiffer(p, q), p.key = q.key
               PROVE  FALSE
    BY DEF KeySeparates
  <2>1. Keyed(p) /\ Keyed(q)
    BY <1>1 DEF CodecInv, SeenInv
  <2>2. p.key.src_addr = q.key.src_addr /\ p.key.dst_addr = q.key.dst_addr
        /\ p.key.packet_id = q.key.packet_id
    OBVIOUS
  <2>3. CASE p.how = "raw" /\ q.how = "raw" /\ p.id # q.id
    <3>1. PICK n \in RawIds : p.id = <<n>> /\ p.key.packet_id = U64From(n)
      BY <2>1, <2>3, RawKey
    <3>2. PICK k \in RawIds : q.id = <<k>> /\ q.key.packet_id = U64From(k)
      BY <2>1, <2>3, RawKey
    <3>3. n \in Nat /\ k \in Nat
      BY PacketAssumption
    <3>4. n = k
      BY <2>2, <3>1, <3>2, <3>3, U64FromSeparates
    <3> QED
      BY <2>3, <3>1, <3>2, <3>4
  <2>4. CASE /\ p.how = "option" /\ q.how = "option"
             /\ Len(p.id) = Len(q.id) /\ Len(p.id) <= 8 /\ p.id # q.id
    <3>1. p.id \in Seq(Byte) /\ p.key.packet_id = BytesToU64(p.id)
      BY <2>1, <2>4 DEF Keyed, DpdKey
    <3>2. q.id \in Seq(Byte) /\ q.key.packet_id = BytesToU64(q.id)
      BY <2>1, <2>4 DEF Keyed, DpdKey
    <3> QED
      BY <2>2, <2>4, <3>1, <3>2, BytesToU64Separates
  <2>5. CASE /\ p.how = "hash" /\ q.how = "hash"
             /\ \E i \in (1..64) \cap (DOMAIN p.id \cup DOMAIN q.id) :
                  i \in DOMAIN p.id \cap DOMAIN q.id => p.id[i] # q.id[i]
    <3>1. Differ64(p.id, q.id)
      BY <2>5 DEF Differ64
    <3>2. PICK f \in Flows : p.id \in Payloads /\ p.key = HDpdHash(f[1], f[2], p.id)
      BY <2>1, <2>5 DEF Keyed
    <3>3. PICK g \in Flows : q.id \in Payloads /\ q.key = HDpdHash(g[1], g[2], q.id)
      BY <2>1, <2>5 DEF Keyed
    <3>4. /\ p.id \in Seq(Byte) /\ q.id \in Seq(Byte)
          /\ f[1] \in Seq(Byte) /\ f[2] \in Seq(Byte)
      <4>1. f \in Seq(Byte) \X Seq(Byte)
        BY PacketAssumption
      <4> QED
        BY <3>2, <3>3, <4>1, PacketAssumption
    <3>5. /\ p.key.src_addr = f[1] /\ p.key.dst_addr = f[2]
          /\ p.key.packet_id = <<"murmur3", HashInput(f[1], f[2], p.id)>>
      BY <3>2 DEF HDpdHash, DpdKey
    <3>6. /\ q.key.src_addr = g[1] /\ q.key.dst_addr = g[2]
          /\ q.key.packet_id = <<"murmur3", HashInput(g[1], g[2], q.id)>>
      BY <3>3 DEF HDpdHash, DpdKey
    <3>7. HashInput(f[1], f[2], p.id) = HashInput(f[1], f[2], q.id)
      BY <2>2, <3>5, <3>6
    <3>8. ~Differ64(p.id, q.id)
      BY <3>4, <3>7, HashesDiffer
    <3> QED
      BY <3>1, <3>8
  <2>6. CASE /\ p.how = "raw" /\ q.how = "option" /\ Len(q.id) <= 4
             /\ \E i \in DOMAIN q.id : q.id[i] # 0
    <3>1. PICK n \in RawIds : p.key.packet_id = U64From(n)
      BY <2>1, <2>6, RawKey
    <3>2. q.id \in Seq(Byte) /\ q.key.packet_id = BytesToU64(q.id)
      BY <2>1, <2>6 DEF Keyed, DpdKey
    <3>3. n \in Nat
      BY PacketAssumption
    <3>4. PICK i \in DOMAIN q.id : q.id[i] # 0
      BY <2>6
    <3>5. U64From(n) # BytesToU64(q.id)
      BY <2>6, <3>2, <3>3, <3>4, NumberAndBytesDiffer
    <3> QED
      BY <2>2, <3>1, <3>2, <3>5
  <2> QED
    BY <2>2, <2>3, <2>4, <2>5, <2>6 DEF MustDiffer
<1> QED
  BY <1>1, CodecInvariant, PTL

\* OptionCodecs.VssUnderstood: check_server_support and vss::extract are right
\* whatever other sub-options and options there are and whatever their bytes.
THEOREM VssIsUnderstood == Spec => []VssUnderstood
<1>1. ASSUME CodecInv PROVE VssUnderstood
  <2>1. ASSUME task.kind = "vss4", task.stage = "done", Len(task.given.vss_info) <= 254
        PROVE  task.got = {task.fate = "supported"}
    <3>1. /\ task.given \in VssConfig /\ task.got = {CheckServerSupport(task.wire)}
          /\ \E b, a \in OtherOpts : task.wire = EchoOf(b, a)
      BY <1>1, <2>1 DEF CodecInv, Vss4Inv
    <3>2. PICK b \in OtherOpts, a \in OtherOpts : task.wire = EchoOf(b, a)
      BY <3>1
    <3>3. b \in Seq(Byte) /\ SubOptions(b) /\ a \in Seq(Byte) /\ SubOptions(a)
      BY VssAssumption
    <3> DEFINE v == task.given
    <3>4. /\ CheckServerSupport(b \o VssSubOpt(v) \o <<>> \o a) = TRUE
          /\ CheckServerSupport(b \o VssSubOpt(v) \o VssControl \o a) = FALSE
      BY <2>1, <3>1, <3>3, EchoUnderstood
    <3>5. CASE task.fate = "supported"
      <4>1. task.wire = b \o VssSubOpt(v) \o <<>> \o a
        BY <3>2, <3>5 DEF EchoOf
      <4>2. task.got = {TRUE}
        BY <3>1, <3>4, <4>1
      <4> QED
        BY <3>5, <4>2
    <3>6. CASE task.fate # "supported"
      <4>1. task.wire = b \o VssSubOpt(v) \o VssControl \o a
        BY <3>2, <3>6 DEF EchoOf
      <4>2. task.got = {FALSE}
        BY <3>1, <3>4, <4>1
      <4> QED
        BY <3>6, <4>2
    <3> QED
      BY <3>5, <3>6
  <2>2. ASSUME task.kind = "vss6"
        PROVE  task.got = {<<task.given.vss_type, task.given.vss_info>>}
    <3>1. PICK b \in OtherV6Opts, a \in OtherV6Opts :
            task.got = ExtractV6(b \o <<EncodeV6(task.given)>> \o a)
      BY <1>1, <2>2 DEF CodecInv, Vss6Inv
    <3>2. task.given \in VssConfig
      BY <1>1, <2>2 DEF CodecInv, Vss6Inv
    <3>3. /\ b \in Seq(V6Option) /\ \A k \in DOMAIN b : b[k].code # VSS_OPTION_CODE
          /\ a \in Seq(V6Option) /\ \A k \in DOMAIN a : a[k].code # VSS_OPTION_CODE
      BY VssAssumption
    <3> QED
      BY <3>1, <3>2, <3>3, ExtractUnderstood
  <2> QED
    BY <2>1, <2>2 DEF VssUnderstood
<1> QED
  BY <1>1, CodecInvariant, PTL
==============================================================================
