---------------------------- MODULE SmfDpdOption ----------------------------
(***************************************************************************)
(* The SMF_DPD Hop-by-Hop option (src/src/smf/dpd_option.rs) byte for      *)
(* byte, and the keys under which packets enter the DPD cache              *)
(* (dpd_ipv4.rs, dpd_ipv6.rs and h_dpd_hash of dpd.rs).                    *)
(*                                                                         *)
(* A byte string is a sequence of bytes.  An Option<T> is the set of its   *)
(* value, or the empty set for None.  A u64 is its eight bytes, the most   *)
(* significant one first.                                                  *)
(***************************************************************************)
EXTENDS Naturals, Sequences

Byte == 0..255

SMF_DPD_OPTION_TYPE == 8
TID_TYPE_NULL == 0

\* The bytes of an Option<Vec<u8>>.
BytesOf(v) == IF v = {} THEN <<>> ELSE CHOOSE b \in v : TRUE

\* SmfDpdOption; every field is public, so any combination can be built.
IsOption(o) ==
  /\ o \in [h_bit : BOOLEAN, tid_type : Byte, tid_len : Byte,
            tagger_id : SUBSET Seq(Byte), identifier : Seq(Byte)]
  /\ o.tagger_id \in {{}, {BytesOf(o.tagger_id)}}

NewDpd(h, id) ==
  [h_bit |-> h, tid_type |-> TID_TYPE_NULL, tid_len |-> 0,
   tagger_id |-> {}, identifier |-> id]

NewIDpd(identifier) == NewDpd(FALSE, identifier)
NewHDpd(hav) == NewDpd(TRUE, hav)

OptDataLen(o) == 1 + o.tid_len + Len(o.identifier)

\* A plausible slip: the type of the tagger id is shifted one bit too little.
FlagsShift4(o) ==
  LET low == ((o.tid_type * 16) % 256) + (o.tid_len % 32)
  IN  IF o.h_bit /\ low < 128 THEN low + 128 ELSE low

\* (tid_type << 5) | (tid_len & 0x1F), and 0x80 if h_bit is set.
Flags(o) ==
  LET low == ((o.tid_type * 32) % 256) + (o.tid_len % 32)
  IN  IF o.h_bit /\ low < 128 THEN low + 128 ELSE low

\* A plausible slip: the length is not cast to a byte.
EncodeNoCast(o) ==
  <<SMF_DPD_OPTION_TYPE, OptDataLen(o), Flags(o)>>
    \o BytesOf(o.tagger_id) \o o.identifier

\* SmfDpdOption::encode, the option type and length included.
Encode(o) ==
  <<SMF_DPD_OPTION_TYPE, OptDataLen(o) % 256, Flags(o)>>
    \o BytesOf(o.tagger_id) \o o.identifier

\* A plausible slip: the length of the tagger id is masked with 0x0F.
DecodeMask4(d) ==
  IF Len(d) < 2 \/ Len(d) <= 1 + (d[1] % 16) THEN {}
  ELSE LET tid_len == d[1] % 16 IN
       {[h_bit |-> d[1] >= 128, tid_type |-> (d[1] \div 32) % 4,
         tid_len |-> tid_len,
         tagger_id |-> IF tid_len = 0 THEN {} ELSE {SubSeq(d, 2, 1 + tid_len)},
         identifier |-> SubSeq(d, 2 + tid_len, Len(d))]}

\* SmfDpdOption::decode of what follows the option type and length; None if
\* the bytes end before, or with, the tagger id.
Decode(d) ==
  IF Len(d) < 2 \/ Len(d) <= 1 + (d[1] % 32) THEN {}
  ELSE LET tid_len == d[1] % 32 IN
       {[h_bit |-> d[1] >= 128, tid_type |-> (d[1] \div 32) % 4,
         tid_len |-> tid_len,
         tagger_id |-> IF tid_len = 0 THEN {} ELSE {SubSeq(d, 2, 1 + tid_len)},
         identifier |-> SubSeq(d, 2 + tid_len, Len(d))]}

-----------------------------------------------------------------------------
(* Packet identification. *)

\* A plausible slip: a u32 is filled.
BytesToU64Four(b) ==
  [i \in 1..8 |-> IF i <= Len(b) /\ i <= 4 THEN b[i] ELSE 0]

\* Up to eight bytes, filled up with zeros on the right.
BytesToU64(b) == [i \in 1..8 |-> IF i <= Len(b) THEN b[i] ELSE 0]

\* u64::from of a u16 or u32.
U64From(n) ==
  <<0, 0, 0, 0, n \div 16777216, (n \div 65536) % 256,
    (n \div 256) % 256, n % 256>>

DpdKey(src, dst, packet_id) ==
  [src_addr |-> src, dst_addr |-> dst, packet_id |-> packet_id]

IDpdPacketIdFromOption(src, dst, o) ==
  DpdKey(src, dst, BytesToU64(o.identifier))

\* i_dpd_packet_id and i_dpd_packet_id_from_raw.
IDpdPacketIdFromRaw(src, dst, n) == DpdKey(src, dst, U64From(n))

\* What h_dpd_hash hashes; the hash itself is taken to have no collisions.
HashInput(src, dst, payload) ==
  src \o dst \o SubSeq(payload, 1, IF Len(payload) < 64 THEN Len(payload) ELSE 64)

HDpdHash(src, dst, payload) ==
  DpdKey(src, dst, <<"murmur3", HashInput(src, dst, payload)>>)
=============================================================================
