------------------------------- MODULE Codec -------------------------------
(***************************************************************************)
(* The wire formats: operator frames, VESC commands and status, and the    *)
(* signed fields of DroneCAN.  A number is in the units of the wire (mm/s, *)
(* mrad/s, ERPM), rounded; what is not finite is NotFinite.  The checksum  *)
(* is any function crc from byte sequences to 16 bits.                     *)
(***************************************************************************)
EXTENDS Integers, Sequences

Wrap32 == 4294967296
RpmLimit == 2000000000

Octet == 0 .. 255
Word == {w \in Int : 0 <= w /\ w <= 65535}
Int16 == {v \in Int : -32768 <= v /\ v <= 32767}
Int32 == {v \in Int : -Wrap32 <= 2 * v /\ 2 * v < Wrap32}

NotFinite == "not finite"
Quantity == Int \cup {NotFinite}

(* clamp_i16, and the clamp of encode_vesc_set_rpm. *)
Within(q, low, high) ==
  IF q = NotFinite THEN 0 ELSE IF q > high THEN high ELSE IF q < low THEN low ELSE q

ClampI16(q) == Within(q, -32768, 32767)
ClampRpm(q) == Within(q, -RpmLimit, RpmLimit)

(* put_be16, put_be32: two's complement, high byte first. *)
Hi(v) == (v % 65536) \div 256
Lo(v) == v % 256
PutBe16(v) == <<Hi(v), Lo(v)>>
Upper(v) == (v % Wrap32) \div 65536
PutBe32(v) == <<Hi(Upper(v)), Lo(Upper(v)), Hi(v), Lo(v)>>

(* u of so many values, with the upper half negative. *)
Signed(u, values) == IF 2 * u >= values THEN u - values ELSE u

Be16(hi, lo) == Signed(256 * hi + lo, 65536)
Be32(p) == Signed(65536 * (256 * p[1] + p[2]) + 256 * p[3] + p[4], Wrap32)

-----------------------------------------------------------------------------
(* Operator frames. *)
OperatorFrame == [seq : Octet, mode : {0, 1}, v : Quantity, omega : Quantity]

Header(f) ==
  <<165, 90, 1, f.seq, f.mode, Hi(ClampI16(f.v)), Lo(ClampI16(f.v)),
    Hi(ClampI16(f.omega)), Lo(ClampI16(f.omega)), 0>>

(* encode_operator_frame *)
Encoded(f, crc) == Header(f) \o PutBe16(crc[Header(f)])

(* decode_operator_frame *)
Accepted(b, crc) ==
  /\ Len(b) = 12
  /\ b[1] = 165 /\ b[2] = 90 /\ b[3] = 1
  /\ crc[SubSeq(b, 1, 10)] = 256 * b[11] + b[12]
  /\ b[5] <= 1

Decoded(b) ==
  [seq |-> b[4], mode |-> b[5], v |-> Be16(b[6], b[7]), omega |-> Be16(b[8], b[9])]

-----------------------------------------------------------------------------
(* VESC frames. *)
Packets == {0, 1, 3, 9}
VescCanId(type, controller) == 256 * type + controller
SetRpm(q) == PutBe32(ClampRpm(q))

VescStatus(data) ==
  [erpm |-> Be32(data), current |-> Be16(data[5], data[6]), duty |-> Be16(data[7], data[8])]

-----------------------------------------------------------------------------
(* DroneCAN fields, low bits first: the int18 rpm of esc.Status, whose last*)
(* byte it shares, and the int14 of esc.RawCommand.                        *)
Int18(b0, b1, b2) == Signed(b0 + 256 * b1 + 65536 * (b2 % 4), 262144)
Int14(u) == Signed(u, 16384)
=============================================================================
