------------------------------ MODULE WireProofs ------------------------------
(***************************************************************************)
(* The wire.  What one side writes, the other reads: the codecs invert     *)
(* each other for every value that fits, and clamp every other one.  And   *)
(* the frame parser finds every intact frame, for frames of any length     *)
(* from three bytes on.                                                    *)
(***************************************************************************)
EXTENDS Codec, FrameParser, SequenceTheorems, TLAPS

-----------------------------------------------------------------------------
(* put_be16 and be16 are inverse on int16. *)
THEOREM Be16Inverts == ASSUME NEW v \in Int16 PROVE Be16(Hi(v), Lo(v)) = v
<1>1. (v % 65536) % 256 = v % 256
  BY DEF Int16
<1>2. 256 * Hi(v) + Lo(v) = (v % 65536)
  BY <1>1 DEF Int16, Hi, Lo
<1> QED
  BY <1>2 DEF Int16, Be16, Signed

LEMMA SixteenBits ==
  ASSUME NEW v \in Int
  PROVE  /\ Hi(v) \in Octet /\ Lo(v) \in Octet
         /\ 256 * Hi(v) + Lo(v) = (v % 65536)
<1>1. (v % 65536) % 256 = v % 256
  OBVIOUS
<1> QED
  BY <1>1 DEF Hi, Lo, Octet

LEMMA UpperHalf ==
  ASSUME NEW v \in Int
  PROVE  /\ Upper(v) \in Int /\ Upper(v) % 65536 = Upper(v)
         /\ 65536 * Upper(v) + (v % 65536) = v % Wrap32
<1>1. (v % Wrap32) % 65536 = v % 65536
  BY SMT DEF Wrap32
<1> QED
  BY <1>1, SMT DEF Upper, Wrap32

(* put_be32 and be32 are inverse on int32. *)
THEOREM Be32Inverts == ASSUME NEW v \in Int32 PROVE Be32(PutBe32(v)) = v
<1>1. v \in Int /\ -Wrap32 <= 2 * v /\ 2 * v < Wrap32
  BY DEF Int32
<1>2. /\ Upper(v) \in Int /\ Upper(v) % 65536 = Upper(v)
      /\ 65536 * Upper(v) + (v % 65536) = v % Wrap32
  BY <1>1, UpperHalf
<1>3. 256 * Hi(Upper(v)) + Lo(Upper(v)) = Upper(v)
  BY <1>2, SixteenBits
<1>4. 256 * Hi(v) + Lo(v) = v % 65536 /\ Hi(v) \in Int /\ Lo(v) \in Int
  <2>1. Hi(v) \in Octet /\ Lo(v) \in Octet /\ 256 * Hi(v) + Lo(v) = v % 65536
    BY <1>1, SixteenBits
  <2> QED
    BY <2>1 DEF Octet
<1>5. 65536 * Upper(v) + 256 * Hi(v) + Lo(v) = v % Wrap32
  <2>1. ASSUME NEW u \in Int, NEW h \in Int, NEW l \in Int, 256 * h + l = v % 65536,
               65536 * u + (v % 65536) = v % Wrap32
        PROVE  65536 * u + 256 * h + l = v % Wrap32
    BY <1>1, <2>1, SMT DEF Wrap32
  <2> QED
    BY <1>2, <1>4, <2>1
<1>6. Be32(PutBe32(v)) = Signed(v % Wrap32, Wrap32)
  BY <1>3, <1>5 DEF Be32, PutBe32
<1>7. Signed(v % Wrap32, Wrap32) = v
  BY <1>1, SMT DEF Signed, Wrap32
<1> QED
  BY <1>6, <1>7

-----------------------------------------------------------------------------
LEMMA WithinBounds ==
  ASSUME NEW low \in Int, NEW high \in Int, low <= 0, 0 <= high, NEW q \in Quantity
  PROVE  Within(q, low, high) \in Int /\ low <= Within(q, low, high) /\ Within(q, low, high) <= high
<1>1. CASE q = NotFinite
  BY <1>1 DEF Within
<1>2. CASE q # NotFinite
  <2>1. q \in Int
    BY <1>2 DEF Quantity
  <2> QED
    BY <1>2, <2>1 DEF Within
<1> QED
  BY <1>1, <1>2

LEMMA ClampTypes ==
  ASSUME NEW q \in Quantity
  PROVE  ClampI16(q) \in Int16 /\ ClampRpm(q) \in Int32
<1>1. ClampI16(q) \in Int16
  BY WithinBounds DEF ClampI16, Int16
<1>2. RpmLimit \in Int /\ 0 <= RpmLimit /\ 2 * RpmLimit < Wrap32 /\ Wrap32 \in Int
  BY SMT DEF RpmLimit, Wrap32
<1>3. ClampRpm(q) \in Int /\ -RpmLimit <= ClampRpm(q) /\ ClampRpm(q) <= RpmLimit
  BY <1>2, WithinBounds DEF ClampRpm
<1>4. ClampRpm(q) \in Int32
  BY <1>2, <1>3 DEF Int32
<1> QED
  BY <1>1, <1>4

(* A command that does not fit is cut off, never wrapped round: what the   *)
(* VESC reads has the sign of what the daemon meant, and is it if it fits; *)
(* what is not finite is a stop (encode_vesc_set_rpm).                     *)
THEOREM RpmKeepsItsSense ==
  /\ Be32(SetRpm(NotFinite)) = 0
  /\ \A q \in Int : q # NotFinite =>
       /\ q >= 0 => 0 <= Be32(SetRpm(q)) /\ Be32(SetRpm(q)) <= q
       /\ q <= 0 => q <= Be32(SetRpm(q)) /\ Be32(SetRpm(q)) <= 0
       /\ -RpmLimit <= q /\ q <= RpmLimit => Be32(SetRpm(q)) = q
<1>1. \A q \in Quantity : Be32(SetRpm(q)) = ClampRpm(q)
  BY ClampTypes, Be32Inverts DEF SetRpm
<1>2. ClampRpm(NotFinite) = 0
  BY DEF ClampRpm, Within
<1>3. NotFinite \in Quantity
  BY DEF Quantity
<1>4. RpmLimit \in Int /\ 0 <= RpmLimit
  BY SMT DEF RpmLimit
<1>5. ASSUME NEW q \in Int, q # NotFinite
      PROVE  /\ q >= 0 => 0 <= ClampRpm(q) /\ ClampRpm(q) <= q
             /\ q <= 0 => q <= ClampRpm(q) /\ ClampRpm(q) <= 0
             /\ -RpmLimit <= q /\ q <= RpmLimit => ClampRpm(q) = q
  BY <1>4, <1>5 DEF ClampRpm, Within
<1>6. \A q \in Int : Be32(SetRpm(q)) = ClampRpm(q)
  BY <1>1 DEF Quantity
<1> QED
  BY <1>1, <1>2, <1>3, <1>5, <1>6

(* No command is taken for a status, and no side's status for the other's: *)
(* the CAN ids of two packets or of two controllers differ.                *)
THEOREM CanIdsDiffer ==
  ASSUME NEW a \in Packets, NEW b \in Packets, NEW c \in Octet, NEW d \in Octet,
         VescCanId(a, c) = VescCanId(b, d)
  PROVE  a = b /\ c = d
BY DEF Packets, Octet, VescCanId

-----------------------------------------------------------------------------
(* Two octets behind ten: nothing of the ten moves. *)
LEMMA Appended ==
  ASSUME NEW S, NEW h \in Seq(S), Len(h) = 10, NEW x \in S, NEW y \in S
  PROVE  /\ Len(h \o <<x, y>>) = 12
         /\ (h \o <<x, y>>)[11] = x /\ (h \o <<x, y>>)[12] = y
         /\ \A i \in 1 .. 10 : (h \o <<x, y>>)[i] = h[i]
         /\ SubSeq(h \o <<x, y>>, 1, 10) = h
<1>1. PICK t : t = <<x, y>>
  OBVIOUS
<1>2. t \in Seq(S) /\ Len(t) = 2 /\ t[1] = x /\ t[2] = y
  BY <1>1
<1>3. PICK r : r = h \o t
  OBVIOUS
<1>4. /\ Len(r) = Len(h) + Len(t)
      /\ \A i \in 1 .. Len(h) + Len(t) : r[i] = IF i <= Len(h) THEN h[i] ELSE t[i - Len(h)]
  BY <1>2, <1>3, ConcatProperties
<1>5. Len(r) = 12 /\ \A i \in 1 .. 12 : r[i] = IF i <= 10 THEN h[i] ELSE t[i - 10]
  BY <1>2, <1>4
<1>6. r[11] = t[11 - 10] /\ r[12] = t[12 - 10]
  BY <1>5
<1>7. \A i \in 1 .. 10 : r[i] = h[i]
  BY <1>5
<1>8. SubSeq(r, 1, 10) = h
  <2>1. 1 \in 1 .. Len(h) /\ 10 \in 1 .. Len(h)
    OBVIOUS
  <2>2. SubSeq(h \o t, 1, 10) = SubSeq(h, 1, 10)
    BY <1>2, <2>1, SubSeqOfConcat1
  <2>3. SubSeq(h, 1, 10) = h
    BY SubSeqFull
  <2> QED
    BY <1>3, <2>2, <2>3
<1> QED
  BY <1>1, <1>2, <1>3, <1>5, <1>6, <1>7, <1>8

LEMMA HeaderOctets ==
  ASSUME NEW f \in OperatorFrame
  PROVE  /\ Header(f) \in Seq(Octet) /\ Len(Header(f)) = 10
         /\ ClampI16(f.v) \in Int16 /\ ClampI16(f.omega) \in Int16
<1>1. f.seq \in Octet /\ f.mode \in {0, 1} /\ f.v \in Quantity /\ f.omega \in Quantity
  BY DEF OperatorFrame
<1>2. ClampI16(f.v) \in Int16 /\ ClampI16(f.omega) \in Int16
  BY <1>1, ClampTypes
<1>3. PICK v, omega : v = ClampI16(f.v) /\ omega = ClampI16(f.omega)
  OBVIOUS
<1>4. v \in Int /\ omega \in Int
  BY <1>2, <1>3 DEF Int16
<1>5. Hi(v) \in Octet /\ Lo(v) \in Octet /\ Hi(omega) \in Octet /\ Lo(omega) \in Octet
  BY <1>4, SixteenBits
<1>6. 165 \in Octet /\ 90 \in Octet /\ 1 \in Octet /\ 0 \in Octet
  BY DEF Octet
<1>7. PICK s, m : s = f.seq /\ m = f.mode
  OBVIOUS
<1>8. s \in Octet /\ m \in Octet
  BY <1>1, <1>6, <1>7
<1>9. PICK h : h = <<165, 90, 1, s, m, Hi(v), Lo(v), Hi(omega), Lo(omega), 0>>
  OBVIOUS
<1>10. h \in Seq(Octet) /\ Len(h) = 10
  BY <1>5, <1>6, <1>8, <1>9
<1>11. h = Header(f)
  BY <1>3, <1>7, <1>9 DEF Header
<1> QED
  BY <1>2, <1>10, <1>11

(* What the console encodes the vehicle accepts, whatever the checksum,    *)
(* and decodes to the same command with both speeds cut off at 16 bits     *)
(* (encode_operator_frame against decode_operator_frame).                  *)
THEOREM FramesRoundTrip ==
  ASSUME NEW f \in OperatorFrame, NEW crc \in [Seq(Octet) -> Word]
  PROVE  /\ Accepted(Encoded(f, crc), crc)
         /\ Decoded(Encoded(f, crc)) =
              [seq |-> f.seq, mode |-> f.mode, v |-> ClampI16(f.v), omega |-> ClampI16(f.omega)]
<1>1. PICK h, c : h = Header(f) /\ c = crc[Header(f)]
  OBVIOUS
<1>2. h \in Seq(Octet) /\ Len(h) = 10
  BY <1>1, HeaderOctets
<1>3. c \in Word
  BY <1>1, <1>2
<1>4. c \in Int /\ c % 65536 = c
  <2>1. c \in Int /\ 0 <= c /\ c <= 65535
    BY <1>3 DEF Word
  <2> QED
    BY <2>1, SMT
<1>5. Hi(c) \in Octet /\ Lo(c) \in Octet /\ 256 * Hi(c) + Lo(c) = c
  BY <1>4, SixteenBits
<1>6. PICK b : b = h \o <<Hi(c), Lo(c)>>
  OBVIOUS
<1>7. b = Encoded(f, crc)
  BY <1>1, <1>6 DEF Encoded, PutBe16
<1>8. /\ Len(b) = 12 /\ b[11] = Hi(c) /\ b[12] = Lo(c)
      /\ \A i \in 1 .. 10 : b[i] = h[i]
      /\ SubSeq(b, 1, 10) = h
  BY SMTT(30), <1>2, <1>5, <1>6, Appended
<1>9. /\ h[1] = 165 /\ h[2] = 90 /\ h[3] = 1 /\ h[4] = f.seq /\ h[5] = f.mode
      /\ h[6] = Hi(ClampI16(f.v)) /\ h[7] = Lo(ClampI16(f.v))
      /\ h[8] = Hi(ClampI16(f.omega)) /\ h[9] = Lo(ClampI16(f.omega))
  BY <1>1 DEF Header
<1>10. /\ b[1] = h[1] /\ b[2] = h[2] /\ b[3] = h[3] /\ b[4] = h[4] /\ b[5] = h[5]
       /\ b[6] = h[6] /\ b[7] = h[7] /\ b[8] = h[8] /\ b[9] = h[9]
  BY <1>8
<1>11. Be16(b[6], b[7]) = ClampI16(f.v) /\ Be16(b[8], b[9]) = ClampI16(f.omega)
  BY <1>9, <1>10, HeaderOctets, Be16Inverts
<1>12. b[5] <= 1
  <2>1. f.mode \in {0, 1}
    BY DEF OperatorFrame
  <2> QED
    BY <1>9, <1>10, <2>1
<1>13. crc[SubSeq(b, 1, 10)] = 256 * b[11] + b[12]
  BY <1>1, <1>5, <1>8
<1>14. Accepted(b, crc)
  BY <1>8, <1>9, <1>10, <1>12, <1>13 DEF Accepted
<1>15. Decoded(b) =
         [seq |-> f.seq, mode |-> f.mode, v |-> ClampI16(f.v), omega |-> ClampI16(f.omega)]
  BY <1>9, <1>10, <1>11 DEF Decoded
<1> QED
  BY <1>7, <1>14, <1>15

(* The int18 rpm is read whatever of the power rating shares its last      *)
(* byte; an int14 field likewise keeps its sign.                           *)
THEOREM FieldsKeepTheirSign ==
  /\ \A v \in Int, rest \in Nat :
       -131072 <= v /\ v <= 131071 =>
         Int18(v % 256, (v % 65536) \div 256, ((v % 262144) \div 65536) + 4 * rest) = v
  /\ \A v \in Int : -8192 <= v /\ v <= 8191 => Int14(v % 16384) = v
<1>1. ASSUME NEW v \in Int, NEW rest \in Nat, -131072 <= v, v <= 131071
      PROVE  Int18(v % 256, (v % 65536) \div 256, ((v % 262144) \div 65536) + 4 * rest) = v
  <2>1. PICK top : top = (v % 262144) \div 65536
    OBVIOUS
  <2>2. top \in 0 .. 3
    BY <2>1
  <2>3. (top + 4 * rest) % 4 = top
    BY <2>2
  <2>4. (v % 256) + 256 * ((v % 65536) \div 256) = v % 65536
    BY SixteenBits DEF Hi, Lo
  <2>5. (v % 65536) + 65536 * top = v % 262144
    BY <2>1
  <2>6. Int18(v % 256, (v % 65536) \div 256, top + 4 * rest) = Signed(v % 262144, 262144)
    BY <2>2, <2>3, <2>4, <2>5 DEF Int18
  <2> QED
    BY <1>1, <2>1, <2>6 DEF Signed
<1>2. ASSUME NEW v \in Int, -8192 <= v, v <= 8191
      PROVE  Int14(v % 16384) = v
  BY <1>2 DEF Int14, Signed
<1> QED
  BY <1>1, <1>2

-----------------------------------------------------------------------------
(* The frame parser. *)
(* The header bytes of an intact frame look like a header.                 *)
HeaderByte(b) ==
  /\ b.at = 1 => b.val = "sync0"
  /\ b.at = 2 => b.val = "sync1"

Marked == \A j \in 1 .. Len(buf) : HeaderByte(buf[j])

IInv == TypeOK /\ Marked /\ FrameIsKept /\ IntactFrameIsFound

-----------------------------------------------------------------------------
(* What is kept of a full buffer is its end, from m on, where m is not     *)
(* behind any candidate.                                                   *)
LEMMA ResyncKeepsTheEnd ==
  ASSUME NEW b \in Seq(Byte), Len(b) = FrameSize, Resync(b)
  PROVE  \E m \in 2 .. FrameSize + 1 :
           /\ \A c \in Candidates(b) : m <= c
           /\ buf' \in Seq(Byte)
           /\ Len(buf') = FrameSize - m + 1
           /\ \A j \in 1 .. Len(buf') : buf'[j] = b[m + j - 1]
<1>0. FrameSize \in Nat /\ FrameSize >= 3
  BY SizeAssumption
<1>1. Candidates(b) \subseteq 2 .. FrameSize
  BY <1>0 DEF Candidates
<1>2. CASE Candidates(b) = {} /\ buf' = <<>>
  <2>1. FrameSize + 1 \in 2 .. FrameSize + 1
    BY <1>0
  <2> QED
    BY <1>0, <1>2, <2>1
<1>3. ASSUME NEW m \in Candidates(b),
             First(Candidates(b), m), buf' = SubSeq(b, m, FrameSize)
      PROVE  /\ m \in 2 .. FrameSize + 1
             /\ \A c \in Candidates(b) : m <= c
             /\ buf' \in Seq(Byte)
             /\ Len(buf') = FrameSize - m + 1
             /\ \A j \in 1 .. Len(buf') : buf'[j] = b[m + j - 1]
  <2>1. m \in 2 .. FrameSize
    BY <1>1
  <2>2. \A c \in Candidates(b) : m <= c
    BY <1>3 DEF First
  <2>3. \A j \in m .. FrameSize : b[j] \in Byte
    BY <1>0, <2>1
  <2>4. /\ buf' \in Seq(Byte)
        /\ Len(buf') = FrameSize - m + 1
        /\ \A j \in 1 .. FrameSize - m + 1 : buf'[j] = b[m + j - 1]
    BY <1>0, <1>3, <2>1, <2>3, SubSeqProperties
  <2> QED
    BY <1>0, <2>1, <2>2, <2>4
<1> QED
  BY <1>2, <1>3 DEF Resync

-----------------------------------------------------------------------------
(* The byte that arrives: the next of its frame, or noise between frames.  *)
Carried(b) ==
  /\ b \in Byte /\ HeaderByte(b)
  /\ at' = b.at
  /\ IF InFrame THEN b.at = at + 1 ELSE b.at \in {Noise, 1}

(* The last n bytes of s are the first n of an intact frame.               *)
EndsIn(s, n) == Len(s) >= n /\ \A i \in 1 .. n : s[Len(s) - n + i].at = i

(* With the byte b the buffer's end grows by one byte of the frame.        *)
LEMMA AppendKeeps ==
  ASSUME IInv, NEW b, Carried(b), NEW s, s = Append(buf, b)
  PROVE  /\ s \in Seq(Byte) /\ Len(s) = Len(buf) + 1
         /\ \A j \in 1 .. Len(s) : HeaderByte(s[j])
         /\ b.at # Noise => EndsIn(s, b.at)
<1>1. /\ buf \in Seq(Byte) /\ b \in Byte
      /\ at \in Nat /\ b.at \in Nat
  BY SizeAssumption DEF IInv, TypeOK, Carried, Byte, Noise
<1>2. /\ s \in Seq(Byte) /\ Len(s) = Len(buf) + 1
      /\ \A j \in 1 .. Len(buf) : s[j] = buf[j]
      /\ s[Len(buf) + 1] = b
  BY <1>1
<1>3. ASSUME NEW j \in 1 .. Len(s) PROVE HeaderByte(s[j])
  <2>1. j \in 1 .. Len(buf) \/ j = Len(buf) + 1
    BY <1>1, <1>2
  <2> QED
    BY <1>2, <2>1 DEF IInv, Marked, Carried
<1>4. ASSUME b.at # Noise PROVE EndsIn(s, b.at)
  <2>1. CASE InFrame
    <3>1. /\ b.at = at + 1
          /\ Len(buf) >= at
          /\ \A i \in 1 .. at : buf[Len(buf) - at + i].at = i
      BY <2>1 DEF Carried, IInv, FrameIsKept
    <3>2. Len(s) >= b.at
      BY <1>1, <1>2, <3>1
    <3>3. ASSUME NEW i \in 1 .. b.at PROVE s[Len(s) - b.at + i].at = i
      <4>1. CASE i = b.at
        BY <1>1, <1>2, <4>1
      <4>2. CASE i # b.at
        <5>1. i \in 1 .. at /\ Len(s) - b.at + i = Len(buf) - at + i
          BY <1>1, <1>2, <3>1, <4>2
        <5>2. Len(buf) - at + i \in 1 .. Len(buf)
          BY <1>1, <3>1, <5>1
        <5> QED
          BY <1>2, <3>1, <5>1, <5>2
      <4> QED
        BY <4>1, <4>2
    <3> QED
      BY <3>2, <3>3 DEF EndsIn
  <2>2. CASE ~InFrame
    <3>1. b.at = 1
      BY <1>4, <2>2 DEF Carried
    <3> QED
      BY <1>1, <1>2, <3>1 DEF EndsIn
  <2> QED
    BY <2>1, <2>2
<1> QED
  BY <1>2, <1>3, <1>4

(* The frame that begins in a full buffer begins at a candidate.           *)
LEMMA FrameIsCandidate ==
  ASSUME NEW b \in Seq(Byte), Len(b) = FrameSize,
         \A j \in 1 .. Len(b) : HeaderByte(b[j]),
         NEW n \in 1 .. FrameSize - 1, EndsIn(b, n)
  PROVE  \A m \in 2 .. FrameSize + 1 :
           (\A c \in Candidates(b) : m <= c) => m <= FrameSize - n + 1
<1> DEFINE k == FrameSize - n + 1
<1> DEFINE pairs == {i \in 2 .. FrameSize - 1 : IsHeader(b, i)}
<1>0. FrameSize \in Nat /\ FrameSize >= 3
  BY SizeAssumption
<1>1. k \in 2 .. FrameSize /\ b[k].at = 1 /\ b[k].val = "sync0"
  <2>1. k \in 2 .. FrameSize
    BY <1>0
  <2>2. b[Len(b) - n + 1].at = 1
    BY <1>0 DEF EndsIn
  <2> QED
    BY <1>0, <2>1, <2>2 DEF HeaderByte
<1>2. n > 1 => k \in pairs
  <2> SUFFICES ASSUME n > 1 PROVE k \in pairs
    OBVIOUS
  <2>1. b[Len(b) - n + 2].at = 2 /\ Len(b) - n + 2 = k + 1 /\ k + 1 \in 1 .. Len(b)
    BY <1>0 DEF EndsIn
  <2>2. b[k + 1].val = "sync1"
    BY <2>1 DEF HeaderByte
  <2> QED
    BY <1>0, <1>1, <2>1, <2>2 DEF IsHeader
<1>3. n = 1 => k = FrameSize
  BY <1>0
<1>4. k \in Candidates(b) \/ (pairs # {} /\ Candidates(b) = pairs /\ k = FrameSize)
  BY <1>0, <1>1, <1>2, <1>3 DEF Candidates
<1> QED
  BY <1>0, <1>1, <1>4

-----------------------------------------------------------------------------
(* What a push leaves behind.                                              *)
Pushed(b) ==
  /\ buf' \in Seq(Byte) /\ Len(buf') < FrameSize
  /\ \A j \in 1 .. Len(buf') : HeaderByte(buf'[j])
  /\ b.at \in 1 .. FrameSize - 1 => EndsIn(buf', b.at)
  /\ b.at = FrameSize => found' = TRUE

(* A buffer left empty, or with the first byte of a header alone.          *)
LEMMA ShortBuffer ==
  ASSUME NEW b, b \in Byte, HeaderByte(b),
         \/ b.at \in {Noise, 1} /\ buf' = <<b>>
         \/ b.at = Noise /\ buf' = <<>>
  PROVE  Pushed(b)
<1>0. FrameSize \in Nat /\ FrameSize >= 3
  BY SizeAssumption
<1>1. CASE b.at \in {Noise, 1} /\ buf' = <<b>>
  <2>1. buf' \in Seq(Byte) /\ Len(buf') = 1 /\ buf'[1] = b
    BY <1>1
  <2>2. \A j \in 1 .. Len(buf') : HeaderByte(buf'[j])
    BY <2>1
  <2>3. b.at = 1 => EndsIn(buf', b.at)
    BY <2>1 DEF EndsIn
  <2> QED
    BY <1>0, <1>1, <2>1, <2>2, <2>3 DEF Pushed, Noise
<1>2. CASE b.at = Noise /\ buf' = <<>>
  BY <1>0, <1>2 DEF Pushed, Noise
<1> QED
  BY <1>1, <1>2

LEMMA HuntKeeps ==
  ASSUME IInv, NEW b, Carried(b), HuntFirst(b) \/ HuntSecond(b)
  PROVE  Pushed(b)
<1>0. FrameSize \in Nat /\ FrameSize >= 3
  BY SizeAssumption
<1>1. /\ b \in Byte /\ HeaderByte(b) /\ b.at \in Nat
      /\ buf \in Seq(Byte) /\ at \in Nat /\ at <= FrameSize
  BY <1>0 DEF IInv, TypeOK, Carried, Byte, Noise
<1>2. InFrame => Len(buf) >= at /\ at >= 1 /\ at < FrameSize
  BY <1>0, <1>1 DEF IInv, FrameIsKept, InFrame, Noise
<1>3. CASE HuntFirst(b)
  <2>1. b.at \in {Noise, 1}
    BY <1>1, <1>2, <1>3 DEF HuntFirst, Carried
  <2>2. b.at = 1 => buf' = <<b>>
    BY <1>3 DEF HuntFirst, HeaderByte, Carried
  <2>3. buf' = <<b>> \/ buf' = <<>>
    BY <1>3 DEF HuntFirst
  <2> QED
    BY <1>1, <2>1, <2>2, <2>3, ShortBuffer
<1>4. CASE HuntSecond(b)
  <2>1. Len(buf) = 1
    BY <1>4 DEF HuntSecond
  <2>2. b.at \in {Noise, 1, 2}
    BY <1>1, <1>2, <2>1 DEF Carried
  <2>3. CASE b.val = "sync1" /\ buf' = Append(buf, b)
    <3>1. /\ buf' \in Seq(Byte) /\ Len(buf') = Len(buf) + 1
          /\ \A j \in 1 .. Len(buf') : HeaderByte(buf'[j])
          /\ b.at # Noise => EndsIn(buf', b.at)
      BY <2>3, AppendKeeps
    <3> QED
      BY <1>0, <2>1, <2>2, <3>1 DEF Pushed, Noise
  <2>4. CASE b.val = "sync0" /\ buf' = <<b>>
    <3>1. b.at # 2
      BY <1>1, <2>4 DEF HeaderByte
    <3> QED
      BY <1>1, <2>2, <2>4, <3>1, ShortBuffer
  <2>5. CASE b.val = "other" /\ buf' = <<>>
    <3>1. b.at = Noise
      BY <1>1, <2>2, <2>5 DEF HeaderByte
    <3> QED
      BY <1>1, <2>5, <3>1, ShortBuffer
  <2> QED
    BY <1>4, <2>3, <2>4, <2>5 DEF HuntSecond
<1> QED
  BY <1>3, <1>4

LEMMA CollectKeeps ==
  ASSUME IInv, NEW b, Carried(b), Collect(b)
  PROVE  Pushed(b)
<1>0. FrameSize \in Nat /\ FrameSize >= 3
  BY SizeAssumption
<1>1. buf' = Append(buf, b) /\ Len(buf) \in 2 .. FrameSize - 2 /\ found' = FALSE
  BY DEF Collect
<1>2. /\ buf' \in Seq(Byte) /\ Len(buf') = Len(buf) + 1
      /\ \A j \in 1 .. Len(buf') : HeaderByte(buf'[j])
      /\ b.at # Noise => EndsIn(buf', b.at)
  BY <1>1, AppendKeeps
<1>3. b.at # FrameSize
  <2>1. at \in Nat /\ at <= FrameSize
    BY <1>0 DEF IInv, TypeOK, Noise
  <2>2. InFrame => Len(buf) >= at
    BY DEF IInv, FrameIsKept
  <2> QED
    BY <1>0, <1>1, <2>1, <2>2 DEF Carried, Noise
<1> QED
  BY <1>0, <1>1, <1>2, <1>3 DEF Pushed, Noise

LEMMA CompleteKeeps ==
  ASSUME IInv, NEW b, Carried(b), Complete(b)
  PROVE  Pushed(b)
<1>a. PICK full : full = Append(buf, b)
  OBVIOUS
<1>0. FrameSize \in Nat /\ FrameSize >= 3
  BY SizeAssumption
<1>1. Len(buf) = FrameSize - 1
  BY DEF Complete
<1>2. /\ full \in Seq(Byte) /\ Len(full) = FrameSize
      /\ \A j \in 1 .. Len(full) : HeaderByte(full[j])
      /\ b.at # Noise => EndsIn(full, b.at)
  <2>1. /\ full \in Seq(Byte) /\ Len(full) = Len(buf) + 1
        /\ \A j \in 1 .. Len(full) : HeaderByte(full[j])
        /\ b.at # Noise => EndsIn(full, b.at)
    BY <1>a, AppendKeeps
  <2> QED
    BY <1>0, <1>1, <2>1
<1>3. full[FrameSize] = b
  BY <1>a, <1>0, <1>1 DEF IInv, TypeOK
<1>4. b.at = FrameSize <=> Valid(full)
  <2>1. b.at = FrameSize => Valid(full)
    BY <1>0, <1>2 DEF EndsIn, Valid, Noise
  <2>2. Valid(full) => b.at = FrameSize
    BY <1>0, <1>3 DEF Valid
  <2> QED
    BY <2>1, <2>2
<1>5. CASE Valid(full) /\ found' = TRUE /\ buf' = <<>>
  BY <1>0, <1>4, <1>5 DEF Pushed
<1>6. CASE ~Valid(full) /\ found' = FALSE /\ Resync(full)
  <2>1. PICK m \in 2 .. FrameSize + 1 :
           /\ \A c \in Candidates(full) : m <= c
           /\ buf' \in Seq(Byte)
           /\ Len(buf') = FrameSize - m + 1
           /\ \A j \in 1 .. Len(buf') : buf'[j] = full[m + j - 1]
    BY <1>2, <1>6, ResyncKeepsTheEnd
  <2>2. \A j \in 1 .. Len(buf') : HeaderByte(buf'[j])
    BY <1>0, <1>2, <2>1
  <2>3. ASSUME b.at \in 1 .. FrameSize - 1 PROVE EndsIn(buf', b.at)
    <3>1. EndsIn(full, b.at)
      BY <1>2, <2>3 DEF Noise
    <3>2. m <= FrameSize - b.at + 1
      BY <1>2, <2>1, <2>3, <3>1, FrameIsCandidate
    <3>3. Len(buf') >= b.at
      BY <1>0, <2>1, <2>3, <3>2
    <3>4. ASSUME NEW i \in 1 .. b.at PROVE buf'[Len(buf') - b.at + i].at = i
      <4>1. Len(buf') - b.at + i \in 1 .. Len(buf')
        BY <2>1, <2>3, <3>3
      <4>2. m + (Len(buf') - b.at + i) - 1 = Len(full) - b.at + i
        BY <1>0, <1>2, <2>1, <2>3
      <4> QED
        BY <2>1, <3>1, <4>1, <4>2 DEF EndsIn
    <3> QED
      BY <3>3, <3>4 DEF EndsIn
  <2>4. Len(buf') < FrameSize
    BY <1>0, <2>1
  <2> QED
    BY <1>0, <1>4, <1>6, <2>1, <2>2, <2>3, <2>4 DEF Pushed
<1> QED
  BY <1>a, <1>5, <1>6 DEF Complete

-----------------------------------------------------------------------------
LEMMA FoundType == ASSUME IInv, NEW b, Push(b) PROVE found' \in BOOLEAN
BY Zenon DEF Push, HuntFirst, HuntSecond, Collect, Complete

LEMMA InitIInv == Init => IInv
<1> SUFFICES ASSUME Init PROVE IInv
  OBVIOUS
<1>1. found \in BOOLEAN
  BY Zenon DEF Init
<1>2. TypeOK
  BY <1>1, SizeAssumption DEF Init, TypeOK, Noise
<1>3. Marked
  BY DEF Init, Marked
<1>4. FrameIsKept /\ IntactFrameIsFound
  BY SizeAssumption DEF Init, FrameIsKept, IntactFrameIsFound, InFrame, Noise
<1> QED
  BY <1>2, <1>3, <1>4 DEF IInv

LEMMA CarryKeeps ==
  ASSUME IInv, NEW b, Carried(b), Push(b)
  PROVE  IInv'
<1>0. FrameSize \in Nat /\ FrameSize >= 3
  BY SizeAssumption
<1>1. Pushed(b)
  BY HuntKeeps, CollectKeeps, CompleteKeeps DEF Push
<1>2. at' = b.at /\ b.at \in 0 .. FrameSize
  BY DEF Carried, Byte, Noise
<1>3. TypeOK'
  BY <1>1, <1>2, FoundType DEF TypeOK, Pushed, Noise
<1>4. Marked'
  BY <1>1 DEF Marked, Pushed, HeaderByte
<1>5. FrameIsKept'
  <2> SUFFICES ASSUME InFrame' PROVE EndsIn(buf', at')
    BY DEF FrameIsKept, EndsIn
  <2>1. b.at \in 1 .. FrameSize - 1
    BY <1>0, <1>2 DEF InFrame, Noise
  <2> QED
    BY <1>1, <1>2, <2>1 DEF Pushed
<1>6. IntactFrameIsFound'
  BY <1>1, <1>2 DEF IntactFrameIsFound, Pushed
<1> QED
  BY <1>3, <1>4, <1>5, <1>6 DEF IInv

LEMMA NextKeepsIInv == IInv /\ [Next]_vars => IInv'
<1> SUFFICES ASSUME IInv, [Next]_vars PROVE IInv'
  OBVIOUS
<1>0. FrameSize \in Nat /\ FrameSize >= 3 /\ at \in 0 .. FrameSize
  BY SizeAssumption DEF IInv, TypeOK, Noise
<1>1. CASE CarryNoise
  <2>1. PICK v \in Values : Push([val |-> v, at |-> Noise])
    BY <1>1 DEF CarryNoise
  <2>2. Carried([val |-> v, at |-> Noise])
    BY <1>0, <1>1 DEF CarryNoise, Carried, Byte, HeaderByte, Noise
  <2> QED
    BY <2>1, <2>2, CarryKeeps
<1>2. CASE CarryFrame
  <2> DEFINE i == IF InFrame THEN at + 1 ELSE 1
  <2>1. PICK v \in ValuesAt(i) : Push([val |-> v, at |-> i])
    BY <1>2 DEF CarryFrame
  <2>2. at' = i /\ i \in 1 .. FrameSize
    BY <1>0, <1>2 DEF CarryFrame, InFrame, Noise
  <2>3. v \in Values /\ (i = 1 => v = "sync0") /\ (i = 2 => v = "sync1")
    BY <2>1 DEF ValuesAt, Values
  <2>4. Carried([val |-> v, at |-> i])
    BY <1>0, <2>2, <2>3 DEF Carried, Byte, HeaderByte, Noise
  <2> QED
    BY <2>1, <2>4, CarryKeeps
<1>3. CASE UNCHANGED vars
  BY <1>3 DEF vars, IInv, TypeOK, Marked, FrameIsKept, IntactFrameIsFound, InFrame
<1> QED
  BY <1>1, <1>2, <1>3 DEF Next

-----------------------------------------------------------------------------
(* The invariant holds in every reachable state of the parser.             *)
THEOREM Invariance == Spec => []IInv
BY InitIInv, NextKeepsIInv, PTL DEF Spec

(* The buffer never grows to a whole frame between two bytes.              *)
THEOREM TypeCorrect == Spec => []TypeOK
<1>1. IInv => TypeOK
  BY DEF IInv
<1> QED
  BY <1>1, Invariance, PTL

(* A failed check never throws away the beginning of an intact frame.      *)
THEOREM NoByteIsLost == Spec => []FrameIsKept
<1>1. IInv => FrameIsKept
  BY DEF IInv
<1> QED
  BY <1>1, Invariance, PTL

(* With the last byte of an intact frame push returns true.                *)
THEOREM NoFrameIsMissed == Spec => []IntactFrameIsFound
<1>1. IInv => IntactFrameIsFound
  BY DEF IInv
<1> QED
  BY <1>1, Invariance, PTL
=============================================================================
