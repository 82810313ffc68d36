------------------------- MODULE OperatorLinkProofs -------------------------
(***************************************************************************)
(* The operator's command path, for every number of frames on their way,   *)
(* lost, repeated and flushed: types, and what may count as a sign of life. *)
(*                                                                         *)
(* The frames between console and loop are one queue, the UART buffer      *)
(* before the modem's.  Before them stands the number the loop accepted    *)
(* last.  A labelling of these places never falls, starts at 0 and gives   *)
(* one label to neighbours only if their numbers are equal; the last label *)
(* is what the queue may still cost, and the credit covers it, with what   *)
(* the modem has flushed out of turn added.                                *)
(***************************************************************************)
EXTENDS OperatorLink, SequenceTheorems, TLAPS

Count == Len(rx) + Len(air)

(* The sequence number at a place of the queue; place 0 is lastSeq. *)
Number(i) ==
  IF i = 0 THEN lastSeq
  ELSE IF i <= Len(rx) THEN rx[i].seq ELSE air[i - Len(rx)].seq

Labels(g) ==
  /\ g \in [0 .. Count -> Int]
  /\ g[0] = 0
  /\ \A i \in 0 .. Count : \A j \in 0 .. Count :
       i <= j => /\ g[i] <= g[j]
                 /\ g[i] = g[j] => Number(i) = Number(j)

Budget == credit + flushed

CreditInv == \E g \in [0 .. Count -> Int] : Labels(g) /\ g[Count] <= Budget

(* The modem's last frame is the newest one that the loop can have seen: a *)
(* repeat of it costs nothing.                                             *)
KeptInv == kept # <<>> => kept[Len(kept)].seq = Number(Len(rx))

(* The count of drive frames is short of its goal while the latch holds. *)
LatchInv == latched => clearCount < ClearFrames

IInv == TypeOK /\ LatchInv /\ CreditInv /\ KeptInv

-----------------------------------------------------------------------------
(* The loop's own variables keep their types, whatever frame it polls.     *)
LEMMA PollTypes ==
  ASSUME InputTypeOK, LatchInv, NEW step \in Nat, NEW f \in Frame \cup {NoFrame},
         PollOperator(step, f)
  PROVE  InputTypeOK' /\ LatchInv'
<1>1. CASE IsNew(f)
  <2>1. f \in Frame
    BY <1>1 DEF IsNew
  <2>2. linkAge' \in 0 .. LinkTimeout + 1 /\ lastSeq' \in Seqs /\ lastMode' \in Modes
    BY <1>1, <2>1, LinkAssumption DEF PollOperator, Accepted, Frame
  <2>3. CASE Latch
    <3>1. latched' \in BOOLEAN /\ clearCount' = 0
      BY <2>3 DEF Latch
    <3> QED
      BY <2>2, <3>1, ClearAssumption DEF InputTypeOK, LatchInv
  <2>4. CASE latched /\ CountDrive
    <3>1. clearCount \in Nat /\ clearCount < ClearFrames /\ clearCount' = clearCount + 1
      BY <2>4, ClearAssumption DEF CountDrive, InputTypeOK, LatchInv
    <3>2. latched' \in BOOLEAN
      BY <2>4 DEF CountDrive, InputTypeOK
    <3>3. clearCount' \in 0 .. ClearFrames
      BY <3>1, ClearAssumption
    <3>4. clearCount' < ClearFrames \/ ~latched'
      BY <2>4 DEF CountDrive
    <3> QED
      BY <2>2, <3>2, <3>3, <3>4 DEF InputTypeOK, LatchInv
  <2>5. CASE UNCHANGED <<latched, clearCount>>
    BY <2>2, <2>5 DEF InputTypeOK, LatchInv
  <2> QED
    BY <1>1, <2>3, <2>4, <2>5 DEF PollOperator, Accepted
<1>2. CASE ~IsNew(f)
  <2>1. linkAge' \in 0 .. LinkTimeout + 1
    BY <1>2, LinkAssumption DEF PollOperator, Ignored, Aged, InputTypeOK
  <2> QED
    BY <1>2, <2>1 DEF PollOperator, Ignored, InputTypeOK, LatchInv
<1> QED
  BY <1>1, <1>2

(* The numbers the console counts through are sequence numbers. *)
LEMMA CountsOn ==
  ASSUME nextSeq \in Seqs
  PROVE  (nextSeq + 1) % SeqMod \in Seqs
BY WireAssumption

(* A frame appended, or taken off, leaves a queue of frames. *)
LEMMA Queues ==
  ASSUME NEW q \in Seq(Frame), NEW f \in Frame
  PROVE  /\ Append(q, f) \in Seq(Frame) /\ Len(Append(q, f)) = Len(q) + 1
         /\ \A i \in 1 .. Len(q) : Append(q, f)[i] = q[i]
         /\ Append(q, f)[Len(q) + 1] = f
         /\ Len(q) \in Nat
         /\ q # <<>> => /\ Head(q) \in Frame /\ Head(q) = q[1] /\ Tail(q) \in Seq(Frame)
                        /\ Len(q) >= 1 /\ Len(Tail(q)) = Len(q) - 1
                        /\ \A i \in 1 .. Len(q) - 1 : Tail(q)[i] = q[i + 1]
<1>1. /\ Append(q, f) \in Seq(Frame) /\ Len(Append(q, f)) = Len(q) + 1
      /\ \A i \in 1 .. Len(q) : Append(q, f)[i] = q[i]
      /\ Append(q, f)[Len(q) + 1] = f
  BY AppendProperties
<1>2. Len(q) \in Nat
  BY LenProperties
<1>3. ASSUME q # <<>>
      PROVE  /\ Head(q) \in Frame /\ Head(q) = q[1] /\ Tail(q) \in Seq(Frame)
             /\ Len(q) >= 1 /\ Len(Tail(q)) = Len(q) - 1
             /\ \A i \in 1 .. Len(q) - 1 : Tail(q)[i] = q[i + 1]
  <2>1. Len(q) >= 1
    BY <1>2, <1>3, EmptySeq
  <2> QED
    BY <1>2, <1>3, <2>1, HeadTailProperties, ElementOfSeq
<1> QED
  BY <1>1, <1>2, <1>3

-----------------------------------------------------------------------------
(* A step that keeps places in their order keeps a labelling: place i of   *)
(* the new queue shows the number of place p[i] of the old one.            *)
LEMMA Relabelled ==
  ASSUME NEW g \in [0 .. Count -> Int], Labels(g),
         Count \in Nat, Count' \in Nat,
         NEW p \in [0 .. Count' -> 0 .. Count],
         \A i \in 0 .. Count' : \A j \in 0 .. Count' : i <= j => p[i] <= p[j],
         \A i \in 0 .. Count' : Number(i)' = Number(p[i]),
         g[p[Count']] - g[p[0]] <= Budget'
  PROVE  CreditInv'
<1> DEFINE low == g[p[0]]
           h == [i \in 0 .. Count' |-> g[p[i]] - low]
<1>1. 0 \in 0 .. Count' /\ Count' \in 0 .. Count'
  OBVIOUS
<1>2. \A i \in 0 .. Count' : p[i] \in 0 .. Count /\ g[p[i]] \in Int /\ low \in Int
  BY <1>1
<1>3. PICK l : l = h
  OBVIOUS
<1>4. l \in [0 .. Count' -> Int] /\ \A i \in 0 .. Count' : l[i] = g[p[i]] - low
  BY <1>2, <1>3
<1>5. l[0] = 0 /\ l[Count'] <= Budget'
  BY <1>1, <1>2, <1>4
<1>6. ASSUME NEW i \in 0 .. Count', NEW j \in 0 .. Count', i <= j
      PROVE  /\ l[i] <= l[j]
             /\ l[i] = l[j] => Number(i)' = Number(j)'
  <2>1. g[p[i]] <= g[p[j]] /\ (g[p[i]] = g[p[j]] => Number(p[i]) = Number(p[j]))
    BY <1>2, <1>6 DEF Labels
  <2>2. l[i] = g[p[i]] - low /\ l[j] = g[p[j]] - low
    BY <1>4
  <2>3. l[i] <= l[j] /\ (l[i] = l[j] => g[p[i]] = g[p[j]])
    BY SMTT(30), <1>2, <2>1, <2>2
  <2>4. Number(i)' = Number(p[i]) /\ Number(j)' = Number(p[j])
    OBVIOUS
  <2> QED
    BY <2>1, <2>3, <2>4
<1>7. Labels(l)'
  BY <1>4, <1>5, <1>6 DEF Labels
<1> QED
  BY <1>4, <1>5, <1>7 DEF CreditInv

(* What a step that spends no credit has to show. *)
LEMMA Unspent ==
  ASSUME CreditInv, Count \in Nat, Count' \in Nat, Budget \in Int, Budget' = Budget,
         NEW p \in [0 .. Count' -> 0 .. Count],
         \A i \in 0 .. Count' : \A j \in 0 .. Count' : i <= j => p[i] <= p[j],
         \A i \in 0 .. Count' : Number(i)' = Number(p[i]),
         p[0] = 0
  PROVE  CreditInv'
<1>1. PICK g \in [0 .. Count -> Int] : Labels(g) /\ g[Count] <= Budget
  BY DEF CreditInv
<1>2. Count' \in 0 .. Count' /\ Count \in 0 .. Count
  OBVIOUS
<1>3. p[Count'] \in 0 .. Count
  BY <1>2
<1>4. g[p[Count']] \in Int /\ g[Count] \in Int /\ g[p[Count']] <= g[Count] /\ g[p[0]] = 0
  BY <1>1, <1>2, <1>3 DEF Labels
<1>5. g[p[Count']] - g[p[0]] <= Budget'
  BY <1>1, <1>4
<1> QED
  BY <1>1, <1>5, Relabelled

-----------------------------------------------------------------------------
LEMMA Lengths ==
  ASSUME TypeOK
  PROVE  /\ rx \in Seq(Frame) /\ air \in Seq(Frame)
         /\ Len(rx) \in Nat /\ Len(air) \in Nat /\ Count \in Nat /\ Count <= MaxQueue
         /\ MaxQueue \in Nat /\ credit \in Int /\ flushed \in Nat /\ Budget \in Int
         /\ kept \in Seq(Frame) /\ Len(kept) \in Nat /\ Len(kept) <= MaxKept
BY LenProperties, WireAssumption DEF TypeOK, Count, Budget

(* The loop's variables, where a step leaves them alone. *)
LEMMA InputStays ==
  ASSUME TypeOK, LatchInv, UNCHANGED inputVars
  PROVE  InputTypeOK' /\ LatchInv'
BY DEF TypeOK, InputTypeOK, LatchInv, inputVars

LEMMA TransmitKeeps ==
  ASSUME IInv, Transmit
  PROVE  IInv'
<1>1. /\ rx \in Seq(Frame) /\ air \in Seq(Frame)
      /\ Len(rx) \in Nat /\ Len(air) \in Nat /\ Count \in Nat /\ Count <= MaxQueue
      /\ MaxQueue \in Nat /\ credit \in Int /\ flushed \in Nat /\ Budget \in Int
      /\ kept \in Seq(Frame) /\ Len(kept) \in Nat /\ Len(kept) <= MaxKept
  BY Lengths DEF IInv
<1> DEFINE f == [seq |-> nextSeq, mode |-> mode]
<1>2. f \in Frame
  BY DEF IInv, TypeOK, Frame
<1>3. /\ air' = Append(air, f) /\ rx' = rx /\ lastSeq' = lastSeq /\ UNCHANGED inputVars
      /\ kept' = kept /\ flushed' = flushed
  BY DEF Transmit, inputVars
<1> HIDE DEF f
<1>4. /\ air' \in Seq(Frame) /\ Len(air') = Len(air) + 1
      /\ \A i \in 1 .. Len(air) : air'[i] = air[i]
  BY <1>1, <1>2, <1>3, Queues
<1>5. Count' = Count + 1 /\ Count' <= MaxQueue
  BY <1>1, <1>3, <1>4 DEF Count, Transmit, Room
<1>6. credit' \in Int
  BY <1>1 DEF Transmit
<1>7. TypeOK' /\ LatchInv'
  <2>1. InputTypeOK' /\ LatchInv'
    BY <1>3, InputStays DEF IInv
  <2>2. mode' \in Modes /\ losses' \in 0 .. MaxLosses /\ switches' \in 0 .. MaxSwitches
    BY DEF Transmit, IInv, TypeOK
  <2>3. flushed' \in 0 .. MaxFlushed
    BY DEF Transmit, IInv, TypeOK
  <2>4. nextSeq' \in Seqs
    BY CountsOn DEF Transmit, IInv, TypeOK
  <2> QED
    BY <1>1, <1>3, <1>4, <1>5, <1>6, <2>1, <2>2, <2>3, <2>4 DEF TypeOK, Count
<1>8. \A i \in 0 .. Count : Number(i)' = Number(i)
  <2> TAKE i \in 0 .. Count
  <2>1. CASE i <= Len(rx)
    BY <1>3, <2>1 DEF Number
  <2>2. CASE i > Len(rx)
    <3>1. i - Len(rx) \in 1 .. Len(air)
      BY <1>1, <2>2 DEF Count
    <3>2. air'[i - Len(rx)] = air[i - Len(rx)]
      BY <1>4, <3>1
    <3> QED
      BY <1>1, <1>3, <2>2, <3>2 DEF Number
  <2> QED
    BY <1>1, <2>1, <2>2
<1>9. PICK g \in [0 .. Count -> Int] : Labels(g) /\ g[Count] <= Budget
  BY DEF IInv, CreditInv
<1>10. KeptInv'
  <2>1. Len(rx) \in 0 .. Count
    BY <1>1 DEF Count
  <2> QED
    BY <1>3, <1>8, <2>1 DEF IInv, KeptInv
<1>11. CASE credit < MaxQueue
  <2>1. Budget' = Budget + 1
    BY <1>1, <1>3, <1>11 DEF Transmit, Budget
  <2>2. PICK h : h = [i \in 0 .. Count + 1 |-> IF i <= Count THEN g[i] ELSE g[Count] + 1]
    OBVIOUS
  <2>3. /\ h \in [0 .. Count + 1 -> Int] /\ h[Count + 1] = g[Count] + 1
        /\ \A i \in 0 .. Count : h[i] = g[i]
    BY <1>1, <2>2
  <2>4. 0 \in 0 .. Count /\ Count \in 0 .. Count
    BY <1>1
  <2>5. ASSUME NEW i \in 0 .. Count + 1, NEW j \in 0 .. Count + 1, i <= j
        PROVE  /\ h[i] <= h[j]
               /\ h[i] = h[j] => Number(i)' = Number(j)'
    <3>1. CASE j \in 0 .. Count
      <4>1. i \in 0 .. Count
        BY <1>1, <2>5, <3>1
      <4>2. h[i] = g[i] /\ h[j] = g[j] /\ Number(i)' = Number(i) /\ Number(j)' = Number(j)
        BY <1>8, <2>3, <3>1, <4>1
      <4> QED
        BY <1>9, <2>5, <3>1, <4>1, <4>2 DEF Labels
    <3>2. CASE j = Count + 1 /\ i \in 0 .. Count
      <4>1. g[i] <= g[Count] /\ g[i] \in Int /\ g[Count] \in Int
        BY <1>1, <1>9, <2>4, <3>2 DEF Labels
      <4>2. h[i] = g[i] /\ h[j] = g[Count] + 1
        BY <2>3, <3>2
      <4> QED
        BY <4>1, <4>2
    <3>3. CASE i = j
      <4>1. h[i] \in Int
        BY <2>3
      <4> QED
        BY <3>3, <4>1
    <3> QED
      BY <1>1, <2>5, <3>1, <3>2, <3>3
  <2>6. Labels(h)'
    BY <1>5, <1>9, <2>3, <2>4, <2>5 DEF Labels
  <2>7. h[Count'] <= Budget'
    <3>1. g[Count] \in Int
      BY <1>9, <2>4
    <3> QED
      BY <1>1, <1>5, <1>9, <2>1, <2>3, <3>1
  <2>8. CreditInv'
    BY <1>5, <2>3, <2>6, <2>7 DEF CreditInv
  <2> QED
    BY <1>7, <1>10, <2>8 DEF IInv
<1>12. CASE credit >= MaxQueue
  <2>1. Budget' = Budget /\ Budget >= MaxQueue
    BY <1>1, <1>3, <1>12 DEF Transmit, Budget
  <2>2. PICK h : h = [i \in 0 .. Count + 1 |-> i]
    OBVIOUS
  <2>3. h \in [0 .. Count + 1 -> Int] /\ \A i \in 0 .. Count + 1 : h[i] = i
    BY <1>1, <2>2
  <2>4. ASSUME NEW i \in 0 .. Count + 1, NEW j \in 0 .. Count + 1, i <= j
        PROVE  /\ h[i] <= h[j]
               /\ h[i] = h[j] => Number(i)' = Number(j)'
    BY <2>3, <2>4
  <2>5. h[0] = 0 /\ h[Count + 1] = Count + 1
    BY <1>1, <2>3
  <2>6. Labels(h)'
    BY <1>5, <2>3, <2>4, <2>5 DEF Labels
  <2>7. h[Count'] <= Budget'
    BY <1>1, <1>5, <1>12, <2>1, <2>5
  <2>8. CreditInv'
    BY <1>5, <2>3, <2>6, <2>7 DEF CreditInv
  <2> QED
    BY <1>7, <1>10, <2>8 DEF IInv
<1> QED
  BY <1>1, <1>11, <1>12

LEMMA SwitchKeeps ==
  ASSUME IInv, NEW m \in Modes, Switch(m)
  PROVE  IInv'
<1>1. Count \in Nat /\ Len(rx) \in Nat /\ Len(rx) \in 0 .. Count
  BY Lengths DEF IInv, Count
<1>2. UNCHANGED <<air, kept, rx, losses, flushed, credit, inputVars>>
  BY DEF Switch
<1>3. InputTypeOK' /\ LatchInv'
  BY <1>2, InputStays DEF IInv
<1>4. mode' \in Modes /\ nextSeq' \in Seqs /\ switches' \in 0 .. MaxSwitches
  BY WireAssumption DEF Switch, IInv, TypeOK
<1>5. TypeOK'
  BY <1>2, <1>3, <1>4 DEF IInv, TypeOK
<1>6. Count' = Count /\ \A i \in 0 .. Count : Number(i)' = Number(i)
  BY <1>2 DEF Count, Number, inputVars
<1>7. CreditInv'
  BY <1>2, <1>6 DEF IInv, CreditInv, Labels, Budget
<1>8. KeptInv'
  BY <1>1, <1>2, <1>6 DEF IInv, KeptInv
<1> QED
  BY <1>3, <1>5, <1>7, <1>8 DEF IInv

(* The modem's queue loses its first frame, to the wire or for good. *)
LEMMA LoseKeeps ==
  ASSUME IInv, Lose
  PROVE  IInv'
<1>1. /\ rx \in Seq(Frame) /\ air \in Seq(Frame)
      /\ Len(rx) \in Nat /\ Len(air) \in Nat /\ Count \in Nat /\ Count <= MaxQueue
      /\ MaxQueue \in Nat /\ credit \in Int /\ flushed \in Nat /\ Budget \in Int
      /\ kept \in Seq(Frame) /\ Len(kept) \in Nat /\ Len(kept) <= MaxKept
  BY Lengths DEF IInv
<1>2. /\ air' = Tail(air)
      /\ UNCHANGED <<mode, nextSeq, kept, rx, switches, flushed, credit, inputVars>>
  BY DEF Lose
<1>3. /\ air' \in Seq(Frame) /\ Len(air) >= 1 /\ Len(air') = Len(air) - 1
      /\ \A i \in 1 .. Len(air) - 1 : air'[i] = air[i + 1]
  BY <1>1, <1>2, Queues, ElementOfSeq, EmptySeq DEF Lose
<1>4. Count' = Count - 1 /\ Count' \in Nat
  BY <1>1, <1>2, <1>3 DEF Count
<1>5. TypeOK' /\ LatchInv'
  <2>1. InputTypeOK' /\ LatchInv'
    BY <1>2, InputStays DEF IInv
  <2>2. losses' \in 0 .. MaxLosses
    BY WireAssumption DEF Lose, IInv, TypeOK
  <2> QED
    BY <1>1, <1>2, <1>3, <1>4, <2>1, <2>2 DEF IInv, TypeOK, Count
<1>6. PICK p : p = [i \in 0 .. Count' |-> IF i <= Len(rx) THEN i ELSE i + 1]
  OBVIOUS
<1>7. /\ p \in [0 .. Count' -> 0 .. Count] /\ p[0] = 0
      /\ \A i \in 0 .. Count' : p[i] = IF i <= Len(rx) THEN i ELSE i + 1
  BY <1>1, <1>4, <1>6
<1>8. \A i \in 0 .. Count' : \A j \in 0 .. Count' : i <= j => p[i] <= p[j]
  BY SMTT(30), <1>1, <1>4, <1>7
<1>9. ASSUME NEW i \in 0 .. Count'
      PROVE  Number(i)' = Number(p[i])
  <2>1. CASE i <= Len(rx)
    <3>1. p[i] = i
      BY <1>7, <2>1
    <3> QED
      BY <1>2, <2>1, <3>1 DEF Number, inputVars
  <2>2. CASE i > Len(rx)
    <3>1. i - Len(rx) \in 1 .. Len(air) - 1
      BY <1>1, <1>4, <2>2 DEF Count
    <3>2. p[i] = i + 1 /\ air'[i - Len(rx)] = air[i - Len(rx) + 1]
      <4>1. p[i] = i + 1
        BY <1>1, <1>4, <1>7, <2>2
      <4> QED
        BY <1>3, <3>1, <4>1
    <3>3. i # 0 /\ i + 1 # 0 /\ ~(i <= Len(rx)) /\ ~(i + 1 <= Len(rx))
          /\ i + 1 - Len(rx) = i - Len(rx) + 1
      BY <1>1, <1>4, <2>2
    <3>4. Number(i)' = air'[i - Len(rx)].seq
      BY <1>2, <3>3 DEF Number
    <3>5. Number(p[i]) = air[i + 1 - Len(rx)].seq
      BY <3>2, <3>3 DEF Number
    <3> QED
      BY <3>2, <3>3, <3>4, <3>5
  <2> QED
    BY <1>1, <1>4, <2>1, <2>2
<1>10. CreditInv'
  <2>1. Budget' = Budget
    BY <1>2 DEF Budget
  <2> QED
    BY <1>1, <1>4, <1>7, <1>8, <1>9, <2>1, Unspent DEF IInv
<1>11. KeptInv'
  <2>1. PICK r : r = Len(rx)
    OBVIOUS
  <2>2. r <= Count - 1
    BY <1>1, <1>3, <2>1 DEF Count
  <2>3. r \in 0 .. Count'
    BY <1>1, <1>4, <2>1, <2>2
  <2>4. p[r] = r
    BY <1>7, <2>1, <2>3
  <2>5. Number(r)' = Number(r)
    BY <1>9, <2>3, <2>4
  <2>6. Len(rx') = r /\ kept' = kept
    BY <1>2, <2>1
  <2> QED
    BY <2>1, <2>5, <2>6 DEF IInv, KeptInv
<1> QED
  BY <1>5, <1>10, <1>11 DEF IInv

(* What the modem remembers is short enough and ends with the new frame. *)
LEMMA RememberedFrames ==
  ASSUME NEW q \in Seq(Frame), Len(q) <= MaxKept, NEW f \in Frame
  PROVE  LET r == Remembered(Append(q, f))
         IN  r \in Seq(Frame) /\ Len(r) <= MaxKept /\ r[Len(r)] = f
<1>1. PICK a \in Seq(Frame) : a = Append(q, f)
  BY Queues
<1>2. Len(q) \in Nat /\ Len(a) = Len(q) + 1 /\ a[Len(a)] = f
  BY <1>1, Queues
<1>3. CASE Len(a) <= MaxKept
  BY <1>1, <1>2, <1>3 DEF Remembered
<1>4. CASE ~(Len(a) <= MaxKept)
  <2>1. MaxKept \in Nat /\ MaxKept >= 1
    BY WireAssumption
  <2>2. Len(q) = MaxKept /\ a # <<>>
    BY <1>2, <1>4, <2>1, EmptySeq
  <2>3. /\ Tail(a) \in Seq(Frame) /\ Len(Tail(a)) = Len(q)
        /\ \A i \in 1 .. Len(q) : Tail(a)[i] = a[i + 1]
    BY <1>2, <2>2, Queues
  <2>4. Tail(a)[Len(q)] = f
    BY <1>2, <2>1, <2>2, <2>3
  <2> QED
    BY <1>1, <1>4, <2>2, <2>3, <2>4 DEF Remembered
<1> QED
  BY <1>3, <1>4

(* A frame on the wire stands where it stood. *)
LEMMA DeliverKeeps ==
  ASSUME IInv, Deliver
  PROVE  IInv'
<1>1. /\ rx \in Seq(Frame) /\ air \in Seq(Frame)
      /\ Len(rx) \in Nat /\ Len(air) \in Nat /\ Count \in Nat /\ Count <= MaxQueue
      /\ MaxQueue \in Nat /\ credit \in Int /\ flushed \in Nat /\ Budget \in Int
      /\ kept \in Seq(Frame) /\ Len(kept) \in Nat /\ Len(kept) <= MaxKept
  BY Lengths DEF IInv
<1>2. /\ air' = Tail(air) /\ rx' = Append(rx, Head(air))
      /\ UNCHANGED <<mode, nextSeq, losses, switches, flushed, credit, inputVars>>
  BY DEF Deliver
<1>3. /\ air' \in Seq(Frame) /\ Len(air) >= 1 /\ Len(air') = Len(air) - 1
      /\ \A i \in 1 .. Len(air) - 1 : air'[i] = air[i + 1]
      /\ Head(air) \in Frame /\ Head(air) = air[1]
  BY <1>1, <1>2, Queues, ElementOfSeq, EmptySeq DEF Deliver
<1>4. /\ rx' \in Seq(Frame) /\ Len(rx') = Len(rx) + 1
      /\ \A i \in 1 .. Len(rx) : rx'[i] = rx[i]
      /\ rx'[Len(rx) + 1] = air[1]
  BY <1>1, <1>2, <1>3, Queues
<1>5. Count' = Count
  BY <1>1, <1>3, <1>4 DEF Count
<1>6. /\ kept' \in Seq(Frame) /\ Len(kept') <= MaxKept
      /\ kept'[Len(kept')] = air[1]
  BY <1>1, <1>3, RememberedFrames DEF Deliver
<1>7. TypeOK' /\ LatchInv'
  <2>1. InputTypeOK' /\ LatchInv'
    BY <1>2, InputStays DEF IInv
  <2> QED
    BY <1>1, <1>2, <1>3, <1>4, <1>5, <1>6, <2>1 DEF IInv, TypeOK, Count
<1>8. ASSUME NEW i \in 0 .. Count
      PROVE  Number(i)' = Number(i)
  <2>1. CASE i = 0
    BY <1>2, <2>1 DEF Number, inputVars
  <2>2. CASE i \in 1 .. Len(rx)
    BY <1>1, <1>4, <2>2 DEF Number
  <2>3. CASE i = Len(rx) + 1
    <3>1. i # 0 /\ i <= Len(rx') /\ ~(i <= Len(rx)) /\ i - Len(rx) = 1
      BY <1>1, <1>4, <2>3
    <3> QED
      BY <1>4, <2>3, <3>1 DEF Number
  <2>4. CASE i > Len(rx) + 1
    <3>1. i - Len(rx') \in 1 .. Len(air) - 1 /\ i - Len(rx') + 1 = i - Len(rx)
      BY <1>1, <1>4, <2>4 DEF Count
    <3>2. i # 0 /\ ~(i <= Len(rx')) /\ ~(i <= Len(rx))
      BY <1>1, <1>4, <2>4
    <3>3. air'[i - Len(rx')] = air[i - Len(rx)]
      BY <1>3, <3>1
    <3> QED
      BY <3>2, <3>3 DEF Number
  <2> QED
    BY <1>1, <2>1, <2>2, <2>3, <2>4
<1>9. CreditInv'
  BY <1>2, <1>5, <1>8 DEF IInv, CreditInv, Labels, Budget
<1>10. KeptInv'
  <2>1. Len(rx) + 1 # 0 /\ Len(rx') = Len(rx) + 1
    BY <1>1, <1>4
  <2>2. Number(Len(rx))' = rx'[Len(rx) + 1].seq
    BY <2>1 DEF Number
  <2> QED
    BY <1>4, <1>6, <2>2 DEF KeptInv
<1> QED
  BY <1>7, <1>9, <1>10 DEF IInv

(* A frame the modem keeps stands twice in the queue, side by side. *)
LEMMA RepeatKeeps ==
  ASSUME IInv, Repeat
  PROVE  IInv'
<1>1. /\ rx \in Seq(Frame) /\ air \in Seq(Frame)
      /\ Len(rx) \in Nat /\ Len(air) \in Nat /\ Count \in Nat /\ Count <= MaxQueue
      /\ MaxQueue \in Nat /\ credit \in Int /\ flushed \in Nat /\ Budget \in Int
      /\ kept \in Seq(Frame) /\ Len(kept) \in Nat /\ Len(kept) <= MaxKept
  BY Lengths DEF IInv
<1>2. PICK f : f = kept[Len(kept)]
  OBVIOUS
<1>3. f \in Frame /\ f.seq = Number(Len(rx))
  <2>1. Len(kept) >= 1 /\ kept # <<>>
    BY <1>1, EmptySeq DEF Repeat
  <2> QED
    BY <1>1, <1>2, <2>1, ElementOfSeq DEF IInv, KeptInv
<1>4. /\ rx' = Append(rx, f)
      /\ UNCHANGED <<mode, nextSeq, air, kept, losses, switches, flushed, credit, inputVars>>
  BY <1>2 DEF Repeat
<1>5. /\ rx' \in Seq(Frame) /\ Len(rx') = Len(rx) + 1
      /\ \A i \in 1 .. Len(rx) : rx'[i] = rx[i]
      /\ rx'[Len(rx) + 1] = f
  BY <1>1, <1>3, <1>4, Queues
<1>6. Count' = Count + 1 /\ Count' \in Nat /\ Count' <= MaxQueue
  BY <1>1, <1>4, <1>5 DEF Count, Repeat, Room
<1>7. TypeOK' /\ LatchInv'
  <2>1. InputTypeOK' /\ LatchInv'
    BY <1>4, InputStays DEF IInv
  <2> QED
    BY <1>1, <1>4, <1>5, <1>6, <2>1 DEF IInv, TypeOK, Count
<1>8. PICK p : p = [i \in 0 .. Count' |-> IF i <= Len(rx) THEN i ELSE i - 1]
  OBVIOUS
<1>9. /\ p \in [0 .. Count' -> 0 .. Count] /\ p[0] = 0
      /\ \A i \in 0 .. Count' : p[i] = IF i <= Len(rx) THEN i ELSE i - 1
  <2>1. Len(rx) <= Count
    BY <1>1 DEF Count
  <2> QED
    BY <1>1, <1>6, <1>8, <2>1
<1>10. ASSUME NEW i \in 0 .. Count', NEW j \in 0 .. Count', i <= j
       PROVE  p[i] <= p[j]
  <2>1. p[i] = IF i <= Len(rx) THEN i ELSE i - 1
    BY <1>9
  <2>2. p[j] = IF j <= Len(rx) THEN j ELSE j - 1
    BY <1>9
  <2>3. i \in Int /\ j \in Int
    BY <1>6
  <2> QED
    BY <1>1, <1>10, <2>1, <2>2, <2>3
<1>11. ASSUME NEW i \in 0 .. Count'
       PROVE  Number(i)' = Number(p[i])
  <2>1. CASE i = 0
    BY <1>1, <1>4, <1>9, <2>1 DEF Number, inputVars
  <2>2. CASE i \in 1 .. Len(rx)
    <3>1. p[i] = i /\ i # 0 /\ i <= Len(rx) /\ i <= Len(rx')
      BY <1>1, <1>5, <1>9, <2>2
    <3> QED
      BY <1>5, <2>2, <3>1 DEF Number
  <2>3. CASE i = Len(rx) + 1
    <3>1. p[i] = Len(rx) /\ i # 0 /\ i <= Len(rx')
      BY <1>1, <1>5, <1>9, <2>3
    <3>2. Number(i)' = f.seq
      BY <1>5, <2>3, <3>1 DEF Number
    <3> QED
      BY <1>3, <3>1, <3>2
  <2>4. CASE i > Len(rx) + 1
    <3>1. p[i] = i - 1 /\ i - 1 # 0 /\ ~(i - 1 <= Len(rx))
      BY <1>1, <1>6, <1>9, <2>4
    <3>2. i # 0 /\ ~(i <= Len(rx')) /\ i - Len(rx') = i - 1 - Len(rx)
      BY <1>1, <1>5, <1>6, <2>4
    <3> QED
      BY <1>4, <3>1, <3>2 DEF Number
  <2> QED
    BY <1>1, <1>6, <2>1, <2>2, <2>3, <2>4
<1>12. CreditInv'
  <2>1. Budget' = Budget
    BY <1>4 DEF Budget
  <2> QED
    BY <1>1, <1>6, <1>9, <1>10, <1>11, <2>1, Unspent DEF IInv
<1>13. KeptInv'
  <2>1. Len(rx') \in 0 .. Count' /\ p[Len(rx')] = Len(rx)
    BY <1>1, <1>5, <1>6, <1>9 DEF Count
  <2>2. Number(Len(rx))' = Number(Len(rx))
    BY <1>5, <1>11, <2>1 DEF Number
  <2> QED
    BY <1>4, <2>2 DEF IInv, KeptInv
<1> QED
  BY <1>7, <1>12, <1>13 DEF IInv

(* A flushed queue costs at most one refresh for each of its frames: they  *)
(* stand before the modem's queue, and the last of them is the newest one  *)
(* that the loop can have seen.                                            *)
LEMMA FlushKeeps ==
  ASSUME IInv, Flush
  PROVE  IInv'
<1>1. /\ rx \in Seq(Frame) /\ air \in Seq(Frame)
      /\ Len(rx) \in Nat /\ Len(air) \in Nat /\ Count \in Nat /\ Count <= MaxQueue
      /\ MaxQueue \in Nat /\ credit \in Int /\ flushed \in Nat /\ Budget \in Int
      /\ kept \in Seq(Frame) /\ Len(kept) \in Nat /\ Len(kept) <= MaxKept
  BY Lengths DEF IInv
<1>2. /\ air' = kept \o air /\ flushed' = flushed + Len(kept) /\ flushed' <= MaxFlushed
      /\ Len(kept) + Len(air) + Len(rx) <= MaxQueue
      /\ UNCHANGED <<mode, nextSeq, kept, rx, losses, switches, credit, inputVars>>
  BY DEF Flush
<1> DEFINE R == Len(rx)
           K == Len(kept)
<1>3. /\ air' \in Seq(Frame) /\ Len(air') = K + Len(air)
      /\ \A i \in 1 .. K + Len(air) : air'[i] = IF i <= K THEN kept[i] ELSE air[i - K]
  BY <1>1, <1>2, ConcatProperties
<1>4. K >= 1 /\ kept[K].seq = Number(R)
  BY <1>1, EmptySeq DEF Flush, IInv, KeptInv
<1>5. R \in Nat /\ K \in Nat /\ Count \in Nat /\ Count' = Count + K /\ Count' \in Nat /\ R <= Count
      /\ Budget' = Budget + K
  BY <1>1, <1>2, <1>3 DEF Count, Budget
<1>6. TypeOK' /\ LatchInv'
  <2>1. InputTypeOK' /\ LatchInv'
    BY <1>2, InputStays DEF IInv
  <2>2. flushed' \in 0 .. MaxFlushed
    BY <1>1, <1>2
  <2> QED
    BY <1>1, <1>2, <1>3, <2>1, <2>2 DEF IInv, TypeOK
<1> HIDE DEF R, K
<1>7. PICK g \in [0 .. Count -> Int] : Labels(g) /\ g[Count] <= Budget
  BY DEF IInv, CreditInv
<1>8. PICK h : h = [i \in 0 .. Count' |-> IF i <= R THEN g[i]
                                        ELSE IF i <= R + K THEN g[R] + (i - R)
                                        ELSE g[i - K] + K]
  OBVIOUS
<1>9. R \in 0 .. Count /\ 0 \in 0 .. Count /\ Count \in 0 .. Count /\ g[R] \in Int
  BY <1>1, <1>5
(* The three parts of the queue: before the flush, the flush, behind it. *)
<1>10. ASSUME NEW i \in 0 .. Count'
       PROVE  /\ i <= R => /\ i \in 0 .. Count /\ h[i] = g[i] /\ h[i] <= g[R]
                          /\ Number(i)' = Number(i)
              /\ i > R /\ i <= R + K => h[i] = g[R] + (i - R)
              /\ i = R + K => Number(i)' = Number(R)
              /\ i > R + K => /\ i - K \in 0 .. Count /\ h[i] = g[i - K] + K /\ g[R] <= g[i - K]
                             /\ Number(i)' = Number(i - K)
  <2>1. i \in Int /\ h[i] = IF i <= R THEN g[i] ELSE IF i <= R + K THEN g[R] + (i - R) ELSE g[i - K] + K
    BY <1>5, <1>8
  <2>2. ASSUME i <= R
        PROVE  i \in 0 .. Count /\ h[i] = g[i] /\ h[i] <= g[R] /\ Number(i)' = Number(i)
    <3>1. i \in 0 .. Count /\ h[i] = g[i]
      BY <1>5, <2>1, <2>2
    <3>2. g[i] <= g[R]
      BY <1>7, <1>9, <2>2, <3>1 DEF Labels
    <3>3. Number(i)' = Number(i)
      BY <1>2, <2>2 DEF Number, R, inputVars
    <3> QED
      BY <3>1, <3>2, <3>3
  <2>3. ASSUME i > R, i <= R + K
        PROVE  h[i] = g[R] + (i - R)
    BY <1>5, <2>1, <2>3
  <2>4. ASSUME i = R + K
        PROVE  Number(i)' = Number(R)
    <3>1. i # 0 /\ ~(i <= R) /\ i - R = K /\ K \in 1 .. K + Len(air) /\ K <= K
      BY <1>1, <1>4, <1>5, <2>4
    <3>2. Number(i)' = air'[K].seq
      BY <1>2, <3>1 DEF Number, R
    <3>3. air'[K] = kept[K]
      BY <1>3, <3>1
    <3> QED
      BY <1>4, <3>2, <3>3
  <2>5. ASSUME i > R + K
        PROVE  /\ i - K \in 0 .. Count /\ h[i] = g[i - K] + K /\ g[R] <= g[i - K]
               /\ Number(i)' = Number(i - K)
    <3>1. i - K \in 0 .. Count /\ R <= i - K /\ h[i] = g[i - K] + K
      BY <1>5, <2>1, <2>5
    <3>2. g[R] <= g[i - K]
      BY <1>7, <1>9, <3>1 DEF Labels
    <3>3. /\ i # 0 /\ ~(i <= R) /\ i - K # 0 /\ ~(i - K <= R) /\ i - R - K = i - K - R
          /\ ~(i - R <= K) /\ i - R \in 1 .. K + Len(air)
      <4>1. Count = R + Len(air)
        BY DEF Count, R
      <4> QED
        BY <1>1, <1>5, <2>1, <2>5, <4>1
    <3>4. Number(i)' = air'[i - R].seq
      BY <1>2, <3>3 DEF Number, R
    <3>5. air'[i - R] = air[i - K - R]
      BY <1>3, <3>3
    <3>6. Number(i - K) = air[i - K - R].seq
      BY <3>3 DEF Number, R
    <3> QED
      BY <3>1, <3>2, <3>4, <3>5, <3>6
  <2> QED
    BY <2>2, <2>3, <2>4, <2>5
<1>11. h \in [0 .. Count' -> Int] /\ h[0] = 0
  <2>1. ASSUME NEW i \in 0 .. Count'
        PROVE  h[i] \in Int
    <3>1. CASE i <= R
      BY <1>7, <1>10, <3>1
    <3>2. CASE i > R /\ i <= R + K
      BY <1>5, <1>9, <1>10, <3>2
    <3>3. CASE i > R + K
      <4>1. g[i - K] \in Int
        BY <1>7, <1>10, <3>3
      <4> QED
        BY <1>5, <1>10, <3>3, <4>1
    <3> QED
      BY <1>5, <3>1, <3>2, <3>3
  <2>2. h[0] = g[0]
    BY <1>5, <1>10
  <2> QED
    BY <1>7, <1>8, <2>1, <2>2 DEF Labels
<1>12. ASSUME NEW i \in 0 .. Count', NEW j \in 0 .. Count', i <= j
       PROVE  h[i] <= h[j] /\ (h[i] = h[j] => Number(i)' = Number(j)')
  <2>1. i \in Int /\ j \in Int /\ R \in Int /\ K \in Int /\ g[R] \in Int
        /\ h[i] \in Int /\ h[j] \in Int
    BY <1>5, <1>9, <1>11
  <2>2. CASE j <= R
    <3>1. i <= R
      BY <1>12, <2>1, <2>2
    <3>2. /\ i \in 0 .. Count /\ j \in 0 .. Count /\ h[i] = g[i] /\ h[j] = g[j]
          /\ Number(i)' = Number(i) /\ Number(j)' = Number(j)
      BY <1>10, <2>2, <3>1
    <3> QED
      BY <1>7, <1>12, <3>2 DEF Labels
  <2>3. CASE i > R + K
    <3>1. j > R + K
      BY <1>12, <2>1, <2>3
    <3>2. /\ i - K \in 0 .. Count /\ j - K \in 0 .. Count
          /\ h[i] = g[i - K] + K /\ h[j] = g[j - K] + K
          /\ Number(i)' = Number(i - K) /\ Number(j)' = Number(j - K)
      BY <1>10, <2>3, <3>1
    <3>3. /\ g[i - K] <= g[j - K] /\ (g[i - K] = g[j - K] => Number(i - K) = Number(j - K))
          /\ g[i - K] \in Int /\ g[j - K] \in Int
      BY <1>7, <1>12, <2>1, <3>2 DEF Labels
    <3> QED
      BY <2>1, <3>2, <3>3
  <2>4. CASE i <= R /\ j > R /\ j <= R + K
    <3>1. h[i] <= g[R] /\ h[j] = g[R] + (j - R)
      BY <1>10, <2>4
    <3> QED
      BY <2>1, <2>4, <3>1
  <2>5. CASE i <= R /\ j > R + K
    <3>1. h[i] <= g[R] /\ h[j] = g[j - K] + K /\ g[R] <= g[j - K] /\ g[j - K] \in Int
      BY <1>7, <1>10, <2>5
    <3> QED
      BY <1>4, <2>1, <3>1
  <2>6. CASE i > R /\ i <= R + K /\ j <= R + K
    <3>1. h[i] = g[R] + (i - R) /\ h[j] = g[R] + (j - R)
      BY <1>10, <1>12, <2>1, <2>6
    <3>2. h[i] = h[j] => i = j
      BY <2>1, <3>1
    <3> QED
      BY <1>12, <2>1, <3>1, <3>2
  <2>7. CASE i > R /\ i <= R + K /\ j > R + K
    <3>1. /\ h[i] = g[R] + (i - R) /\ j - K \in 0 .. Count /\ h[j] = g[j - K] + K
          /\ g[R] <= g[j - K] /\ g[j - K] \in Int /\ Number(j)' = Number(j - K)
      BY <1>7, <1>10, <2>7
    <3>2. h[i] <= h[j] /\ (h[i] = h[j] => i = R + K /\ g[R] = g[j - K])
      BY <2>1, <2>7, <3>1
    <3>3. R <= j - K
      BY <2>1, <2>7
    <3>4. g[R] = g[j - K] => Number(R) = Number(j - K)
      BY <1>7, <1>9, <3>1, <3>3 DEF Labels
    <3>5. i = R + K => Number(i)' = Number(R)
      BY <1>10
    <3> QED
      BY <3>1, <3>2, <3>4, <3>5
  <2> QED
    BY <2>1, <2>2, <2>3, <2>4, <2>5, <2>6, <2>7
<1>13. h[Count'] <= Budget'
  <2>1. Count' \in 0 .. Count' /\ Count' >= R + K /\ Count' - K = Count
    BY <1>5
  <2>2. h[Count'] = g[Count] + K
    <3>1. CASE Count' = R + K
      <4>1. Count = R /\ Count' > R
        BY <1>4, <1>5, <3>1
      <4>2. h[Count'] = g[R] + (Count' - R)
        BY <1>10, <1>5, <2>1, <3>1, <4>1
      <4> QED
        BY <1>5, <1>9, <3>1, <4>1, <4>2
    <3>2. CASE Count' > R + K
      BY <1>10, <2>1, <3>2
    <3> QED
      BY <1>5, <2>1, <3>1, <3>2
  <2>3. g[Count] \in Int /\ g[Count] <= Budget
    BY <1>7, <1>9
  <2> QED
    BY <1>1, <1>5, <2>2, <2>3
<1>14. CreditInv'
  <2>1. Labels(h)'
    BY <1>11, <1>12 DEF Labels
  <2> QED
    BY <1>11, <1>13, <2>1 DEF CreditInv
<1>15. KeptInv'
  <2>1. PICK r : r = Len(rx)
    OBVIOUS
  <2>2. r \in 0 .. Count' /\ r <= R
    BY <1>5, <2>1 DEF R
  <2>3. Number(r)' = Number(r)
    BY <1>10, <2>2
  <2>4. Len(rx') = r /\ kept' = kept
    BY <1>2, <2>1
  <2> QED
    BY <2>1, <2>3, <2>4 DEF IInv, KeptInv
<1> QED
  BY <1>6, <1>14, <1>15 DEF IInv

-----------------------------------------------------------------------------
(* One iteration of the loop: the drained frame is in the queue, and what  *)
(* is left of the queue begins after it.                                   *)
LEMMA TickKeeps ==
  ASSUME IInv, Tick
  PROVE  IInv'
<1>1. /\ rx \in Seq(Frame) /\ air \in Seq(Frame)
      /\ Len(rx) \in Nat /\ Len(air) \in Nat /\ Count \in Nat /\ Count <= MaxQueue
      /\ MaxQueue \in Nat /\ credit \in Int /\ flushed \in Nat /\ Budget \in Int
      /\ kept \in Seq(Frame) /\ Len(kept) \in Nat /\ Len(kept) <= MaxKept
  BY Lengths DEF IInv
<1>2. PICK step \in 1 .. MaxStep : Iterate(step)
  BY DEF Tick
<1>3. /\ PollOperator(step, Drained) /\ rx' = <<>>
      /\ credit' = IF IsNew(Drained) THEN credit - 1 ELSE credit
      /\ UNCHANGED <<mode, nextSeq, air, kept, losses, switches, flushed>>
  BY <1>2 DEF Iterate
<1>4. Len(rx') = 0 /\ rx' \in Seq(Frame)
  BY <1>3, EmptySeq
<1>5. Count' = Len(air) /\ Count = Len(rx) + Len(air)
  BY <1>1, <1>3, <1>4 DEF Count
<1>6. /\ rx = <<>> => Len(rx) = 0 /\ Drained = NoFrame
      /\ rx # <<>> => Len(rx) >= 1 /\ Drained = rx[Len(rx)] /\ Drained \in Frame
  <2>1. CASE rx = <<>>
    BY <2>1, EmptySeq DEF Drained
  <2>2. CASE rx # <<>>
    <3>1. Len(rx) >= 1
      BY <1>1, <2>2, EmptySeq
    <3> QED
      BY <1>1, <2>2, <3>1, ElementOfSeq DEF Drained
  <2> QED
    BY <2>1, <2>2
<1>7. TypeOK' /\ LatchInv'
  <2>1. step \in Nat
    BY WireAssumption
  <2>2. InputTypeOK /\ LatchInv /\ Drained \in Frame \cup {NoFrame}
    BY <1>6 DEF IInv, TypeOK
  <2>3. InputTypeOK' /\ LatchInv'
    BY <1>3, <2>1, <2>2, PollTypes
  <2>4. credit' \in Int
    BY <1>1, <1>3
  <2> QED
    BY <1>1, <1>3, <1>4, <1>5, <2>3, <2>4 DEF IInv, TypeOK, Count
(* The loop has accepted the number of the last frame drained. *)
<1>8. /\ Number(Len(rx)) = lastSeq'
      /\ IsNew(Drained) <=> Number(Len(rx)) # lastSeq
  <2>1. CASE rx = <<>>
    <3>1. ~IsNew(Drained)
      BY <1>6, <2>1 DEF IsNew
    <3>2. lastSeq' = lastSeq
      BY <1>3, <3>1 DEF PollOperator, Ignored
    <3> QED
      BY <1>6, <2>1, <3>1, <3>2 DEF Number
  <2>2. CASE rx # <<>>
    <3>1. Number(Len(rx)) = Drained.seq
      BY <1>1, <1>6, <2>2 DEF Number
    <3>2. Drained # NoFrame
      BY <1>6, <2>2, SeqAssumption DEF Frame, NoFrame
    <3>3. IsNew(Drained) <=> Drained.seq # lastSeq
      BY <3>2 DEF IsNew
    <3>4. IsNew(Drained) => lastSeq' = Drained.seq
      BY <1>3 DEF PollOperator, Accepted
    <3>5. ~IsNew(Drained) => lastSeq' = lastSeq
      BY <1>3 DEF PollOperator, Ignored
    <3> QED
      BY <3>1, <3>3, <3>4, <3>5
  <2> QED
    BY <2>1, <2>2
<1>9. PICK g \in [0 .. Count -> Int] : Labels(g) /\ g[Count] <= Budget
  BY DEF IInv, CreditInv
<1>10. PICK p : p = [i \in 0 .. Count' |-> i + Len(rx)]
  OBVIOUS
<1>11. /\ p \in [0 .. Count' -> 0 .. Count]
       /\ \A i \in 0 .. Count' : p[i] = i + Len(rx)
  BY <1>1, <1>5, <1>10
<1>12. \A i \in 0 .. Count' : \A j \in 0 .. Count' : i <= j => p[i] <= p[j]
  BY <1>1, <1>5, <1>11
<1>13. ASSUME NEW i \in 0 .. Count'
       PROVE  Number(i)' = Number(p[i])
  <2>1. CASE i = 0
    <3>1. p[i] = Len(rx)
      BY <1>1, <1>11, <2>1
    <3> QED
      BY <1>8, <2>1, <3>1 DEF Number
  <2>2. CASE i # 0
    <3>1. p[i] = i + Len(rx) /\ i \in Nat
      BY <1>1, <1>5, <1>11
    <3>2. ~(i <= 0) /\ i - 0 = i
      BY <2>2, <3>1
    <3>3. Number(i)' = air[i].seq
      BY <1>3, <1>4, <2>2, <3>2 DEF Number
    <3>4. /\ i + Len(rx) # 0 /\ ~(i + Len(rx) <= Len(rx))
          /\ i + Len(rx) - Len(rx) = i
      BY <1>1, <2>2, <3>1
    <3>5. Number(p[i]) = air[i].seq
      BY <3>1, <3>4 DEF Number
    <3> QED
      BY <3>3, <3>5
  <2> QED
    BY <2>1, <2>2
<1>14. g[p[Count']] - g[p[0]] <= Budget'
  <2>1. p[Count'] = Count /\ p[0] = Len(rx)
    BY <1>1, <1>5, <1>11
  <2>2. 0 \in 0 .. Count /\ Len(rx) \in 0 .. Count /\ Count \in 0 .. Count
    BY <1>1, <1>5
  <2>3. g[Len(rx)] \in Int /\ g[Count] \in Int /\ g[0] = 0
    BY <1>9, <2>2 DEF Labels
  <2>4. g[0] <= g[Len(rx)] /\ (g[0] = g[Len(rx)] => Number(0) = Number(Len(rx)))
    BY <1>1, <1>9, <2>2 DEF Labels
  <2>5. Number(0) = lastSeq
    BY DEF Number
  <2>6. IsNew(Drained) => g[Len(rx)] >= 1
    BY <1>8, <2>3, <2>4, <2>5
  <2> QED
    BY <1>1, <1>3, <1>9, <2>1, <2>3, <2>4, <2>6 DEF Budget
<1>15. Count' \in Nat
  BY <1>1, <1>5
<1>16. CreditInv'
  BY <1>1, <1>9, <1>11, <1>12, <1>13, <1>14, <1>15, Relabelled
<1>17. KeptInv'
  <2>1. Number(Len(rx))' = lastSeq'
    BY <1>4 DEF Number
  <2> QED
    BY <1>3, <1>8, <2>1 DEF IInv, KeptInv
<1> QED
  BY <1>7, <1>16, <1>17 DEF IInv

LEMMA Initially ==
  ASSUME Init
  PROVE  IInv
<1>1. /\ rx = <<>> /\ air = <<>> /\ kept = <<>> /\ credit = 0 /\ flushed = 0
      /\ Len(rx) = 0 /\ Len(air) = 0 /\ Len(kept) = 0
  BY EmptySeq DEF Init
<1>2. Count = 0
  BY <1>1 DEF Count
<1>3. InputTypeOK /\ LatchInv
  <2>1. linkAge \in 0 .. LinkTimeout + 1 /\ clearCount \in 0 .. ClearFrames
    BY LinkAssumption, ClearAssumption DEF Init, InputInit
  <2> QED
    BY <2>1 DEF Init, InputInit, InputTypeOK, LatchInv, Modes
<1>4. TypeOK
  <2>1. 0 \in 0 .. MaxLosses /\ 0 \in 0 .. MaxSwitches /\ 0 \in Seqs /\ 0 <= MaxQueue
        /\ 0 \in 0 .. MaxFlushed /\ 0 <= MaxKept
    BY WireAssumption
  <2>2. rx \in Seq(Frame) /\ air \in Seq(Frame) /\ kept \in Seq(Frame)
    BY <1>1, EmptySeq
  <2> QED
    BY <1>1, <1>3, <2>1, <2>2 DEF Init, TypeOK
<1>5. PICK g : g = [i \in 0 .. 0 |-> 0]
  OBVIOUS
<1>6. Labels(g) /\ g \in [0 .. Count -> Int] /\ g[Count] <= Budget
  BY <1>1, <1>2, <1>5 DEF Labels, Budget
<1>7. CreditInv
  BY <1>6 DEF CreditInv
<1>8. KeptInv
  BY <1>1 DEF KeptInv
<1> QED
  BY <1>3, <1>4, <1>7, <1>8 DEF IInv

LEMMA StepKeeps ==
  ASSUME IInv, [Next]_linkVars
  PROVE  IInv'
<1>1. CASE UNCHANGED linkVars
  <2>1. UNCHANGED <<mode, nextSeq, air, kept, rx, losses, switches, flushed, credit>> /\ UNCHANGED inputVars
    BY <1>1 DEF linkVars, wireVars
  <2>2. InputTypeOK' /\ LatchInv'
    BY <2>1, InputStays DEF IInv
  <2>3. TypeOK'
    BY <2>1, <2>2 DEF IInv, TypeOK
  <2>4. Count' = Count /\ \A i \in 0 .. Count : Number(i)' = Number(i)
    BY <2>1 DEF Count, Number, inputVars
  <2>5. CreditInv'
    BY <2>1, <2>4 DEF IInv, CreditInv, Labels, Budget
  <2>6. KeptInv'
    <3>1. Len(rx) \in 0 .. Count
      BY Lengths DEF IInv, Count
    <3> QED
      BY <2>1, <2>4, <3>1 DEF IInv, KeptInv
  <2> QED
    BY <2>2, <2>3, <2>5, <2>6 DEF IInv
<1> QED
  BY <1>1, TransmitKeeps, LoseKeeps, DeliverKeeps, RepeatKeeps, FlushKeeps, TickKeeps,
     SwitchKeeps
  DEF Next

(* The strengthened invariant of the command path holds in every reachable *)
(* state.                                                                  *)
THEOREM Invariance == Spec => []IInv
<1>1. IInv /\ [Next]_linkVars => IInv'
  BY StepKeeps
<1> QED
  BY <1>1, Initially, PTL DEF Spec

(* Every variable of the command path has its type, and the queue between  *)
(* console and loop its bound, for every bound.                            *)
THEOREM TypeCorrect == Spec => []TypeOK
<1>1. IInv => TypeOK
  BY DEF IInv
<1> QED
  BY <1>1, Invariance, PTL

(* The link timer of run_vehicle is refreshed at most once for each frame  *)
(* the console transmitted and each frame the modem flushed out of turn:   *)
(* however often the modem sends its last frame again and whichever frames *)
(* it loses, for sequence numbers that wrap anywhere, any memory of the    *)
(* modem and any number of frames on their way.                            *)
THEOREM NoRepeatRefreshes == Spec => []RefreshIsEarned
<1>1. ASSUME IInv
      PROVE  RefreshIsEarned
  <2>1. Count \in Nat /\ Budget \in Int
    BY <1>1, Lengths DEF IInv
  <2>2. PICK g \in [0 .. Count -> Int] : Labels(g) /\ g[Count] <= Budget
    BY <1>1 DEF IInv, CreditInv
  <2>3. 0 \in 0 .. Count /\ Count \in 0 .. Count /\ 0 <= Count
    BY <2>1
  <2>4. g[0] = 0 /\ g[0] <= g[Count] /\ g[Count] \in Int
    BY <2>2, <2>3 DEF Labels
  <2> QED
    BY <2>1, <2>2, <2>4 DEF RefreshIsEarned, Budget
<1>2. IInv => RefreshIsEarned
  BY <1>1
<1> QED
  BY <1>2, Invariance, PTL

(* Only a frame that the console transmits or the modem flushes adds to    *)
(* the credit; an iteration that accepts a frame spends some, and one that *)
(* does not brings the link nearer to its timeout.                         *)
SilenceRunsOut ==
  [][/\ Budget' > Budget => Transmit \/ Flush
     /\ Tick => IF lastSeq' # lastSeq THEN Budget' < Budget
                ELSE linkAge' > linkAge \/ linkAge' = LinkTimeout + 1]_linkVars

(* Once the console is silent the credit, flushed frames included, is never *)
(* negative and bounds the refreshes that the frames and repeats still     *)
(* under way can bring about; between them the link only ages              *)
(* (link_supervisor.hpp:15-22, run_vehicle.cpp:433-455). A modem that      *)
(* flushes its queue again adds what it flushes, and nothing else does:    *)
(* SilenceIsNoticed rests on it.                                           *)
THEOREM QueueCannotFakeLife == Spec => []RefreshIsEarned /\ SilenceRunsOut
<1>1. ASSUME IInv, [Next]_linkVars
      PROVE  Budget' > Budget => Transmit \/ Flush \/ UNCHANGED linkVars
  <2>1. credit \in Int /\ flushed \in Int
    BY <1>1, Lengths DEF IInv
  <2> QED
    BY <1>1, <2>1 DEF Next, Switch, Lose, Deliver, Repeat, Tick, Iterate, Budget
<1>2. ASSUME IInv, Tick
      PROVE  IF lastSeq' # lastSeq THEN Budget' < Budget
             ELSE linkAge' > linkAge \/ linkAge' = LinkTimeout + 1
  <2>1. PICK step \in 1 .. MaxStep : Iterate(step)
    BY <1>2 DEF Tick
  <2>2. /\ credit \in Int /\ flushed \in Int /\ linkAge \in 0 .. LinkTimeout + 1
        /\ step \in Nat /\ step >= 1 /\ LinkTimeout \in Nat
    BY <1>2, Lengths, WireAssumption, LinkAssumption DEF IInv, TypeOK, InputTypeOK
  <2>3. CASE IsNew(Drained)
    <3>1. lastSeq' = Drained.seq /\ Drained.seq # lastSeq /\ credit' = credit - 1
          /\ flushed' = flushed
      BY <2>1, <2>3 DEF Iterate, PollOperator, Accepted, IsNew
    <3> QED
      BY <2>2, <3>1 DEF Budget
  <2>4. CASE ~IsNew(Drained)
    <3>1. lastSeq' = lastSeq /\ linkAge' = Aged(linkAge, step, LinkTimeout + 1)
      BY <2>1, <2>4 DEF Iterate, PollOperator, Ignored
    <3> QED
      BY <2>2, <3>1 DEF Aged
  <2> QED
    BY <2>3, <2>4
<1>3. IInv /\ [Next]_linkVars =>
        [/\ Budget' > Budget => Transmit \/ Flush
         /\ Tick => IF lastSeq' # lastSeq THEN Budget' < Budget
                    ELSE linkAge' > linkAge \/ linkAge' = LinkTimeout + 1]_linkVars
  BY <1>1, <1>2
<1> QED
  BY <1>3, Invariance, NoRepeatRefreshes, PTL DEF Spec, SilenceRunsOut
=============================================================================
