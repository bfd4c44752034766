----------------------------- MODULE LinkProofs -----------------------------
(***************************************************************************)
(* The serial link, for every sequence of frames, banner, CRC, alphabet    *)
(* and number of troubles: a frame whose every byte arrives is delivered,  *)
(* whatever happened before it, and a fault of the line costs one frame at *)
(* most.  That nothing but sent payloads is delivered depends on the CRC   *)
(* and stays with TLC.                                                     *)
(***************************************************************************)
EXTENDS Link, SkProtocolProofs, FiniteSetTheorems

Payloads == {Frame[k] : k \in DOMAIN Frame}

(***************************************************************************)
(* The frame on the wire.  The banner holds no FLAG and a frame ends with  *)
(* one, so the last byte tells what tx is left over from.                  *)
(***************************************************************************)
Latest == begun[Len(begun)]

Current == Encoded(Latest)

\* For every byte of the current frame, the data bytes complete with it.
Org == CHOOSE o :
          Carries(Current, o, Inner(Latest), Len(Current) - 1, Len(Inner(Latest)))

Sending == tx # <<>> /\ tx[Len(tx)] = SK_FLAG

\* How many bytes of the current frame the line has taken.
At == Len(Current) - Len(tx)

(***************************************************************************)
(* The inductive invariant.                                                *)
(***************************************************************************)
HistoryInv ==
    /\ begun \in Seq(Payloads)
    /\ IF listening THEN since >= 1 ELSE since = 0 /\ ~whole

\* What is to be sent is the rest of the current frame, or free of FLAGs.
WireInv ==
    IF Sending
    THEN /\ begun # <<>> /\ Len(tx) <= Len(Current)
         /\ \A j \in 1 .. Len(tx) : tx[j] = Current[At + j]
    ELSE \A j \in 1 .. Len(tx) : tx[j] # SK_FLAG

\* The receiver is in step with a frame that arrived intact so far.
StepInv ==
    whole /\ tx # <<>> =>
        /\ Sending
        /\ At >= 1 => st = Heard(Current, Org, Inner(Latest), At)

\* The frame being sent is lost already, and it will count.
Doomed == Sending /\ ~whole /\ listening /\ Len(begun) >= since

Missed == heard \ Taken

\* Every frame missed so far, and the one being missed, had its own fault.
FaultInv == Cardinality(Missed) + (IF Doomed THEN 1 ELSE 0) <= faults

LinkInv == TypeOK /\ HistoryInv /\ WireInv /\ StepInv /\ FaultInv

-----------------------------------------------------------------------------
(* Facts about the constants and the histories. *)

\* Every payload the node sends can be framed.
LEMMA PayloadOK ==
  ASSUME NEW p \in Payloads
  PROVE  /\ p \in Seq(Byte) /\ LegalLength(p) /\ Crc(p) \in Byte \X Byte
         /\ Len(p) \in Nat /\ Len(p) >= 1
         /\ Inner(p) \in Seq(Byte) /\ Len(Inner(p)) <= SK_FRAME_INNER
<1>1. p \in Seq(Byte) /\ LegalLength(p) /\ Crc(p) \in Byte \X Byte
  BY LinkAssumption DEF Payloads
<1>2. /\ Inner(p) \in Seq(Byte) /\ Len(Inner(p)) = Len(p) + SK_CRC_LEN
      /\ Len(p) \in SK_PAYLOAD_MIN .. SK_PAYLOAD_MAX
  BY <1>1, InnerOK
<1> QED
  BY <1>1, <1>2, LengthAssumption DEF SK_FRAME_INNER, SK_CRC_LEN

\* The payload of the current frame is one of them.
LEMMA LatestOK ==
  ASSUME begun \in Seq(Payloads), begun # <<>>
  PROVE  Latest \in Payloads /\ Len(begun) \in Nat \ {0}
BY DEF Latest

\* The current frame: FLAG, the stuffed payload and CRC, FLAG.
LEMMA CurrentOK ==
  ASSUME begun \in Seq(Payloads), begun # <<>>
  PROVE  /\ Current \in Seq(Byte) /\ Len(Current) \in Nat /\ Len(Current) >= 2
         /\ Current[Len(Current)] = SK_FLAG
         /\ Carries(Current, Org, Inner(Latest), Len(Current) - 1, Len(Inner(Latest)))
<1>1. Inner(Latest) \in Seq(Byte)
  BY LatestOK, PayloadOK
<1>2. /\ Current \in Seq(Byte) /\ Len(Current) >= 2
      /\ Current[Len(Current)] = SK_FLAG
      /\ \E o : Carries(Current, o, Inner(Latest), Len(Current) - 1, Len(Inner(Latest)))
  BY <1>1, EncodedCarries DEF Current
<1>3. Carries(Current, Org, Inner(Latest), Len(Current) - 1, Len(Inner(Latest)))
  BY <1>2 DEF Org
<1> QED
  BY <1>2, <1>3

\* A non-empty set of positions has a last one.
LEMMA LastOne ==
  ASSUME NEW n \in Nat, NEW S, S \subseteq 1 .. n, S # {}
  PROVE  \E k \in S : \A j \in S : j <= k
<1> DEFINE T == {n - k : k \in S}
<1>1. T \subseteq Nat /\ T # {}
  OBVIOUS
<1>2. \A j \in S : n - j \in T /\ j \in Nat
  OBVIOUS
<1>3. \A x \in T : \E k \in S : x = n - k
  OBVIOUS
<1> HIDE DEF T
<1>4. PICK x \in T : \A y \in T : ~(<<y, x>> \in OpToRel(<, Nat))
  BY <1>1, NatLessThanWellFounded, WFMin
<1>5. PICK k \in S : x = n - k
  BY <1>3, <1>4
<1>6. ASSUME NEW j \in S PROVE j <= k
  <2>1. SUFFICES ASSUME j > k PROVE FALSE
    BY <1>2
  <2>2. n - j \in T /\ n - j \in Nat /\ x \in Nat /\ n - j < x
    BY <1>1, <1>2, <1>5, <2>1
  <2>3. <<n - j, x>> \in OpToRel(<, Nat)
    BY <2>2 DEF OpToRel
  <2> QED
    BY <1>4, <2>2, <2>3
<1> QED
  BY <1>6

\* A delivery is attributed to a frame begun, and one that equals the
\* current frame's payload to the current frame.
LEMMA SourceOK ==
  ASSUME begun \in Seq(Payloads), NEW p
  PROVE  /\ Source(p) \in Nat
         /\ begun # <<>> /\ p = Latest => Source(p) = Len(begun)
<1> DEFINE same == {k \in DOMAIN begun : begun[k] = p}
<1>1. Len(begun) \in Nat /\ DOMAIN begun = 1 .. Len(begun)
  OBVIOUS
<1>2. Source(p) = IF same = {} THEN 0 ELSE CHOOSE k \in same : \A j \in same : j <= k
  BY DEF Source
<1>3. CASE same = {}
  <2>1. begun # <<>> => Len(begun) \in DOMAIN begun
    BY <1>1
  <2> QED
    BY <1>2, <1>3, <2>1 DEF Latest
<1>4. CASE same # {}
  <2>1. \E k \in same : \A j \in same : j <= k
    BY <1>1, <1>4, LastOne
  <2>2. Source(p) \in same /\ \A j \in same : j <= Source(p)
    BY <1>2, <1>4, <2>1
  <2>3. begun # <<>> /\ p = Latest => Len(begun) \in same
    BY <1>1 DEF Latest
  <2> QED
    BY <1>1, <2>2, <2>3
<1> QED
  BY <1>3, <1>4

\* What one more fault pays for.
LEMMA OneMore ==
  ASSUME NEW A, IsFiniteSet(A), NEW x, NEW B, B \subseteq A \cup {x}
  PROVE  /\ Cardinality(B) \in Nat /\ Cardinality(A) \in Nat
         /\ Cardinality(B) <= Cardinality(A) + 1
         /\ B \subseteq A => Cardinality(B) <= Cardinality(A)
<1>1. /\ IsFiniteSet(A \cup {x}) /\ Cardinality(A) \in Nat
      /\ Cardinality(A \cup {x}) <= Cardinality(A) + 1
  <2>1. Cardinality(A) \in Nat
    BY FS_CardinalityType
  <2>2. /\ IsFiniteSet(A \cup {x})
        /\ \/ Cardinality(A \cup {x}) = Cardinality(A)
           \/ Cardinality(A \cup {x}) = Cardinality(A) + 1
    BY FS_AddElement
  <2> QED
    BY <2>1, <2>2
<1>2. /\ IsFiniteSet(B) /\ Cardinality(B) \in Nat
      /\ Cardinality(B) <= Cardinality(A \cup {x})
  BY <1>1, FS_Subset, FS_CardinalityType
<1>3. B \subseteq A => Cardinality(B) <= Cardinality(A)
  BY FS_Subset
<1>4. Cardinality(A \cup {x}) \in Nat
  BY <1>1, FS_CardinalityType
<1> QED
  BY <1>1, <1>2, <1>3, <1>4

\* There are finitely many frames to miss.
LEMMA MissedFinite ==
  ASSUME begun \in Seq(Payloads), heard \subseteq DOMAIN begun
  PROVE  IsFiniteSet(Missed) /\ Cardinality(Missed) \in Nat
<1>1. IsFiniteSet(DOMAIN begun)
  BY FS_Interval
<1>2. IsFiniteSet(Missed)
  BY <1>1, FS_Subset DEF Missed
<1> QED
  BY <1>2, FS_CardinalityType

-----------------------------------------------------------------------------
(* What the actions have in common. *)

\* Deliveries are never taken back.
LEMMA TakenGrows ==
  ASSUME took \in Seq(Nat), NEW k \in Nat, took' \in {took, Append(took, k)}
  PROVE  /\ took' \in Seq(Nat) /\ Taken \subseteq Taken'
         /\ took' = Append(took, k) => k \in Taken'
<1>1. CASE took' = took
  <2>1. took # Append(took, k)
    <3>1. Len(Append(took, k)) = Len(took) + 1 /\ Len(took) \in Nat
      OBVIOUS
    <3> QED
      BY <3>1
  <2> QED
    BY <1>1, <2>1 DEF Taken
<1>2. CASE took' = Append(took, k)
  <2>1. /\ took' \in Seq(Nat) /\ Len(took') = Len(took) + 1
        /\ \A n \in 1 .. Len(took) : took'[n] = took[n]
        /\ took'[Len(took) + 1] = k
        /\ DOMAIN took = 1 .. Len(took) /\ DOMAIN took' = 1 .. Len(took) + 1
        /\ Len(took) \in Nat
    BY <1>2
  <2> QED
    BY <2>1 DEF Taken
<1> QED
  BY <1>1, <1>2

\* Feeding any byte keeps the receiver's part of TypeOK.
LEMMA FeedTyped ==
  ASSUME LinkInv, NEW byte \in Byte, Feed(byte)
  PROVE  /\ DecoderOK(st')
         /\ result' \in SK_DEC_ERR_OFLOW .. SK_PAYLOAD_MAX
         /\ took' \in Seq(Nat) /\ errors' \in Nat
         /\ Taken \subseteq Taken'
<1>1. DecoderOK(st) /\ took \in Seq(Nat) /\ errors \in Nat
  BY DEF LinkInv, TypeOK
<1>2. SK_PAYLOAD_MAX \in Nat
  BY LengthAssumption
<1>3. DecoderOK(st') /\ result' \in SK_DEC_ERR_OFLOW .. SK_PAYLOAD_MAX
  BY <1>1, <1>2, FeedStateOK, FeedResultOK DEF Feed
<1>4. PICK k \in Nat : k = Source(out')
  BY SourceOK DEF LinkInv, HistoryInv
<1>5. took' \in {took, Append(took, k)} /\ errors' \in {0, errors + 1, errors}
  <2>1. result' \in Int
    BY <1>3, <1>2 DEF SK_DEC_ERR_OFLOW
  <2>2. CASE result' > 0
    BY <1>4, <2>1, <2>2 DEF Feed
  <2>3. CASE result' < 0
    BY <1>4, <2>1, <2>3 DEF Feed
  <2>4. CASE result' = 0
    BY <1>4, <2>1, <2>4 DEF Feed
  <2> QED
    BY <2>1, <2>2, <2>3, <2>4
<1>6. took' \in Seq(Nat) /\ Taken \subseteq Taken'
  BY <1>1, <1>5, TakenGrows
<1> QED
  BY <1>1, <1>3, <1>5, <1>6

\* What is left after a byte is taken is still the rest of the frame, or of
\* the banner.
LEMMA TakeWire ==
  ASSUME LinkInv, NEW ok \in BOOLEAN, Take(ok)
  PROVE  /\ tx[1] \in Byte /\ Len(tx) \in Nat \ {0}
         /\ tx' \in Seq(Byte) /\ Len(tx') = Len(tx) - 1
         /\ WireInv' /\ Current' = Current
         /\ tx' # <<>> => (Sending' <=> Sending)
         /\ Sending => At \in Nat /\ At' = At + 1 /\ Current[At + 1] = tx[1]
<1>1. /\ tx \in Seq(Byte) /\ tx # <<>> /\ tx' = Tail(tx)
      /\ begun' = begun /\ begun \in Seq(Payloads)
  BY DEF Take, LinkInv, TypeOK, HistoryInv
<1>2. /\ tx[1] \in Byte /\ Len(tx) \in Nat \ {0}
      /\ tx' \in Seq(Byte) /\ Len(tx') = Len(tx) - 1
      /\ \A j \in 1 .. Len(tx) - 1 : tx'[j] = tx[j + 1]
  BY <1>1
<1>3. Current' = Current
  BY <1>1 DEF Current, Latest
<1>4. tx' # <<>> => Len(tx') >= 1 /\ tx'[Len(tx')] = tx[Len(tx)]
  <2>1. tx' # <<>> => Len(tx') >= 1
    BY <1>2
  <2> QED
    BY <1>2, <2>1
<1>5. tx' # <<>> => (Sending' <=> Sending)
  BY <1>1, <1>4 DEF Sending
<1>6. CASE Sending
  <2>1. /\ begun # <<>> /\ Len(tx) <= Len(Current)
        /\ \A j \in 1 .. Len(tx) : tx[j] = Current[At + j]
    BY <1>6 DEF LinkInv, WireInv
  <2>2. Len(Current) \in Nat
    BY <1>1, <2>1, CurrentOK
  <2>3. At \in Nat /\ At' = At + 1
    BY <1>2, <1>3, <2>1, <2>2 DEF At
  <2>4. Current[At + 1] = tx[1]
    BY <1>2, <2>1
  <2>5. WireInv'
    <3>1. CASE tx' = <<>>
      <4>1. ~Sending' /\ Len(tx') = 0
        BY <3>1 DEF Sending
      <4>2. \A j \in 1 .. Len(tx') : tx'[j] # SK_FLAG
        BY <4>1
      <4> QED
        BY <4>1, <4>2 DEF WireInv
    <3>2. CASE tx' # <<>>
      <4>1. ASSUME NEW j \in 1 .. Len(tx') PROVE tx'[j] = Current[(At + 1) + j]
        <5>1. j \in 1 .. Len(tx) - 1 /\ j + 1 \in 1 .. Len(tx)
          BY <1>2
        <5>2. tx'[j] = tx[j + 1] /\ tx[j + 1] = Current[At + (j + 1)]
          BY <1>2, <2>1, <5>1
        <5>3. At + (j + 1) = (At + 1) + j
          BY <2>3
        <5> QED
          BY <5>2, <5>3
      <4>2. Len(tx') <= Len(Current)
        BY <1>2, <2>1, <2>2
      <4> QED
        BY <1>1, <1>3, <1>5, <1>6, <2>1, <2>3, <3>2, <4>1, <4>2 DEF WireInv
    <3> QED
      BY <3>1, <3>2
  <2> QED
    BY <1>2, <1>3, <1>5, <2>3, <2>4, <2>5
<1>7. CASE ~Sending
  <2>1. \A j \in 1 .. Len(tx) : tx[j] # SK_FLAG
    BY <1>7 DEF LinkInv, WireInv
  <2>2. ~Sending'
    BY <1>5, <1>7 DEF Sending
  <2>3. \A j \in 1 .. Len(tx') : tx'[j] # SK_FLAG
    BY <1>2, <2>1
  <2>4. WireInv'
    BY <2>2, <2>3 DEF WireInv
  <2> QED
    BY <1>2, <1>3, <1>5, <1>7, <2>4
<1> QED
  BY <1>6, <1>7

\* A byte that does not arrive as it was sent has its fault; a closing FLAG
\* that completes an intact frame has its delivery.
LEMMA TakeFaults ==
  ASSUME LinkInv, NEW ok \in BOOLEAN, Take(ok), Taken \subseteq Taken',
         \/ faults' = faults /\ (ok \/ ~listening)
         \/ faults' = faults + 1,
         ok /\ whole /\ listening /\ tx = <<SK_FLAG>> => Len(begun) \in Taken'
  PROVE  FaultInv' /\ heard' \subseteq DOMAIN begun
<1>1. /\ faults \in Nat /\ heard \subseteq DOMAIN begun /\ begun \in Seq(Payloads)
      /\ listening => since >= 1
      /\ since \in 0 .. Len(begun) + 1
      /\ {listening, whole} \subseteq BOOLEAN
  BY DEF LinkInv, TypeOK, HistoryInv
<1>2. /\ whole' = (whole /\ ok)
      /\ UNCHANGED <<begun, listening, since>>
      /\ heard' = IF tx = <<SK_FLAG>> /\ listening /\ Len(begun) >= since
                  THEN heard \cup {Len(begun)} ELSE heard
  BY DEF Take
<1>3. Len(begun) \in Nat /\ since \in Nat /\ DOMAIN begun = 1 .. Len(begun)
  BY <1>1
<1>4. IsFiniteSet(Missed) /\ Cardinality(Missed) \in Nat
  BY <1>1, MissedFinite
<1>5. Cardinality(Missed) + (IF Doomed THEN 1 ELSE 0) <= faults
  BY DEF LinkInv, FaultInv
<1>6. CASE tx = <<SK_FLAG>> /\ listening /\ Len(begun) >= since
  <2>1. heard' = heard \cup {Len(begun)} /\ Len(begun) \in DOMAIN begun
    BY <1>1, <1>2, <1>3, <1>6
  <2>2. Missed' \subseteq Missed \cup {Len(begun)}
    BY <2>1 DEF Missed
  <2>3. /\ Cardinality(Missed') \in Nat
        /\ Cardinality(Missed') <= Cardinality(Missed) + 1
        /\ Missed' \subseteq Missed => Cardinality(Missed') <= Cardinality(Missed)
    BY <1>4, <2>2, OneMore
  <2>4. ~Doomed'
    <3>1. tx' = <<>>
      BY <1>6 DEF Take
    <3> QED
      BY <3>1 DEF Doomed, Sending
  <2>5. Cardinality(Missed') <= faults'
    <3>1. CASE faults' = faults + 1
      BY <1>1, <1>4, <1>5, <2>3, <3>1
    <3>2. CASE faults' = faults /\ ok /\ whole
      <4>1. Missed' \subseteq Missed
        BY <1>6, <2>2, <3>2 DEF Missed
      <4> QED
        BY <1>1, <1>4, <1>5, <2>3, <3>2, <4>1
    <3>3. CASE faults' = faults /\ ok /\ ~whole
      <4>1. Doomed
        BY <1>6, <3>3 DEF Doomed, Sending
      <4> QED
        BY <1>1, <1>4, <1>5, <2>3, <3>3, <4>1
    <3> QED
      BY <1>6, <3>1, <3>2, <3>3
  <2>6. FaultInv'
    BY <1>1, <2>3, <2>4, <2>5 DEF FaultInv
  <2> QED
    BY <1>1, <2>1, <2>6
<1>7. CASE ~(tx = <<SK_FLAG>> /\ listening /\ Len(begun) >= since)
  <2>1. heard' = heard /\ Missed' \subseteq Missed
    BY <1>2, <1>7 DEF Missed
  <2>2. /\ Cardinality(Missed') \in Nat
        /\ Cardinality(Missed') <= Cardinality(Missed)
    BY <1>4, <2>1, OneMore
  <2>3. Doomed' => Doomed \/ faults' = faults + 1
    <3>1. Sending' => Sending
      <4>1. tx' # <<>> => (Sending' <=> Sending)
        BY TakeWire
      <4> QED
        BY <4>1 DEF Sending
    <3> QED
      BY <1>2, <3>1 DEF Doomed
  <2>4. FaultInv'
    <3>1. CASE faults' = faults + 1
      BY <1>1, <1>4, <1>5, <2>2, <3>1 DEF FaultInv
    <3>2. CASE faults' = faults
      <4>1. faults' # faults + 1
        BY <1>1, <3>2
      <4> QED
        BY <1>1, <1>4, <1>5, <2>2, <2>3, <3>2, <4>1 DEF FaultInv
    <3> QED
      BY <3>1, <3>2
  <2> QED
    BY <1>1, <2>1, <2>4
<1> QED
  BY <1>6, <1>7

\* The closing FLAG of an intact frame delivers its payload and is counted
\* as a delivery of that very frame.
LEMMA Delivers ==
  ASSUME LinkInv, whole, listening, Len(tx) = 1, Take(TRUE), Feed(tx[1])
  PROVE  out' = Latest /\ Len(begun) \in Taken'
<1> DEFINE data == Inner(Latest)
           n == Len(Current) - 1
<1>1. /\ tx \in Seq(Byte) /\ tx # <<>> /\ begun \in Seq(Payloads)
      /\ took \in Seq(Nat)
  BY DEF LinkInv, TypeOK, HistoryInv, Take
<1>2. /\ Sending /\ (At >= 1 => st = Heard(Current, Org, data, At))
      /\ begun # <<>> /\ Len(tx) <= Len(Current)
      /\ \A j \in 1 .. Len(tx) : tx[j] = Current[At + j]
  BY <1>1 DEF LinkInv, StepInv, WireInv
<1>3. /\ Len(Current) \in Nat /\ Len(Current) >= 2
      /\ Current[Len(Current)] = SK_FLAG
      /\ Carries(Current, Org, data, n, Len(data))
  BY <1>1, <1>2, CurrentOK
<1>4. /\ Latest \in Payloads /\ Len(begun) \in Nat
      /\ Latest \in Seq(Byte) /\ LegalLength(Latest) /\ Crc(Latest) \in Byte \X Byte
      /\ Len(Latest) \in Nat /\ Len(Latest) >= 1 /\ data \in Seq(Byte)
  BY <1>1, <1>2, LatestOK, PayloadOK
<1>5. At = n /\ n >= 1 /\ tx[1] = SK_FLAG
  BY <1>2, <1>3 DEF At, Sending
<1> HIDE DEF n
<1>6. st = Heard(Current, Org, data, n) /\ Org[n] = Len(data)
  BY <1>2, <1>3, <1>5 DEF Carries
<1>7. st.in_frame = 1 /\ st.overflow = 0 /\ st.buf = Inner(Latest)
  <2>1. SubSeq(data, 1, Len(data)) = data
    BY <1>4, SubSeqFull
  <2> QED
    BY <1>6, <2>1 DEF Heard
<1>8. result' = Len(Latest) /\ out' = Latest
  BY <1>4, <1>5, <1>7, FlagDelivers DEF Feed
<1>9. took' = Append(took, Len(begun))
  <2>1. Source(out') = Len(begun)
    BY <1>1, <1>2, <1>8, SourceOK
  <2> QED
    BY <1>4, <1>8, <2>1 DEF Feed
<1> QED
  BY <1>1, <1>4, <1>8, <1>9, TakenGrows

\* The decoder keeps in step with an intact frame.
LEMMA KeepsStep ==
  ASSUME LinkInv, listening, Take(TRUE), Feed(tx[1])
  PROVE  StepInv'
<1> SUFFICES ASSUME whole', tx' # <<>>
             PROVE  /\ Sending'
                    /\ st' = Heard(Current', Org', Inner(Latest'), At')
  BY DEF StepInv
<1> DEFINE data == Inner(Latest)
           n == Len(Current) - 1
<1>1. /\ whole /\ tx # <<>> /\ begun' = begun
      /\ tx \in Seq(Byte) /\ begun \in Seq(Payloads)
  BY DEF LinkInv, TypeOK, HistoryInv, Take
<1>2. /\ Latest' = Latest /\ Current' = Current /\ Org' = Org
  BY <1>1 DEF Latest, Current, Org
<1>3. /\ Sending /\ (At >= 1 => st = Heard(Current, Org, data, At))
      /\ begun # <<>>
  BY <1>1 DEF LinkInv, StepInv, WireInv
<1>4. /\ Sending' /\ At \in Nat /\ At' = At + 1 /\ Current[At + 1] = tx[1]
      /\ Len(tx) \in Nat /\ Len(tx') = Len(tx) - 1 /\ tx' \in Seq(Byte)
  BY <1>3, TakeWire
<1>5. /\ Len(Current) \in Nat /\ Len(Current) >= 2
      /\ Carries(Current, Org, data, n, Len(data))
  BY <1>1, <1>3, CurrentOK
<1>6. data \in Seq(Byte) /\ Len(data) <= SK_FRAME_INNER
  BY <1>1, <1>3, LatestOK, PayloadOK
<1>7. At + 1 <= n
  <2>1. Len(tx') >= 1
    BY <1>4
  <2> QED
    BY <1>4, <1>5, <2>1 DEF At
<1>8. st' = FeedState(st, Current[At + 1])
  BY <1>4 DEF Feed
<1>9. CASE At = 0
  <2>1. Current[1] = SK_FLAG /\ Org[1] = 0
    BY <1>5 DEF Carries
  <2>2. st' = NewFrame(st)
    BY <1>8, <1>9, <2>1 DEF FeedState, SK_FLAG, SK_ESC
  <2>3. SubSeq(data, 1, 0) = <<>>
    BY <1>6
  <2>4. st' = Heard(Current, Org, data, 1)
    BY <2>1, <2>2, <2>3 DEF NewFrame, Heard, SK_FLAG, SK_ESC
  <2> QED
    BY <1>2, <1>4, <1>9, <2>4
<1>10. CASE At >= 1
  <2>1. At + 1 \in 2 .. n /\ n \in Nat /\ (At + 1) - 1 = At
    BY <1>4, <1>5, <1>7, <1>10
  <2> HIDE DEF n
  <2>2. FeedState(Heard(Current, Org, data, (At + 1) - 1), Current[At + 1])
          = Heard(Current, Org, data, At + 1)
    BY <1>5, <1>6, <2>1, HearsNext
  <2>3. st' = Heard(Current, Org, data, At + 1)
    BY <1>3, <1>8, <1>10, <2>1, <2>2
  <2> QED
    BY <1>2, <1>4, <2>3
<1> QED
  BY <1>4, <1>9, <1>10

-----------------------------------------------------------------------------
(* The invariant is inductive: one lemma for every action. *)

\* The banner is to be sent, and nobody listens.
LEMMA LinkInvInit == Init => LinkInv
<1> SUFFICES ASSUME Init PROVE LinkInv
  OBVIOUS
<1>1. Text \in Seq(Byte) /\ \A j \in 1 .. Len(Text) : Text[j] # SK_FLAG
  BY LinkAssumption
<1>2. ~Sending
  BY <1>1 DEF Init, Sending
<1>3. TypeOK
  <2>1. DecoderOK(st)
    BY InitOK DEF Init
  <2>2. result \in SK_DEC_ERR_OFLOW .. SK_PAYLOAD_MAX
    BY LengthAssumption DEF Init, SK_DEC_MORE, SK_DEC_ERR_OFLOW
  <2>3. next \in 1 .. Len(Frame) + 1
    <3>1. Len(Frame) \in Nat
      BY LinkAssumption
    <3> QED
      BY <3>1 DEF Init
  <2>4. since \in 0 .. Len(begun) + 1 /\ heard \subseteq DOMAIN begun
    BY DEF Init
  <2>5. tx \in Seq(Byte) /\ took \in Seq(Nat) /\ errors \in Nat
    BY <1>1 DEF Init
  <2>6. faults \in Nat /\ resets \in Nat /\ faults + resets <= MaxTroubles
    BY LinkAssumption DEF Init
  <2>7. {listening, whole} \subseteq BOOLEAN
    BY DEF Init
  <2> QED
    BY <2>1, <2>2, <2>3, <2>4, <2>5, <2>6, <2>7 DEF TypeOK
<1>4. HistoryInv
  BY DEF Init, HistoryInv
<1>5. WireInv
  BY <1>1, <1>2 DEF Init, WireInv
<1>6. StepInv
  BY DEF Init, StepInv
<1>7. FaultInv
  <2>1. Missed = {}
    BY DEF Init, Missed
  <2> QED
    BY <1>2, <2>1, FS_EmptySet DEF Init, FaultInv, Doomed
<1> QED
  BY <1>3, <1>4, <1>5, <1>6, <1>7 DEF LinkInv

\* Begin: the whole frame is to be sent.
LEMMA BeginStep ==
  ASSUME LinkInv, Begin
  PROVE  LinkInv'
<1>1. /\ tx = <<>> /\ next \in DOMAIN Frame /\ tx' = Encoded(Frame[next])
      /\ next' = next + 1 /\ begun' = Append(begun, Frame[next]) /\ whole' = listening
      /\ UNCHANGED <<resets, st, result, out, took, errors, listening, since, faults, heard>>
  BY DEF Begin, receiver
<1>2. PICK p \in Payloads : p = Frame[next]
  BY <1>1 DEF Payloads
<1>3. begun \in Seq(Payloads) /\ Len(begun) \in Nat /\ DOMAIN begun = 1 .. Len(begun)
  BY DEF LinkInv, HistoryInv
<1>4. /\ begun' \in Seq(Payloads) /\ Len(begun') = Len(begun) + 1 /\ begun' # <<>>
      /\ begun'[Len(begun) + 1] = p /\ DOMAIN begun' = 1 .. Len(begun) + 1
  BY <1>1, <1>2, <1>3
<1>5. Latest' = p /\ Current' = tx'
  BY <1>1, <1>2, <1>4 DEF Latest, Current
<1>6. /\ tx' \in Seq(Byte) /\ Len(tx') \in Nat /\ Len(tx') >= 2
      /\ tx'[Len(tx')] = SK_FLAG
  <2>1. Inner(p) \in Seq(Byte)
    BY PayloadOK
  <2> QED
    BY <1>1, <1>2, <2>1, EncodedCarries
<1>7. Sending' /\ At' = 0
  BY <1>5, <1>6 DEF Sending, At
<1>8. TypeOK'
  <2>1. next' \in 1 .. Len(Frame) + 1
    <3>1. Len(Frame) \in Nat /\ DOMAIN Frame = 1 .. Len(Frame)
      BY LinkAssumption
    <3> QED
      BY <1>1, <3>1
  <2>2. since' \in 0 .. Len(begun') + 1 /\ heard' \subseteq DOMAIN begun'
    BY <1>1, <1>3, <1>4 DEF LinkInv, TypeOK
  <2> QED
    BY <1>1, <1>6, <2>1, <2>2 DEF LinkInv, TypeOK, DecoderOK
<1>9. HistoryInv'
  BY <1>1, <1>4 DEF LinkInv, HistoryInv
<1>10. WireInv'
  BY <1>4, <1>5, <1>6, <1>7 DEF WireInv
<1>11. StepInv'
  BY <1>7 DEF StepInv
<1>12. FaultInv'
  <2>1. ~Doomed'
    BY <1>1 DEF Doomed
  <2>2. Missed' = Missed
    BY <1>1 DEF Missed, Taken
  <2>3. Cardinality(Missed) \in Nat /\ faults \in Nat
    BY <1>3, MissedFinite DEF LinkInv, TypeOK
  <2> QED
    BY <1>1, <2>1, <2>2, <2>3 DEF LinkInv, FaultInv
<1> QED
  BY <1>8, <1>9, <1>10, <1>11, <1>12 DEF LinkInv

\* A byte of the frame or banner, heard or not: the four actions that are a
\* Take differ in what the receiver gets and whether a fault is charged.
LEMMA TakeStep ==
  ASSUME LinkInv, NEW ok \in BOOLEAN, Take(ok),
         DecoderOK(st'), result' \in SK_DEC_ERR_OFLOW .. SK_PAYLOAD_MAX,
         took' \in Seq(Nat), errors' \in Nat,
         faults' \in Nat, faults' + resets <= MaxTroubles,
         StepInv', FaultInv', heard' \subseteq DOMAIN begun
  PROVE  LinkInv'
<1>1. /\ whole' = (whole /\ ok) /\ UNCHANGED <<next, resets, begun, listening, since>>
  BY DEF Take
<1>2. tx' \in Seq(Byte) /\ WireInv'
  BY TakeWire
<1>3. TypeOK'
  BY <1>1, <1>2 DEF LinkInv, TypeOK
<1>4. HistoryInv'
  BY <1>1 DEF LinkInv, HistoryInv
<1> QED
  BY <1>2, <1>3, <1>4 DEF LinkInv

\* Arrive: the receiver takes the byte; a closing FLAG may deliver.
LEMMA ArriveStep ==
  ASSUME LinkInv, Arrive
  PROVE  LinkInv'
<1>1. listening /\ Take(TRUE) /\ Feed(tx[1]) /\ faults' = faults
  BY DEF Arrive
<1>2. tx[1] \in Byte
  BY <1>1, TakeWire
<1>3. /\ DecoderOK(st') /\ result' \in SK_DEC_ERR_OFLOW .. SK_PAYLOAD_MAX
      /\ took' \in Seq(Nat) /\ errors' \in Nat /\ Taken \subseteq Taken'
  BY <1>1, <1>2, FeedTyped
<1>4. whole /\ tx = <<SK_FLAG>> => Len(begun) \in Taken'
  <2>1. tx = <<SK_FLAG>> => Len(tx) = 1
    OBVIOUS
  <2> QED
    BY <1>1, <2>1, Delivers
<1>5. FaultInv' /\ heard' \subseteq DOMAIN begun
  BY <1>1, <1>3, <1>4, TakeFaults
<1>6. StepInv'
  BY <1>1, KeepsStep
<1>7. faults' \in Nat /\ faults' + resets <= MaxTroubles
  BY <1>1 DEF LinkInv, TypeOK
<1> QED
  BY <1>1, <1>3, <1>5, <1>6, <1>7, TakeStep

\* Unheard: nobody listens yet, so nothing can be missed.
LEMMA UnheardStep ==
  ASSUME LinkInv, Unheard
  PROVE  LinkInv'
<1>1. /\ ~listening /\ Take(FALSE) /\ faults' = faults
      /\ UNCHANGED <<st, result, out, took, errors>>
  BY DEF Unheard, Deaf, receiver
<1>2. /\ DecoderOK(st') /\ result' \in SK_DEC_ERR_OFLOW .. SK_PAYLOAD_MAX
      /\ took' \in Seq(Nat) /\ errors' \in Nat /\ Taken' = Taken
      /\ faults' \in Nat /\ faults' + resets <= MaxTroubles
  BY <1>1 DEF LinkInv, TypeOK, DecoderOK, Taken
<1>3. FaultInv' /\ heard' \subseteq DOMAIN begun
  BY <1>1, <1>2, TakeFaults
<1>4. StepInv'
  BY <1>1 DEF StepInv, Take
<1> QED
  BY <1>1, <1>2, <1>3, <1>4, TakeStep

\* Lose: the receiver hears nothing of the byte.
LEMMA LoseStep ==
  ASSUME LinkInv, Lose
  PROVE  LinkInv'
<1>1. /\ Trouble /\ Take(FALSE) /\ faults' = faults + 1
      /\ UNCHANGED <<st, result, out, took, errors>>
  BY DEF Lose, Fault, Deaf, receiver
<1>2. /\ DecoderOK(st') /\ result' \in SK_DEC_ERR_OFLOW .. SK_PAYLOAD_MAX
      /\ took' \in Seq(Nat) /\ errors' \in Nat /\ Taken' = Taken
  BY <1>1 DEF LinkInv, TypeOK, DecoderOK, Taken
<1>3. faults' \in Nat /\ faults' + resets <= MaxTroubles
  BY <1>1, LinkAssumption DEF LinkInv, TypeOK, Trouble
<1>4. FaultInv' /\ heard' \subseteq DOMAIN begun
  BY <1>1, <1>2, TakeFaults
<1>5. StepInv'
  BY <1>1 DEF StepInv, Take
<1> QED
  BY <1>1, <1>2, <1>3, <1>4, <1>5, TakeStep

\* Damage: the receiver hears another byte.
LEMMA DamageStep ==
  ASSUME LinkInv, NEW byte \in Debris, Damage(byte)
  PROVE  LinkInv'
<1>1. /\ Trouble /\ Take(FALSE) /\ faults' = faults + 1 /\ Feed(byte)
  BY DEF Damage, Fault
<1>2. byte \in Byte
  BY LinkAssumption
<1>3. /\ DecoderOK(st') /\ result' \in SK_DEC_ERR_OFLOW .. SK_PAYLOAD_MAX
      /\ took' \in Seq(Nat) /\ errors' \in Nat /\ Taken \subseteq Taken'
  BY <1>1, <1>2, FeedTyped
<1>4. faults' \in Nat /\ faults' + resets <= MaxTroubles
  BY <1>1, LinkAssumption DEF LinkInv, TypeOK, Trouble
<1>5. FaultInv' /\ heard' \subseteq DOMAIN begun
  BY <1>1, <1>3, TakeFaults
<1>6. StepInv'
  BY <1>1 DEF StepInv, Take
<1> QED
  BY <1>1, <1>3, <1>4, <1>5, <1>6, TakeStep

\* Insert: a byte more than was sent; the frame it falls into is lost at
\* worst, and pays for nothing else.
LEMMA InsertStep ==
  ASSUME LinkInv, NEW byte \in Byte, Extra(byte)
  PROVE  LinkInv'
<1>1. /\ Trouble /\ faults' = faults + 1 /\ Feed(byte) /\ whole' = FALSE
      /\ UNCHANGED <<tx, next, resets, begun, listening, since, heard>>
  BY DEF Extra, Fault, sender
<1>2. /\ DecoderOK(st') /\ result' \in SK_DEC_ERR_OFLOW .. SK_PAYLOAD_MAX
      /\ took' \in Seq(Nat) /\ errors' \in Nat /\ Taken \subseteq Taken'
  BY <1>1, FeedTyped
<1>3. faults' \in Nat /\ faults' + resets <= MaxTroubles /\ faults \in Nat
  BY <1>1, LinkAssumption DEF LinkInv, TypeOK, Trouble
<1>4. TypeOK'
  BY <1>1, <1>2, <1>3 DEF LinkInv, TypeOK
<1>5. HistoryInv'
  BY <1>1 DEF LinkInv, HistoryInv
<1>6. WireInv'
  BY <1>1 DEF LinkInv, WireInv, Sending, At, Current, Latest
<1>7. StepInv'
  BY <1>1 DEF StepInv
<1>8. FaultInv'
  <2>1. IsFiniteSet(Missed) /\ Cardinality(Missed) \in Nat
    BY MissedFinite DEF LinkInv, TypeOK, HistoryInv
  <2>2. Missed' \subseteq Missed
    BY <1>1, <1>2 DEF Missed
  <2>3. /\ Cardinality(Missed') \in Nat
        /\ Cardinality(Missed') <= Cardinality(Missed)
    BY <2>1, <2>2, OneMore
  <2>4. Cardinality(Missed) + (IF Doomed THEN 1 ELSE 0) <= faults
    BY DEF LinkInv, FaultInv
  <2> QED
    BY <1>1, <1>3, <2>1, <2>3, <2>4 DEF FaultInv
<1> QED
  BY <1>4, <1>5, <1>6, <1>7, <1>8 DEF LinkInv

\* Attach: the frame being sent is not one the receiver can be blamed for.
LEMMA AttachStep ==
  ASSUME LinkInv, Attach
  PROVE  LinkInv'
<1>1. /\ listening' = TRUE /\ since' = Len(begun) + 1 /\ whole' = FALSE
      /\ UNCHANGED <<tx, next, resets, begun, st, result, out, took, errors,
                     faults, heard>>
  BY DEF Attach, sender, receiver
<1>2. Len(begun) \in Nat /\ begun \in Seq(Payloads) /\ faults \in Nat
  BY DEF LinkInv, HistoryInv, TypeOK
<1>3. TypeOK'
  <2>1. since' \in 0 .. Len(begun) + 1 /\ begun' = begun
    BY <1>1, <1>2
  <2>2. {listening', whole'} \subseteq BOOLEAN
    BY <1>1
  <2>3. DecoderOK(st')
    BY <1>1 DEF LinkInv, TypeOK, DecoderOK
  <2> QED
    BY <1>1, <2>1, <2>2, <2>3 DEF LinkInv, TypeOK
<1>4. HistoryInv'
  BY <1>1, <1>2 DEF HistoryInv
<1>5. WireInv'
  BY <1>1 DEF LinkInv, WireInv, Sending, At, Current, Latest
<1>6. StepInv'
  BY <1>1 DEF StepInv
<1>7. FaultInv'
  <2>1. ~Doomed'
    BY <1>1, <1>2 DEF Doomed
  <2>2. Missed' = Missed
    BY <1>1 DEF Missed, Taken
  <2>3. Cardinality(Missed) \in Nat
    BY MissedFinite DEF LinkInv, TypeOK, HistoryInv
  <2> QED
    BY <1>1, <1>2, <2>1, <2>2, <2>3 DEF LinkInv, FaultInv
<1> QED
  BY <1>3, <1>4, <1>5, <1>6, <1>7 DEF LinkInv

\* Reset: the banner is to be sent, and the frame cut short is never
\* completed.
LEMMA ResetStep ==
  ASSUME LinkInv, Reset
  PROVE  LinkInv'
<1>1. /\ Trouble /\ resets' = resets + 1 /\ tx' = Text /\ next' = 1 /\ whole' = FALSE
      /\ UNCHANGED <<begun, st, result, out, took, errors, listening, since,
                     faults, heard>>
  BY DEF Reset, receiver
<1>2. Text \in Seq(Byte) /\ \A j \in 1 .. Len(Text) : Text[j] # SK_FLAG
  BY LinkAssumption
<1>3. ~Sending'
  BY <1>1, <1>2 DEF Sending
<1>4. TypeOK'
  <2>1. next' \in 1 .. Len(Frame) + 1
    <3>1. Len(Frame) \in Nat
      BY LinkAssumption
    <3> QED
      BY <1>1, <3>1
  <2>2. resets' \in Nat /\ faults + resets' <= MaxTroubles
    BY <1>1, LinkAssumption DEF LinkInv, TypeOK, Trouble
  <2> QED
    BY <1>1, <1>2, <2>1, <2>2 DEF LinkInv, TypeOK, DecoderOK
<1>5. HistoryInv'
  BY <1>1 DEF LinkInv, HistoryInv
<1>6. WireInv'
  BY <1>1, <1>2, <1>3 DEF WireInv
<1>7. StepInv'
  BY <1>1 DEF StepInv
<1>8. FaultInv'
  <2>1. ~Doomed'
    BY <1>3 DEF Doomed
  <2>2. Missed' = Missed
    BY <1>1 DEF Missed, Taken
  <2>3. Cardinality(Missed) \in Nat /\ faults \in Nat
    BY MissedFinite DEF LinkInv, TypeOK, HistoryInv
  <2> QED
    BY <1>1, <2>1, <2>2, <2>3 DEF LinkInv, FaultInv
<1> QED
  BY <1>4, <1>5, <1>6, <1>7, <1>8 DEF LinkInv

\* Every step of the node, the line and the receiver preserves it.
LEMMA LinkInvNext == LinkInv /\ [Next]_vars => LinkInv'
<1> SUFFICES ASSUME LinkInv, [Next]_vars PROVE LinkInv'
  OBVIOUS
<1>1. CASE Begin
  BY <1>1, BeginStep
<1>2. CASE Arrive
  BY <1>2, ArriveStep
<1>3. CASE Unheard
  BY <1>3, UnheardStep
<1>4. CASE Lose
  BY <1>4, LoseStep
<1>5. ASSUME NEW byte \in Debris, Damage(byte) PROVE LinkInv'
  BY <1>5, DamageStep
<1>6. CASE Insert
  <2>1. PICK byte \in Debris \cup (IF tx = <<>> THEN {} ELSE {tx[1]}) : Extra(byte)
    BY <1>6 DEF Insert
  <2>2. tx # <<>> => tx[1] \in Byte
    BY DEF LinkInv, TypeOK
  <2>3. byte \in Byte
    BY <2>1, <2>2, LinkAssumption
  <2> QED
    BY <2>1, <2>3, InsertStep
<1>7. CASE Attach
  BY <1>7, AttachStep
<1>8. CASE Reset
  BY <1>8, ResetStep
<1>9. CASE UNCHANGED vars
  <2>1. /\ UNCHANGED <<tx, next, resets, begun, st, result, out, took, errors>>
        /\ UNCHANGED <<listening, since, faults, whole, heard>>
    BY <1>9 DEF vars, sender, receiver
  <2>2. TypeOK' /\ HistoryInv'
    BY <2>1 DEF LinkInv, TypeOK, HistoryInv, DecoderOK
  <2>3. WireInv' /\ StepInv'
    BY <2>1 DEF LinkInv, WireInv, StepInv, Sending, At, Org, Current, Latest
  <2>4. FaultInv'
    BY <2>1 DEF LinkInv, FaultInv, Doomed, Sending, Missed, Taken
  <2> QED
    BY <2>2, <2>3, <2>4 DEF LinkInv
<1> QED
  BY <1>1, <1>2, <1>3, <1>4, <1>5, <1>6, <1>7, <1>8, <1>9 DEF Next

-----------------------------------------------------------------------------
\* The inductive invariant holds in every reachable state.
LEMMA LinkInvHolds == Spec => []LinkInv
BY LinkInvInit, LinkInvNext, PTL DEF Spec

\* Node, line and receiver keep their types.
THEOREM LinkTypeCorrect == Spec => []TypeOK
<1>1. LinkInv => TypeOK
  BY DEF LinkInv
<1> QED
  BY <1>1, LinkInvHolds, PTL

\* However many faults hit the line and wherever, each takes at most one
\* frame from the receiver.
THEOREM FaultsCostOneFrame == Spec => []OneFrameAFault
<1>1. LinkInv => OneFrameAFault
  <2> SUFFICES ASSUME LinkInv PROVE OneFrameAFault
    OBVIOUS
  <2>1. Cardinality(Missed) \in Nat /\ faults \in Nat
    BY MissedFinite DEF LinkInv, TypeOK, HistoryInv
  <2> QED
    BY <2>1 DEF LinkInv, FaultInv, OneFrameAFault, Missed
<1> QED
  BY <1>1, LinkInvHolds, PTL

\* A frame whose every byte arrives is delivered with its closing FLAG,
\* whatever the receiver had heard before it (REQ-PR-006).
THEOREM IntactFramesDelivered == Spec => IntactIsDelivered
<1>1. LinkInv /\ [Next]_vars
        => (whole' /\ Len(tx) = 1 /\ tx' = <<>> => out' = begun[Len(begun)])
  <2> SUFFICES ASSUME LinkInv, [Next]_vars, whole', Len(tx) = 1, tx' = <<>>
               PROVE  out' = Latest
    BY DEF Latest
  <2>1. tx # <<>> /\ tx' # tx
    OBVIOUS
  <2>2. CASE Arrive
    BY <2>2, Delivers DEF Arrive, Take
  <2>3. ~Begin /\ ~Insert /\ ~Attach /\ ~Reset
    BY <2>1 DEF Begin, Insert, Extra, Attach, Reset, sender
  <2>4. ~Unheard /\ ~Lose /\ \A byte \in Debris : ~Damage(byte)
    BY DEF Unheard, Lose, Damage, Take
  <2>5. ~UNCHANGED vars
    BY <2>1 DEF vars, sender
  <2> QED
    BY <2>2, <2>3, <2>4, <2>5 DEF Next
<1> QED
  BY <1>1, LinkInvHolds, PTL DEF Spec, IntactIsDelivered
=============================================================================
