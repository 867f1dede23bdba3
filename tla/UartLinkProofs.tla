---------------------------- MODULE UartLinkProofs ----------------------------
(***************************************************************************)
(* Proofs about the receiver and about the link it is one end of.          *)
(*                                                                         *)
(* The receiver: for every MTU and header size, any set of bytes on the    *)
(* line and any number of frames, its invariants hold.  None of them is    *)
(* inductive alone.  RxInv adds what ties them together: which state an    *)
(* escape may return to, that a buffer exists only from the data state on, *)
(* that a closed interface is idle and that the count of received bytes is *)
(* 0 before the data.                                                      *)
(*                                                                         *)
(* The link: for every set of frames without the escape character, any     *)
(* length of line and any number of frames, losses and stops,              *)
(* DeliveredWereSent holds, and a reliable link implements the safety part *)
(* of FrameChannel.  The bytes a sender has written, is writing and will   *)
(* write are a stream; each has a position in it (frame, field, byte,      *)
(* escape).  The invariant says that the bytes on the line have            *)
(* consecutive positions, from where the receiver is to where the sender   *)
(* is, and what the variables of both sides hold at a position.  Each step *)
(* looks at one end of the line, so no induction over the line is needed.  *)
(*                                                                         *)
(* Damage: over a line that loses bytes, between ends that stop,           *)
(* DamageBounded holds if frames are short (ShortFrames).  Now the         *)
(* positions of neighbouring bytes may have a gap, and the invariant       *)
(* counts the events in each.  What the receiver has missed is paid for by *)
(* the events in front of it, and while it is astray so are the frames     *)
(* that fit into the bytes it still awaits.                                *)
(***************************************************************************)
EXTENDS UartLink, TLAPS

EscapeInv == rx_state = "ESCAPE" => saved_state \in {"LENGTH", "DATA"}
NoEarlySkb == State \in {"IDLE", "LENGTH"} => rx_skb = NULL
DownIdle == ~rx_up => rx_state = "IDLE"
LengthFresh == State = "LENGTH" => rx_data_received = 0

(* The inductive invariant of the receiver. *)
RxInv ==
  /\ RxTypeOK
  /\ EscapeInv
  /\ NoEarlySkb
  /\ DownIdle
  /\ LengthFresh
  /\ BufferSafe
  /\ NoSkbLeak
  /\ FramesAccounted
  /\ DeliveredWellFormed

(* Undoing an escape (b ^ 0x20) yields a byte. *)
LEMMA Xor20Byte == \A b \in Byte : Xor20(b) \in Byte
  BY DEF Byte, Xor20

(* So does the receiver, whether it undoes an escape or not. *)
LEMMA UnescapedByte == \A b \in Byte : Unescaped(b) \in Byte
  BY Xor20Byte DEF Unescaped

(* Two bytes of the length field make a uint16_t. *)
LEMMA TwoBytes == \A x, y \in Byte : x * 256 + y \in U16
  BY DEF Byte, U16

(* The parts of the invariant, to be cited without expanding the rest. *)
LEMMA Parts ==
  ASSUME RxInv
  PROVE  /\ ControlType /\ LengthType /\ BufferType /\ ResultType
         /\ EscapeInv /\ NoEarlySkb /\ DownIdle /\ LengthFresh
         /\ BufferSafe /\ NoSkbLeak /\ FramesAccounted /\ DeliveredWellFormed
  BY DEF RxInv, RxTypeOK

(* A step with the interface up keeps the control fields typed. *)
LEMMA ControlStep ==
  ASSUME ControlType, UNCHANGED rx_up, rx_state' \in RxStates,
         saved_state' \in {saved_state, "LENGTH", "DATA"}
  PROVE  ControlType'
<1>1. rx_up' \in BOOLEAN
  BY DEF ControlType
<1>2. saved_state' \in {"IDLE", "LENGTH", "DATA"}
  BY DEF ControlType
<1>3. QED
  BY <1>1, <1>2 DEF ControlType

(* Counting an event keeps the statistics typed and changes one field.     *)
LEMMA CountStats ==
  ASSUME stats \in Stats,
         NEW f \in {"packets", "length_errors", "dropped", "errors"}
  PROVE  /\ Count(f) \in Stats
         /\ Count(f)[f] = stats[f] + 1
         /\ \A g \in {"packets", "length_errors", "dropped", "over_errors",
                      "errors"} : g # f => Count(f)[g] = stats[g]
  BY DEF Stats, Count

(* Closing a frame with one event keeps the frames accounted for. *)
LEMMA AccountStep ==
  ASSUME ResultType, FramesAccounted, rx_state # "IDLE", rx_state' = "IDLE",
         NEW f \in {"packets", "length_errors", "dropped", "errors"},
         stats' = Count(f), UNCHANGED <<frames, aborted>>
  PROVE  FramesAccounted'
<1>1. stats \in Stats /\ frames \in Nat /\ aborted \in Nat
  BY DEF ResultType
<1>2. /\ stats'.packets = stats.packets + (IF f = "packets" THEN 1 ELSE 0)
      /\ stats'.length_errors = stats.length_errors
                                  + (IF f = "length_errors" THEN 1 ELSE 0)
      /\ stats'.dropped = stats.dropped + (IF f = "dropped" THEN 1 ELSE 0)
      /\ stats'.errors = stats.errors + (IF f = "errors" THEN 1 ELSE 0)
      /\ stats'.over_errors = stats.over_errors
  BY <1>1 DEF Stats, Count
<1>3. /\ stats.packets \in Nat /\ stats.length_errors \in Nat
      /\ stats.dropped \in Nat /\ stats.errors \in Nat
      /\ stats.over_errors \in Nat
  BY <1>1 DEF Stats
<1>4. QED
  BY <1>1, <1>2, <1>3 DEF FramesAccounted

(* The initial state of the receiver satisfies the invariant. *)
LEMMA RxInitInv == RxInit => RxInv
<1> SUFFICES ASSUME RxInit PROVE RxInv
  OBVIOUS
<1> USE DEF RxInit
<1>1. ControlType
  BY DEF ControlType, RxStates
<1>2. LengthType
  BY DEF LengthType, Byte
<1>3. BufferType
  BY DEF BufferType, U16
<1>4. ResultType
  BY DEF ResultType, Stats
<1>5. EscapeInv /\ NoEarlySkb /\ DownIdle
  BY DEF EscapeInv, NoEarlySkb, DownIdle
<1>6. BufferSafe /\ NoSkbLeak /\ LengthFresh
  BY DEF BufferSafe, NoSkbLeak, LengthFresh, State
<1>7. FramesAccounted /\ DeliveredWellFormed
  BY DEF FramesAccounted, DeliveredWellFormed
<1>8. QED
  BY <1>1, <1>2, <1>3, <1>4, <1>5, <1>6, <1>7 DEF RxInv, RxTypeOK

(* A byte in the idle state. *)
LEMMA IdleInv ==
  ASSUME RxInv, rx_up, UNCHANGED rx_up, NEW byte \in Byte, IdleByte(byte)
  PROVE  RxInv'
<1>1. rx_state = "IDLE" /\ rx_skb = NULL
  BY Parts DEF EscapeInv, NoEarlySkb, State, IdleByte
<1>2. /\ rx_skb' = NULL
      /\ UNCHANGED <<saved_state, rx_length_bytes, stats, delivered, live, aborted>>
      /\ \/ /\ rx_state' = "LENGTH" /\ rx_length_index' = 0
            /\ rx_frame_length' = 0 /\ rx_data_received' = 0
            /\ frames' = frames + 1
         \/ /\ rx_state' = "IDLE"
            /\ UNCHANGED <<rx_frame_length, rx_data_received,
                           rx_length_index, frames>>
  BY <1>1 DEF IdleByte, State
<1>3. State' = rx_state'
  BY <1>2 DEF State
<1>4. RxTypeOK'
  <2>1. ControlType'
    BY <1>2, Parts, ControlStep DEF RxStates
  <2>2. LengthType'
    BY <1>2, Parts DEF LengthType
  <2>3. BufferType'
    BY <1>2, Parts DEF BufferType, U16
  <2>4. ResultType'
    BY <1>2, Parts DEF ResultType
  <2>5. QED
    BY <2>1, <2>2, <2>3, <2>4 DEF RxTypeOK
<1>5. EscapeInv' /\ NoEarlySkb' /\ DownIdle' /\ LengthFresh'
  BY <1>2, <1>3 DEF EscapeInv, NoEarlySkb, DownIdle, LengthFresh
<1>6. BufferSafe'
  BY <1>2, <1>3 DEF BufferSafe
<1>7. NoSkbLeak'
  BY <1>1, <1>2, Parts DEF NoSkbLeak
<1>8. FramesAccounted'
  BY <1>1, <1>2, Parts DEF ResultType, Stats, FramesAccounted
<1>9. DeliveredWellFormed'
  BY <1>2, Parts DEF DeliveredWellFormed
<1>10. QED
  BY <1>4, <1>5, <1>6, <1>7, <1>8, <1>9 DEF RxInv

(* An escape character: only the two state fields change, and the state    *)
(* the next byte is processed in stays the same.                           *)
LEMMA EscapeStepInv ==
  ASSUME RxInv, rx_up, UNCHANGED rx_up, NEW byte \in Byte, EscapeByte(byte)
  PROVE  RxInv'
<1>1. /\ rx_state' = "ESCAPE" /\ saved_state' = State
      /\ State \in {"LENGTH", "DATA"} /\ rx_state # "IDLE"
  BY DEF State, EscapeByte
<1>2. State' = State
  BY <1>1 DEF State
<1>3. UNCHANGED <<rx_skb, rx_frame_length, rx_data_received, rx_length_bytes,
                  rx_length_index, stats, delivered, live, frames, aborted>>
  BY DEF EscapeByte
<1>4. RxTypeOK'
  <2>1. ControlType'
    BY <1>1, Parts, ControlStep DEF RxStates
  <2>2. LengthType'
    BY <1>3, Parts DEF LengthType
  <2>3. BufferType'
    BY <1>3, Parts DEF BufferType
  <2>4. ResultType'
    BY <1>3, Parts DEF ResultType
  <2>5. QED
    BY <2>1, <2>2, <2>3, <2>4 DEF RxTypeOK
<1>5. EscapeInv' /\ NoEarlySkb' /\ DownIdle' /\ LengthFresh'
  BY <1>1, <1>2, <1>3, Parts DEF EscapeInv, NoEarlySkb, DownIdle, LengthFresh
<1>6. BufferSafe'
  BY <1>2, <1>3, Parts DEF BufferSafe
<1>7. NoSkbLeak'
  BY <1>3, Parts DEF NoSkbLeak
<1>8. FramesAccounted'
  BY <1>1, <1>3, Parts DEF FramesAccounted
<1>9. DeliveredWellFormed'
  BY <1>3, Parts DEF DeliveredWellFormed
<1>10. QED
  BY <1>4, <1>5, <1>6, <1>7, <1>8, <1>9 DEF RxInv

(* A byte of the length field.  No buffer exists yet; the second byte      *)
(* makes the frame refused, or allocated, or dropped.                      *)
LEMMA LengthInv ==
  ASSUME RxInv, rx_up, UNCHANGED rx_up, NEW byte \in Byte, LengthByte(byte)
  PROVE  RxInv'
<1> DEFINE bytes == [rx_length_bytes EXCEPT ![rx_length_index] = Unescaped(byte)]
           len   == bytes[0] * 256 + bytes[1]
<1>1. /\ State = "LENGTH" /\ rx_skb = NULL /\ live = 0
      /\ rx_state # "IDLE" /\ rx_length_index \in 0..1 /\ rx_data_received = 0
  <2>1. State = "LENGTH"
    BY DEF LengthByte
  <2>2. rx_skb = NULL /\ rx_state # "IDLE" /\ rx_data_received = 0
    BY <2>1, Parts DEF NoEarlySkb, LengthFresh, State
  <2>3. rx_length_index \in 0..1
    BY <2>1, Parts DEF BufferSafe, LengthType
  <2>4. live = 0
    BY <2>2, Parts DEF NoSkbLeak
  <2>5. QED
    BY <2>1, <2>2, <2>3, <2>4
<1>2. bytes \in [0..1 -> Byte]
  BY <1>1, UnescapedByte, Parts DEF LengthType
<1>3. len \in U16
  <2>1. bytes[0] \in Byte /\ bytes[1] \in Byte
    BY <1>2
  <2> HIDE DEF bytes
  <2>2. QED
    BY <2>1, TwoBytes
<1>4. /\ rx_length_bytes' = bytes
      /\ rx_length_index' = rx_length_index + 1
      /\ UNCHANGED <<saved_state, rx_data_received, delivered, frames, aborted>>
  BY DEF LengthByte
<1>5. \/ /\ rx_length_index' # 2
         /\ rx_state' = "LENGTH"
         /\ UNCHANGED <<rx_skb, rx_frame_length, stats, live>>
      \/ /\ rx_state' = "IDLE" /\ rx_skb' = NULL /\ live' = live
         /\ rx_frame_length' \in {rx_frame_length, len}
         /\ \E f \in {"length_errors", "dropped"} : stats' = Count(f)
      \/ /\ ValidLength(len)
         /\ rx_frame_length' = len
         /\ rx_skb' = [data |-> <<>>, room |-> len]
         /\ live' = live + 1
         /\ rx_state' = "DATA"
         /\ UNCHANGED stats
  <2> HIDE DEF bytes, len
  <2>1. QED
    BY <1>1 DEF LengthByte, bytes, len
<1> HIDE DEF bytes, len
<1>6. LengthType'
  BY <1>1, <1>2, <1>4 DEF LengthType
<1>7. ControlType'
  BY <1>4, <1>5, Parts, ControlStep DEF RxStates
<1>8. DownIdle' /\ EscapeInv' /\ State' = rx_state'
  BY <1>5 DEF DownIdle, EscapeInv, State
<1>9. LengthFresh'
  BY <1>1, <1>4 DEF LengthFresh
<1>10. /\ delivered \in Seq(Seq(Byte)) /\ frames \in Nat /\ aborted \in Nat
       /\ stats \in Stats /\ rx_frame_length \in U16 /\ rx_data_received \in U16
  BY Parts DEF ResultType, BufferType
<1>11. CASE /\ rx_length_index' # 2
            /\ rx_state' = "LENGTH"
            /\ UNCHANGED <<rx_skb, rx_frame_length, stats, live>>
  <2>1. BufferType'
    BY <1>1, <1>4, <1>10, <1>11 DEF BufferType
  <2>2. ResultType'
    BY <1>1, <1>4, <1>10, <1>11 DEF ResultType
  <2>3. NoEarlySkb' /\ NoSkbLeak'
    BY <1>1, <1>11 DEF NoEarlySkb, NoSkbLeak
  <2>4. BufferSafe'
    BY <1>1, <1>4, <1>8, <1>11 DEF BufferSafe
  <2>5. FramesAccounted' /\ DeliveredWellFormed'
    BY <1>1, <1>4, <1>11, Parts DEF FramesAccounted, DeliveredWellFormed
  <2>6. QED
    BY <1>6, <1>7, <1>8, <1>9, <2>1, <2>2, <2>3, <2>4, <2>5 DEF RxInv, RxTypeOK
<1>12. CASE /\ rx_state' = "IDLE" /\ rx_skb' = NULL /\ live' = live
            /\ rx_frame_length' \in {rx_frame_length, len}
            /\ \E f \in {"length_errors", "dropped"} : stats' = Count(f)
  <2>1. PICK f \in {"length_errors", "dropped"} : stats' = Count(f)
    BY <1>12
  <2>2. stats' \in Stats /\ stats'.packets = stats.packets
    BY <1>10, <2>1, CountStats
  <2>3. BufferType'
    BY <1>1, <1>3, <1>4, <1>10, <1>12 DEF BufferType
  <2>4. ResultType'
    BY <1>1, <1>4, <1>10, <1>12, <2>2 DEF ResultType
  <2>5. NoEarlySkb' /\ NoSkbLeak'
    BY <1>1, <1>12 DEF NoEarlySkb, NoSkbLeak
  <2>6. BufferSafe'
    BY <1>8, <1>12 DEF BufferSafe
  <2>7. FramesAccounted'
    BY <1>1, <1>4, <1>12, <2>1, Parts, AccountStep
  <2>8. DeliveredWellFormed'
    BY <1>4, <2>2, Parts DEF DeliveredWellFormed
  <2>9. QED
    BY <1>6, <1>7, <1>8, <1>9, <2>3, <2>4, <2>5, <2>6, <2>7, <2>8
       DEF RxInv, RxTypeOK
<1>13. CASE /\ ValidLength(len)
            /\ rx_frame_length' = len
            /\ rx_skb' = [data |-> <<>>, room |-> len]
            /\ live' = live + 1
            /\ rx_state' = "DATA"
            /\ UNCHANGED stats
  <2>1. rx_skb' \in Skb /\ Len(rx_skb'.data) = 0 /\ rx_skb'.room = len
    BY <1>3, <1>13 DEF Skb, U16
  <2>2. rx_skb' # NULL
    BY <2>1, NullAssumption
  <2>3. len \in 1..MaxLen
    BY <1>3, <1>13, RxAssumption DEF ValidLength, MaxLen, U16
  <2>4. BufferType'
    BY <1>3, <1>4, <1>10, <1>13, <2>1 DEF BufferType
  <2>5. ResultType'
    BY <1>1, <1>4, <1>10, <1>13 DEF ResultType
  <2>6. NoEarlySkb' /\ NoSkbLeak'
    BY <1>1, <1>8, <1>13, <2>2 DEF NoEarlySkb, NoSkbLeak
  <2>7. BufferSafe'
    BY <1>1, <1>4, <1>8, <1>13, <2>1, <2>2, <2>3 DEF BufferSafe
  <2>8. FramesAccounted' /\ DeliveredWellFormed'
    BY <1>1, <1>4, <1>13, Parts DEF FramesAccounted, DeliveredWellFormed
  <2>9. QED
    BY <1>6, <1>7, <1>8, <1>9, <2>4, <2>5, <2>6, <2>7, <2>8 DEF RxInv, RxTypeOK
<1>14. QED
  BY <1>5, <1>11, <1>12, <1>13

(* A byte of the data.  BufferSafe leaves room for it, so the branch that  *)
(* counts an overflow is never taken.                                      *)
LEMMA DataInv ==
  ASSUME RxInv, rx_up, UNCHANGED rx_up, NEW byte \in Byte, DataByte(byte)
  PROVE  RxInv'
<1>1. State = "DATA" /\ rx_state # "IDLE"
  BY DEF DataByte, State
<1>2. rx_skb \in Skb /\ rx_skb # NULL /\ rx_frame_length \in U16
      /\ rx_data_received \in Nat
  BY <1>1, Parts DEF BufferSafe, BufferType, U16
<1>3. /\ Len(rx_skb.data) = rx_data_received
      /\ rx_skb.room = rx_frame_length
      /\ rx_data_received < rx_frame_length
      /\ rx_frame_length \in 1..MaxLen
  BY <1>1, <1>2, Parts DEF BufferSafe
<1>4. /\ rx_skb' = [rx_skb EXCEPT !.data = Append(@, Unescaped(byte))]
      /\ rx_data_received' = rx_data_received + 1
      /\ rx_state' = IF rx_data_received + 1 >= rx_frame_length
                       THEN "END" ELSE "DATA"
      /\ UNCHANGED <<stats, live, saved_state, rx_frame_length, rx_length_bytes,
                     rx_length_index, delivered, frames, aborted>>
  BY <1>3 DEF DataByte
<1>5. /\ rx_skb' \in Skb
      /\ Len(rx_skb'.data) = rx_data_received + 1
      /\ rx_skb'.room = rx_frame_length
  <2>1. rx_skb.data \in Seq(Byte) /\ rx_skb.room \in Nat
    BY <1>2 DEF Skb
  <2>2. Unescaped(byte) \in Byte
    BY UnescapedByte
  <2>3. /\ Append(rx_skb.data, Unescaped(byte)) \in Seq(Byte)
        /\ Len(Append(rx_skb.data, Unescaped(byte))) = Len(rx_skb.data) + 1
    BY <2>1, <2>2
  <2>4. rx_skb' = [data |-> Append(rx_skb.data, Unescaped(byte)),
                   room |-> rx_skb.room]
    BY <1>2, <1>4 DEF Skb
  <2>5. QED
    BY <1>3, <2>1, <2>3, <2>4 DEF Skb
<1>6. rx_skb' # NULL
  BY <1>5, NullAssumption
<1>7. rx_data_received' \in U16
  BY <1>2, <1>3, <1>4 DEF U16
<1>8. rx_state' \in {"DATA", "END"} /\ State' = rx_state'
  BY <1>4 DEF State
<1>9. RxTypeOK'
  <2>1. ControlType'
    BY <1>4, <1>8, Parts, ControlStep DEF RxStates
  <2>2. LengthType'
    BY <1>4, Parts DEF LengthType
  <2>3. BufferType'
    BY <1>2, <1>4, <1>5, <1>7 DEF BufferType
  <2>4. ResultType'
    BY <1>4, Parts DEF ResultType
  <2>5. QED
    BY <2>1, <2>2, <2>3, <2>4 DEF RxTypeOK
<1>10. EscapeInv' /\ NoEarlySkb' /\ DownIdle' /\ LengthFresh'
  BY <1>8 DEF EscapeInv, NoEarlySkb, DownIdle, LengthFresh
<1>11. BufferSafe'
  <2>1. CASE rx_data_received + 1 >= rx_frame_length
    <3>1. rx_state' = "END" /\ rx_data_received + 1 = rx_frame_length
      BY <1>2, <1>3, <1>4, <2>1
    <3>2. QED
      BY <1>3, <1>4, <1>5, <1>6, <1>8, <3>1 DEF BufferSafe
  <2>2. CASE ~(rx_data_received + 1 >= rx_frame_length)
    <3>1. rx_state' = "DATA" /\ rx_data_received + 1 < rx_frame_length
      BY <1>2, <1>3, <1>4, <2>2
    <3>2. QED
      BY <1>3, <1>4, <1>5, <1>6, <1>8, <3>1 DEF BufferSafe
  <2>3. QED
    BY <2>1, <2>2
<1>12. NoSkbLeak'
  BY <1>2, <1>4, <1>6, Parts DEF NoSkbLeak
<1>13. FramesAccounted'
  BY <1>1, <1>4, <1>8, Parts DEF FramesAccounted
<1>14. DeliveredWellFormed'
  BY <1>4, Parts DEF DeliveredWellFormed
<1>15. QED
  BY <1>9, <1>10, <1>11, <1>12, <1>13, <1>14 DEF RxInv

(* The byte after the data: the buffer is handed on or freed. *)
LEMMA EndInv ==
  ASSUME RxInv, rx_up, UNCHANGED rx_up, NEW byte \in Byte, EndByte(byte)
  PROVE  RxInv'
<1>1. State = "END" /\ rx_state # "IDLE"
  BY DEF EndByte, State
<1>2. rx_skb \in Skb /\ rx_skb # NULL /\ rx_skb.data \in Seq(Byte) /\ live = 1
  BY <1>1, Parts DEF BufferSafe, BufferType, NoSkbLeak, Skb
<1>3. ValidLength(Len(rx_skb.data))
  BY <1>1, <1>2, RxAssumption, Parts DEF BufferSafe, ValidLength, MaxLen
<1>4. /\ rx_state' = "IDLE" /\ rx_skb' = NULL /\ live' = 0
      /\ UNCHANGED <<saved_state, rx_frame_length, rx_data_received,
                     rx_length_bytes, rx_length_index, frames, aborted>>
      /\ \/ stats' = Count("packets") /\ delivered' = Append(delivered, rx_skb.data)
         \/ stats' = Count("errors") /\ delivered' = delivered
  BY <1>2 DEF EndByte
<1>5. /\ stats \in Stats /\ delivered \in Seq(Seq(Byte))
      /\ frames \in Nat /\ aborted \in Nat
      /\ Len(delivered) = stats.packets
      /\ \A i \in 1..Len(delivered) : ValidLength(Len(delivered[i]))
  BY Parts DEF ResultType, DeliveredWellFormed
<1>6. stats' \in Stats
  BY <1>4, <1>5, CountStats
<1>7. delivered' \in Seq(Seq(Byte))
  <2>1. Append(delivered, rx_skb.data) \in Seq(Seq(Byte))
    BY <1>2, <1>5
  <2>2. delivered' \in {delivered, Append(delivered, rx_skb.data)}
    BY <1>4
  <2>3. QED
    BY <1>5, <2>1, <2>2
<1>8. State' = "IDLE"
  BY <1>4 DEF State
<1>9. RxTypeOK'
  <2>1. ControlType'
    BY <1>4, Parts, ControlStep DEF RxStates
  <2>2. LengthType'
    BY <1>4, Parts DEF LengthType
  <2>3. BufferType'
    BY <1>4, Parts DEF BufferType
  <2>4. ResultType'
    BY <1>4, <1>5, <1>6, <1>7 DEF ResultType
  <2>5. QED
    BY <2>1, <2>2, <2>3, <2>4 DEF RxTypeOK
<1>10. EscapeInv' /\ NoEarlySkb' /\ DownIdle' /\ LengthFresh'
  BY <1>4, <1>8 DEF EscapeInv, NoEarlySkb, DownIdle, LengthFresh
<1>11. BufferSafe' /\ NoSkbLeak'
  BY <1>4, <1>8 DEF BufferSafe, NoSkbLeak
<1>12. FramesAccounted'
  BY <1>1, <1>4, Parts, AccountStep
<1>13. DeliveredWellFormed'
  <2>1. CASE stats' = Count("packets") /\ delivered' = Append(delivered, rx_skb.data)
    <3>1. stats'.packets = stats.packets + 1
      BY <1>5, <2>1, CountStats
    <3>2. Len(delivered') = Len(delivered) + 1
      BY <1>2, <1>5, <2>1
    <3>3. ASSUME NEW i \in 1..Len(delivered')
          PROVE  ValidLength(Len(delivered'[i]))
      <4>1. CASE i = Len(delivered) + 1
        BY <1>2, <1>3, <1>5, <2>1, <4>1
      <4>2. CASE i \in 1..Len(delivered)
        BY <1>2, <1>5, <2>1, <4>2
      <4>3. QED
        BY <1>5, <3>2, <4>1, <4>2
    <3>4. QED
      BY <1>5, <3>1, <3>2, <3>3 DEF DeliveredWellFormed, ValidLength, MaxLen
  <2>2. CASE stats' = Count("errors") /\ delivered' = delivered
    <3>1. stats'.packets = stats.packets
      BY <1>5, <2>2, CountStats
    <3>2. QED
      BY <1>5, <2>2, <3>1 DEF DeliveredWellFormed
  <2>3. QED
    BY <1>4, <2>1, <2>2
<1>14. QED
  BY <1>9, <1>10, <1>11, <1>12, <1>13 DEF RxInv

(* uartnet_open overwrites rx_skb without freeing it: nothing is lost,     *)
(* because a closed interface holds no buffer.                             *)
LEMMA OpenInv == RxInv /\ RxOpen => RxInv'
<1> SUFFICES ASSUME RxInv, RxOpen PROVE RxInv'
  OBVIOUS
<1>1. ~rx_up /\ rx_up' = TRUE /\ rx_state' = "IDLE" /\ rx_skb' = NULL
  BY DEF RxOpen
<1>2. UNCHANGED <<saved_state, rx_frame_length, rx_data_received,
                  rx_length_bytes, rx_length_index, stats, delivered, live,
                  frames, aborted>>
  BY DEF RxOpen
<1>3. rx_state = "IDLE" /\ rx_skb = NULL
  BY <1>1, Parts DEF DownIdle, NoEarlySkb, State
<1>4. State' = "IDLE"
  BY <1>1 DEF State
<1>5. ControlType'
  BY <1>1, <1>2, Parts DEF ControlType, RxStates
<1>6. LengthType'
  BY <1>2, Parts DEF LengthType
<1>7. BufferType'
  BY <1>1, <1>2, Parts DEF BufferType
<1>8. ResultType'
  BY <1>2, Parts DEF ResultType
<1>9. EscapeInv' /\ NoEarlySkb' /\ DownIdle' /\ LengthFresh' /\ BufferSafe'
  BY <1>1, <1>4 DEF EscapeInv, NoEarlySkb, DownIdle, LengthFresh, BufferSafe
<1>10. NoSkbLeak'
  BY <1>1, <1>2, <1>3, Parts DEF NoSkbLeak
<1>11. FramesAccounted' /\ DeliveredWellFormed'
  BY <1>1, <1>2, <1>3, Parts DEF FramesAccounted, DeliveredWellFormed
<1>12. QED
  BY <1>5, <1>6, <1>7, <1>8, <1>9, <1>10, <1>11 DEF RxInv, RxTypeOK

(* uartnet_stop frees the buffer of a frame in progress. *)
LEMMA StopInv == RxInv /\ RxStop => RxInv'
<1> SUFFICES ASSUME RxInv, RxStop PROVE RxInv'
  OBVIOUS
<1>1. /\ rx_up' = FALSE /\ rx_state' = "IDLE" /\ rx_skb' = NULL
      /\ live' = live - (IF rx_skb # NULL THEN 1 ELSE 0)
      /\ aborted' = aborted + (IF rx_state # "IDLE" THEN 1 ELSE 0)
  BY DEF RxStop
<1>2. UNCHANGED <<saved_state, rx_frame_length, rx_data_received,
                  rx_length_bytes, rx_length_index, stats, delivered, frames>>
  BY DEF RxStop
<1>3. State' = "IDLE"
  BY <1>1 DEF State
<1>4. live' = 0
  BY <1>1, Parts DEF NoSkbLeak
<1>5. ControlType'
  BY <1>1, <1>2, Parts DEF ControlType, RxStates
<1>6. LengthType'
  BY <1>2, Parts DEF LengthType
<1>7. BufferType'
  BY <1>1, <1>2, Parts DEF BufferType
<1>8. ResultType'
  BY <1>1, <1>2, <1>4, Parts DEF ResultType
<1>9. EscapeInv' /\ NoEarlySkb' /\ DownIdle' /\ LengthFresh' /\ BufferSafe'
  BY <1>1, <1>3 DEF EscapeInv, NoEarlySkb, DownIdle, LengthFresh, BufferSafe
<1>10. NoSkbLeak'
  BY <1>1, <1>4 DEF NoSkbLeak
<1>11. FramesAccounted'
  BY <1>1, <1>2, Parts DEF FramesAccounted, ResultType, Stats
<1>12. DeliveredWellFormed'
  BY <1>2, Parts DEF DeliveredWellFormed
<1>13. QED
  BY <1>5, <1>6, <1>7, <1>8, <1>9, <1>10, <1>11, <1>12 DEF RxInv, RxTypeOK

(* A step that changes none of the receiver's variables. *)
LEMMA StutterInv == RxInv /\ UNCHANGED rxVars => RxInv'
<1> SUFFICES ASSUME RxInv, UNCHANGED rxVars PROVE RxInv'
  OBVIOUS
<1>1. UNCHANGED <<rx_up, rx_state, saved_state>>
  BY DEF rxVars
<1>2. UNCHANGED <<rx_skb, rx_frame_length, rx_data_received, rx_length_bytes,
                  rx_length_index, stats, delivered, live, frames, aborted>>
  BY DEF rxVars
<1>3. State' = State
  BY <1>1 DEF State
<1>4. ControlType'
  BY <1>1, Parts DEF ControlType
<1>5. LengthType'
  BY <1>2, Parts DEF LengthType
<1>6. BufferType'
  BY <1>2, Parts DEF BufferType
<1>7. ResultType'
  BY <1>2, Parts DEF ResultType
<1>8. EscapeInv' /\ NoEarlySkb' /\ DownIdle' /\ LengthFresh'
  BY <1>1, <1>2, <1>3, Parts DEF EscapeInv, NoEarlySkb, DownIdle, LengthFresh
<1>9. BufferSafe' /\ NoSkbLeak'
  BY <1>2, <1>3, Parts DEF BufferSafe, NoSkbLeak
<1>10. FramesAccounted' /\ DeliveredWellFormed'
  BY <1>1, <1>2, Parts DEF FramesAccounted, DeliveredWellFormed
<1>11. QED
  BY <1>4, <1>5, <1>6, <1>7, <1>8, <1>9, <1>10 DEF RxInv, RxTypeOK

(* One iteration of the loop of uartnet_poll, for any byte.  UartLink      *)
(* drives the same action from its transmitter.                            *)
LEMMA PollByteInv ==
  ASSUME RxInv, NEW byte \in Byte, uartnet_poll_byte(byte)
  PROVE  RxInv'
  BY IdleInv, EscapeStepInv, LengthInv, DataInv, EndInv DEF uartnet_poll_byte

(* Every step of the receiver keeps its invariant. *)
LEMMA RxNextInv == RxInv /\ [RxNext]_rxVars => RxInv'
<1> SUFFICES ASSUME RxInv, [RxNext]_rxVars PROVE RxInv'
  OBVIOUS
<1>1. CASE \E byte \in Noise : Receive(byte)
  BY <1>1, PollByteInv, RxAssumption DEF Receive
<1>2. CASE RxOpen
  BY <1>2, OpenInv
<1>3. CASE RxStop
  BY <1>3, StopInv
<1>4. CASE UNCHANGED rxVars
  BY <1>4, StutterInv
<1>5. QED
  BY <1>1, <1>2, <1>3, <1>4 DEF RxNext

(* The inductive invariant holds in every reachable state. *)
THEOREM RxInvariance == RxSpec => []RxInv
  BY RxInitInv, RxNextInv, PTL DEF RxSpec

(* Every field of the receiver keeps its C type, for every constant. *)
THEOREM RxTypeCorrect == RxSpec => []RxTypeOK
<1>1. RxInv => RxTypeOK
  BY DEF RxInv
<1>2. QED
  BY <1>1, RxInvariance, PTL

(* uartnet_poll never writes past the buffer it allocated, never through a *)
(* NULL rx_skb, and never at rx_length_bytes[2], whatever bytes the line   *)
(* delivers, however often allocation fails and the interface restarts.    *)
THEOREM RxBufferSafe == RxSpec => []BufferSafe
<1>1. RxInv => BufferSafe
  BY DEF RxInv
<1>2. QED
  BY <1>1, RxInvariance, PTL

(* Every receive buffer is freed or handed on exactly once. *)
THEOREM RxNoSkbLeak == RxSpec => []NoSkbLeak
<1>1. RxInv => NoSkbLeak
  BY DEF RxInv
<1>2. QED
  BY <1>1, RxInvariance, PTL

(* Every frame header is accounted for exactly once in dev->stats, and the *)
(* overflow branch of the data state is never taken.                       *)
THEOREM RxFramesAccounted == RxSpec => []FramesAccounted
<1>1. RxInv => FramesAccounted
  BY DEF RxInv
<1>2. QED
  BY <1>1, RxInvariance, PTL

(* The stack receives one frame per counted packet, each of legal length.  *)
THEOREM RxDeliveredWellFormed == RxSpec => []DeliveredWellFormed
<1>1. RxInv => DeliveredWellFormed
  BY DEF RxInv
<1>2. QED
  BY <1>1, RxInvariance, PTL
-----------------------------------------------------------------------------
(* The link.                                                               *)
(*                                                                         *)
(* A position in the stream of bytes that the sender writes: the frame it  *)
(* belongs to, the field of the frame, the byte of the field, and whether  *)
(* its escape character has been written already.                          *)
Fields == {"HEADER", "LENGTH", "DATA", "FOOTER"}
Pos == [k : Nat, field : Fields, i : Nat, esc : BOOLEAN]
At(k, field, i, esc) == [k |-> k, field |-> field, i |-> i, esc |-> esc]

(* The bytes of the field, the byte at a position, and what is written for *)
(* it, when the frames accepted so far are s.                              *)
Content(s, q) == IF q.field = "LENGTH" THEN LengthBytes(s[q.k]) ELSE s[q.k]
Plain(s, q) == Content(s, q)[q.i]
Escapes(s, q) == ~q.esc /\ Special(Plain(s, q))
Wire(s, q) ==
  IF q.field = "HEADER" THEN FRAME_HEADER
  ELSE IF q.field = "FOOTER" THEN FRAME_FOOTER
  ELSE IF q.esc THEN Xor20(Plain(s, q))
  ELSE IF Special(Plain(s, q)) THEN ESCAPE_CHAR
  ELSE Plain(s, q)

(* The position after q. *)
After(s, q) ==
  IF q.field = "HEADER" THEN At(q.k, "LENGTH", 1, FALSE)
  ELSE IF q.field = "FOOTER" THEN At(q.k + 1, "HEADER", 1, FALSE)
  ELSE IF Escapes(s, q) THEN At(q.k, q.field, q.i, TRUE)
  ELSE IF q.i < Len(Content(s, q)) THEN At(q.k, q.field, q.i + 1, FALSE)
  ELSE IF q.field = "LENGTH" THEN At(q.k, "DATA", 1, FALSE)
  ELSE At(q.k, "FOOTER", 1, FALSE)

(* The positions there are. *)
InStream(s, q) ==
  /\ q \in Pos
  /\ q.k \in 1..(Len(s) + 1)
  /\ q.field # "HEADER" => q.k <= Len(s)
  /\ q.field \in {"HEADER", "FOOTER"} => q.i = 1 /\ ~q.esc
  /\ q.field \in {"LENGTH", "DATA"} =>
       q.i \in 1..Len(Content(s, q)) /\ (q.esc => Special(Plain(s, q)))

(* The bytes on the line are consecutive: p gives the position of each,    *)
(* and of the next one to be written.                                      *)
Chain(p) ==
  /\ DOMAIN p = 0..Len(line)
  /\ \A j \in 0..Len(line) : InStream(sent, p[j])
  /\ \A j \in 1..Len(line) : line[j] = Wire(sent, p[j - 1]) /\ p[j] = After(sent, p[j - 1])

(* What is left of a field from its i-th byte on. *)
Rest(c, field, i) ==
  /\ Len(c) = Len(field) + 1 - i
  /\ \A j \in 1..Len(c) : c[j] = field[i + j - 1]

(* The transmitter is about to write the byte at q. *)
TxAt(q) ==
  \/ /\ tx_state = "IDLE"
     /\ q = At(Len(sent) + 1, "HEADER", 1, FALSE)
  \/ /\ tx_state = q.field
     /\ q.k = Len(sent)
     /\ tx_skb = sent[q.k]
     /\ tx_escape_next = q.esc
     /\ tx_state = "HEADER" => tx_current = LengthBytes(tx_skb)
     /\ tx_state \in {"LENGTH", "DATA"} => Rest(tx_current, Content(sent, q), q.i)

(* The receiver is in the middle of a frame and expects the byte at q. *)
Reading(q) ==
  /\ q.field \in {"LENGTH", "DATA", "FOOTER"}
  /\ rx_state # "IDLE"
  /\ State = IF q.field = "FOOTER" THEN "END" ELSE q.field
  /\ rx_state = "ESCAPE" <=> q.esc
  /\ q.field = "LENGTH" =>
       /\ rx_length_index = q.i - 1
       /\ q.i = 2 => rx_length_bytes[0] = LengthBytes(sent[q.k])[1]
  /\ q.field \in {"DATA", "FOOTER"} => rx_frame_length = Len(sent[q.k])
  /\ q.field = "DATA" =>
       /\ rx_data_received = q.i - 1
       /\ \A j \in 1..(q.i - 1) : rx_skb.data[j] = sent[q.k][j]
  /\ q.field = "FOOTER" => rx_skb.data = sent[q.k]

(* The receiver gets the byte at q next: it hunts for a header, or is      *)
(* reading the frame q belongs to.                                         *)
RxAt(q) == rx_state = "IDLE" \/ Reading(q)

(* What has been delivered are frames before the one q belongs to.         *)
Received(q) ==
  \E m \in [1..Len(delivered) -> 1..Len(sent)] :
     /\ \A i, j \in 1..Len(delivered) : i < j => m[i] < m[j]
     /\ \A i \in 1..Len(delivered) : delivered[i] = sent[m[i]] /\ m[i] < q.k

(* Sender, line and receiver agree on where they are in the stream.        *)
InStep ==
  \E p : Chain(p) /\ TxAt(p[Len(line)]) /\ RxAt(p[0]) /\ Received(p[0])

(* The types of the link. *)
LinkTypes ==
  /\ tx_up \in BOOLEAN
  /\ tx_state \in TxStates
  /\ tx_state # "IDLE" => tx_skb \in Frames
  /\ tx_current \in Seq(Byte)
  /\ tx_escape_next \in BOOLEAN
  /\ line \in Seq(Byte)
  /\ sent \in Seq(Frames)
  /\ lost \in Nat /\ cut \in Nat /\ stops \in Nat
  /\ ~tx_up => tx_state = "IDLE"

LinkInv == RxInv /\ LinkTypes /\ (lost + cut = 0 => InStep)
-----------------------------------------------------------------------------
(* The frames that the link carries: no byte of the frame or of its length *)
(* is the escape character (the receiver takes such a byte, its escape     *)
(* undone, for another escape), and the length fits the two length bytes.  *)
NoEscapeChar ==
  \A f \in Frames :
     /\ \A i \in 1..Len(f) : f[i] # ESCAPE_CHAR
     /\ \A i \in 1..2 : LengthBytes(f)[i] # ESCAPE_CHAR
LengthFits == MaxLen < 65536

(* A special byte is not one any more once escaped, and comes back when    *)
(* the escape is undone.                                                   *)
LEMMA EscapeUndone ==
  ASSUME NEW b, Special(b)
  PROVE  /\ b \in Byte /\ Xor20(b) \in Byte
         /\ Xor20(Xor20(b)) = b
         /\ ~Special(Xor20(b))
<1>1. b \in {170, 85, 90}
  BY DEF Special, FRAME_HEADER, FRAME_FOOTER, ESCAPE_CHAR
<1>2. CASE b = 170
  <2>1. Xor20(170) = 138 /\ Xor20(138) = 170
    BY DEF Xor20
  <2>2. QED
    BY <1>2, <2>1 DEF Special, FRAME_HEADER, FRAME_FOOTER, ESCAPE_CHAR, Byte
<1>3. CASE b = 85
  <2>1. Xor20(85) = 117 /\ Xor20(117) = 85
    BY DEF Xor20
  <2>2. QED
    BY <1>3, <2>1 DEF Special, FRAME_HEADER, FRAME_FOOTER, ESCAPE_CHAR, Byte
<1>4. CASE b = 90
  <2>1. Xor20(90) = 122 /\ Xor20(122) = 90
    BY DEF Xor20
  <2>2. QED
    BY <1>4, <2>1 DEF Special, FRAME_HEADER, FRAME_FOOTER, ESCAPE_CHAR, Byte
<1>5. QED
  BY <1>1, <1>2, <1>3, <1>4

(* A frame is a short, nonempty sequence of bytes. *)
LEMMA FrameFacts ==
  ASSUME NEW f \in Frames
  PROVE  f \in Seq(Byte) /\ Len(f) \in Nat /\ Len(f) >= 1 /\ Len(f) <= MaxLen
<1>1. f \in Seq(Byte) /\ ValidLength(Len(f))
  BY LinkAssumption
<1>2. QED
  BY <1>1 DEF ValidLength

(* The remainder of a division by 256 is a byte. *)
LEMMA ModByte == \A d \in Nat : d % 256 \in 0..255
  OBVIOUS

(* The two length bytes give the length. *)
LEMMA LengthBytesFacts ==
  ASSUME NEW f \in Frames
  PROVE  /\ LengthBytes(f) \in Seq(Byte) /\ Len(LengthBytes(f)) = 2
         /\ LengthBytes(f)[1] \in Byte /\ LengthBytes(f)[2] \in Byte
         /\ LengthFits => LengthBytes(f)[1] * 256 + LengthBytes(f)[2] = Len(f)
<1>1. Len(f) \in Nat /\ Len(f) <= MaxLen /\ MaxLen \in Nat
  BY FrameFacts, RxAssumption DEF MaxLen
<1> DEFINE n == Len(f)
<1>2. PICK h \in Nat : h = n \div 256
  BY <1>1
<1>3. n % 256 \in 0..255 /\ h % 256 \in 0..255
  BY <1>1, ModByte
<1>4. n % 256 = n - 256 * h
  BY <1>1, <1>2
<1>5. n < 65536 => h % 256 = h
  BY <1>1, <1>2
<1>6. LengthBytes(f) = <<(n \div 256) % 256, n % 256>>
  BY DEF LengthBytes
<1>7. /\ LengthBytes(f)[1] = (n \div 256) % 256 /\ LengthBytes(f)[2] = n % 256
      /\ Len(LengthBytes(f)) = 2
  BY <1>6
<1>8. LengthBytes(f) \in Seq(Byte)
  BY <1>2, <1>3, <1>6 DEF Byte
<1>9. LengthFits => n < 65536
  BY <1>1 DEF LengthFits
<1>10. QED
  BY <1>1, <1>2, <1>3, <1>5, <1>4, <1>7, <1>8, <1>9 DEF Byte

(* The field at a position of the length or the data. *)
LEMMA ContentFacts ==
  ASSUME NEW s \in Seq(Frames), NEW q, InStream(s, q), q.field \in {"LENGTH", "DATA"}
  PROVE  /\ q.k \in 1..Len(s) /\ s[q.k] \in Frames
         /\ q.field = "LENGTH" => Content(s, q) = LengthBytes(s[q.k])
         /\ q.field = "DATA" => Content(s, q) = s[q.k]
         /\ Content(s, q) \in Seq(Byte) /\ Len(Content(s, q)) \in Nat
         /\ Len(Content(s, q)) >= 1
         /\ q.i \in 1..Len(Content(s, q))
         /\ Plain(s, q) \in Byte
         /\ NoEscapeChar => Plain(s, q) # ESCAPE_CHAR
<1>1. q.k \in 1..Len(s) /\ s[q.k] \in Frames
  BY DEF InStream, Pos
<1>2. /\ q.field = "LENGTH" => Content(s, q) = LengthBytes(s[q.k])
      /\ q.field = "DATA" => Content(s, q) = s[q.k]
  BY DEF Content
<1>3. /\ Content(s, q) \in Seq(Byte) /\ Len(Content(s, q)) \in Nat
      /\ Len(Content(s, q)) >= 1
  BY <1>1, <1>2, FrameFacts, LengthBytesFacts
<1>4. q.i \in 1..Len(Content(s, q))
  BY DEF InStream
<1>5. Plain(s, q) \in Byte
  BY <1>3, <1>4 DEF Plain
<1>6. NoEscapeChar => Plain(s, q) # ESCAPE_CHAR
  <2> SUFFICES ASSUME NoEscapeChar PROVE Plain(s, q) # ESCAPE_CHAR
    OBVIOUS
  <2>1. /\ \A i \in 1..Len(s[q.k]) : s[q.k][i] # ESCAPE_CHAR
        /\ \A i \in 1..2 : LengthBytes(s[q.k])[i] # ESCAPE_CHAR
    BY <1>1 DEF NoEscapeChar
  <2>2. CASE q.field = "LENGTH"
    <3>1. Content(s, q) = LengthBytes(s[q.k]) /\ Len(LengthBytes(s[q.k])) = 2
      BY <1>1, <1>2, <2>2, LengthBytesFacts
    <3>2. QED
      BY <1>4, <2>1, <3>1 DEF Plain
  <2>3. CASE q.field = "DATA"
    BY <1>2, <1>4, <2>1, <2>3 DEF Plain
  <2>4. QED
    BY <2>2, <2>3
<1>7. QED
  BY <1>1, <1>2, <1>3, <1>4, <1>5, <1>6

(* What is written at a position is a byte, and the frame header only      *)
(* where a frame begins.                                                   *)
LEMMA WireFacts ==
  ASSUME NEW s \in Seq(Frames), NEW q, InStream(s, q)
  PROVE  /\ Wire(s, q) \in Byte
         /\ Wire(s, q) = FRAME_HEADER <=> q.field = "HEADER"
<1>1. CASE q.field \in {"HEADER", "FOOTER"}
  BY <1>1 DEF Wire, FRAME_HEADER, FRAME_FOOTER, Byte
<1>2. CASE q.field \in {"LENGTH", "DATA"}
  <2>1. Plain(s, q) \in Byte /\ (q.esc => Special(Plain(s, q)))
    BY <1>2, ContentFacts DEF InStream
  <2>2. Special(FRAME_HEADER) /\ ESCAPE_CHAR \in Byte /\ ESCAPE_CHAR # FRAME_HEADER
    BY DEF Special, FRAME_HEADER, ESCAPE_CHAR, Byte
  <2>3. q.esc => Xor20(Plain(s, q)) \in Byte /\ ~Special(Xor20(Plain(s, q)))
    BY <2>1, EscapeUndone
  <2>4. QED
    BY <1>2, <2>1, <2>2, <2>3 DEF Wire
<1>3. QED
  BY <1>1, <1>2 DEF InStream, Pos, Fields

(* A position that has been written is followed by another one. *)
LEMMA AfterFacts ==
  ASSUME NEW s \in Seq(Frames), NEW q, InStream(s, q), q.k <= Len(s)
  PROVE  /\ InStream(s, After(s, q))
         /\ After(s, q).k = IF q.field = "FOOTER" THEN q.k + 1 ELSE q.k
<1>1. /\ q \in Pos /\ q.k \in 1..Len(s) /\ Len(s) \in Nat /\ q.k \in Nat
      /\ q.field \in Fields /\ q.i \in Nat /\ q.esc \in BOOLEAN /\ s[q.k] \in Frames
  BY DEF InStream, Pos
<1>2. PICK r : r = After(s, q)
  OBVIOUS
<1> SUFFICES InStream(s, r) /\ r.k = IF q.field = "FOOTER" THEN q.k + 1 ELSE q.k
  BY <1>2
<1>3. CASE q.field = "HEADER"
  <2>1. Len(LengthBytes(s[q.k])) = 2
    BY <1>1, LengthBytesFacts
  <2>2. r = At(q.k, "LENGTH", 1, FALSE)
    BY <1>2, <1>3 DEF After
  <2>3. /\ r \in Pos /\ r.k = q.k /\ r.field = "LENGTH"
         /\ r.i = 1 /\ r.esc = FALSE
    BY <1>1, <2>2 DEF At, Pos, Fields
  <2>4. Content(s, r) = LengthBytes(s[q.k])
    BY <2>3 DEF Content
  <2>5. Len(Content(s, r)) = 2 /\ r.i = 1
    BY <2>1, <2>3, <2>4, Zenon
  <2>6. r.i \in 1..Len(Content(s, r))
    BY <2>5
  <2>7. QED
    BY <1>1, <1>3, <2>3, <2>6 DEF InStream
<1>4. CASE q.field = "FOOTER"
  <2>1. r = At(q.k + 1, "HEADER", 1, FALSE)
    BY <1>2, <1>4 DEF After
  <2>2. /\ r \in Pos /\ r.k = q.k + 1 /\ r.field = "HEADER"
         /\ r.i = 1 /\ r.esc = FALSE
    BY <1>1, <2>1 DEF At, Pos, Fields
  <2>3. QED
    BY <1>1, <1>4, <2>2 DEF InStream
<1>6. CASE q.field \in {"LENGTH", "DATA"}
  <2>1. /\ Len(Content(s, q)) \in Nat /\ q.i \in 1..Len(Content(s, q))
        /\ q.field = "LENGTH" => Content(s, q) = LengthBytes(s[q.k])
        /\ q.field = "DATA" => Content(s, q) = s[q.k]
    BY <1>6, ContentFacts
  <2>2. CASE Escapes(s, q)
    <3>1. r = At(q.k, q.field, q.i, TRUE)
      BY <1>2, <2>2, <1>6 DEF After
    <3>2. /\ r \in Pos /\ r.k = q.k /\ r.field = q.field
           /\ r.i = q.i /\ r.esc = TRUE
      BY <1>1, <3>1 DEF At, Pos, Fields
    <3>3. QED
      BY <1>1, <2>2, <1>6, <2>1, <3>2 DEF InStream, Content, Plain, Escapes
  <2>3. CASE ~Escapes(s, q) /\ q.i < Len(Content(s, q))
    <3>1. r = At(q.k, q.field, q.i + 1, FALSE)
      BY <1>2, <2>3, <1>6 DEF After
    <3>2. /\ r \in Pos /\ r.k = q.k /\ r.field = q.field
           /\ r.i = q.i + 1 /\ r.esc = FALSE
      BY <1>1, <3>1 DEF At, Pos, Fields
    <3>3. QED
      BY <1>1, <2>3, <1>6, <2>1, <3>2 DEF InStream, Content
  <2>4. CASE ~Escapes(s, q) /\ ~(q.i < Len(Content(s, q))) /\ q.field = "LENGTH"
    <3>1. Len(s[q.k]) >= 1 /\ Len(s[q.k]) \in Nat
      BY <1>1, FrameFacts
    <3>2. r = At(q.k, "DATA", 1, FALSE)
      BY <1>2, <2>4, <1>6 DEF After
    <3>3. /\ r \in Pos /\ r.k = q.k /\ r.field = "DATA"
           /\ r.i = 1 /\ r.esc = FALSE
      BY <1>1, <3>2 DEF At, Pos, Fields
    <3>4. QED
      BY <1>1, <2>4, <1>6, <2>1, <3>1, <3>3 DEF InStream, Content
  <2>5. CASE ~Escapes(s, q) /\ ~(q.i < Len(Content(s, q))) /\ q.field = "DATA"
    <3>1. r = At(q.k, "FOOTER", 1, FALSE)
      BY <1>2, <2>5, <1>6 DEF After
    <3>2. /\ r \in Pos /\ r.k = q.k /\ r.field = "FOOTER"
           /\ r.i = 1 /\ r.esc = FALSE
      BY <1>1, <3>1 DEF At, Pos, Fields
    <3>3. QED
      BY <1>1, <2>5, <1>6, <2>1, <3>2 DEF InStream
  <2>6. QED
    BY <1>6, <2>2, <2>3, <2>4, <2>5
<1>7. QED
  BY <1>1, <1>3, <1>4, <1>6 DEF Fields

(* Accepting another frame moves no position. *)
LEMMA AppendFacts ==
  ASSUME NEW s \in Seq(Frames), NEW f \in Frames, NEW q, InStream(s, q)
  PROVE  /\ InStream(Append(s, f), q)
         /\ Wire(Append(s, f), q) = Wire(s, q)
         /\ After(Append(s, f), q) = After(s, q)
         /\ q.k <= Len(s) => Append(s, f)[q.k] = s[q.k]
<1> DEFINE t == Append(s, f)
<1>1. /\ Len(t) = Len(s) + 1 /\ Len(s) \in Nat
      /\ \A k \in 1..Len(s) : t[k] = s[k]
  OBVIOUS
<1>2. q.k \in 1..(Len(s) + 1) /\ (q.field # "HEADER" => q.k \in 1..Len(s))
  BY <1>1 DEF InStream
<1>3. q.field # "HEADER" => Content(t, q) = Content(s, q) /\ Plain(t, q) = Plain(s, q)
  BY <1>1, <1>2 DEF Content, Plain
<1> HIDE DEF t
<1>4. InStream(t, q)
  BY <1>1, <1>2, <1>3 DEF InStream
<1>5. Wire(t, q) = Wire(s, q)
  BY <1>3 DEF Wire
<1>6. After(t, q) = After(s, q)
  BY <1>3 DEF After, Escapes
<1>7. q.k <= Len(s) => t[q.k] = s[q.k]
  BY <1>1, <1>2
<1>8. QED
  BY <1>4, <1>5, <1>6, <1>7 DEF t
-----------------------------------------------------------------------------
(* The sender writes the byte at its position. *)
LEMMA ChainWrite ==
  ASSUME sent \in Seq(Frames), line \in Seq(Byte), NEW p, Chain(p),
         NEW q, q = p[Len(line)], q.k <= Len(sent), NEW r, r = After(sent, q),
         line' = Append(line, Wire(sent, q)), UNCHANGED sent
  PROVE  \E pp : Chain(pp)' /\ pp[Len(line')] = r /\ pp[0] = p[0]
<1>1. Len(line) \in Nat /\ Len(line') = Len(line) + 1
  BY WireFacts DEF Chain
<1>2. PICK pp : pp = [j \in 0..(Len(line) + 1) |-> IF j = Len(line) + 1 THEN r ELSE p[j]]
  OBVIOUS
<1>3. /\ DOMAIN pp = 0..(Len(line) + 1)
      /\ pp[Len(line) + 1] = r
      /\ \A j \in 0..Len(line) : pp[j] = p[j]
  BY <1>1, <1>2
<1>4. InStream(sent, q) /\ InStream(sent, r)
  BY <1>1, AfterFacts DEF Chain
<1>5. \A j \in 0..Len(line') : InStream(sent, pp[j])
  <2>1. TAKE j \in 0..Len(line')
  <2>2. CASE j = Len(line) + 1
    BY <2>2, <1>3, <1>4
  <2>3. CASE j \in 0..Len(line)
    BY <2>3, <1>3 DEF Chain
  <2>4. QED
    BY <1>1, <2>2, <2>3
<1>6. \A j \in 1..Len(line') :
         line'[j] = Wire(sent, pp[j - 1]) /\ pp[j] = After(sent, pp[j - 1])
  <2>1. TAKE j \in 1..Len(line')
  <2>2. CASE j = Len(line) + 1
    <3>1. line'[j] = Wire(sent, q) /\ j - 1 = Len(line) /\ pp[j - 1] = q
      BY <1>1, <1>3, <2>2
    <3>2. QED
      BY <1>3, <2>2, <3>1
  <2>3. CASE j \in 1..Len(line)
    <3>1. line'[j] = line[j] /\ pp[j] = p[j] /\ pp[j - 1] = p[j - 1]
      BY <1>1, <1>3, <2>3
    <3>2. QED
      BY <2>3, <3>1 DEF Chain
  <2>4. QED
    BY <1>1, <2>2, <2>3
<1>7. Chain(pp)'
  BY <1>1, <1>3, <1>5, <1>6 DEF Chain
<1>8. QED
  BY <1>1, <1>3, <1>7

(* The receiver takes a byte off the line. *)
LEMMA ChainRead ==
  ASSUME sent \in Seq(Frames), line \in Seq(Byte), line # <<>>, NEW p, Chain(p),
         NEW r, r = After(sent, p[0]), line' = Tail(line), UNCHANGED sent
  PROVE  /\ Head(line) = Wire(sent, p[0])
         /\ p[0].k <= Len(sent)
         /\ \E pp : Chain(pp)' /\ pp[Len(line')] = p[Len(line)] /\ pp[0] = r
<1>1. /\ Len(line) \in Nat /\ Len(line) >= 1 /\ Len(line') = Len(line) - 1
      /\ Head(line) = line[1] /\ \A j \in 1..Len(line') : line'[j] = line[j + 1]
  OBVIOUS
<1>2. PICK pp : pp = [j \in 0..(Len(line) - 1) |-> p[j + 1]]
  OBVIOUS
<1>3. DOMAIN pp = 0..Len(line') /\ \A j \in 0..Len(line') : pp[j] = p[j + 1]
  BY <1>1, <1>2
<1>4. Head(line) = Wire(sent, p[0]) /\ p[1] = r /\ pp[0] = r
  <2>1. 1 \in 1..Len(line) /\ 1 - 1 = 0 /\ 0 + 1 = 1 /\ 0 \in 0..Len(line')
    BY <1>1
  <2>2. line[1] = Wire(sent, p[1 - 1]) /\ p[1] = After(sent, p[1 - 1])
    BY <2>1 DEF Chain
  <2>3. QED
    BY <1>1, <1>3, <2>1, <2>2
<1>5. Chain(pp)'
  <2>1. \A j \in 0..Len(line') : InStream(sent, pp[j])
    BY <1>1, <1>3, SMTT(20) DEF Chain
  <2>2. ASSUME NEW j \in 1..Len(line')
        PROVE  line'[j] = Wire(sent, pp[j - 1]) /\ pp[j] = After(sent, pp[j - 1])
    <3>1. j + 1 \in 1..Len(line) /\ (j + 1) - 1 = j /\ (j - 1) + 1 = j
      BY <1>1
    <3>2. line[j + 1] = Wire(sent, p[(j + 1) - 1]) /\ p[j + 1] = After(sent, p[(j + 1) - 1])
      BY <3>1 DEF Chain
    <3>3. pp[j - 1] = p[(j - 1) + 1] /\ pp[j] = p[j + 1] /\ line'[j] = line[j + 1]
      BY <1>1, <1>3
    <3>4. QED
      BY <3>1, <3>2, <3>3
  <2>3. QED
    BY <1>3, <2>1, <2>2 DEF Chain
<1>6. p[0].k <= Len(sent)
  <2>1. InStream(sent, p[0]) /\ InStream(sent, r)
    <3>1. 0 \in 0..Len(line) /\ 1 \in 0..Len(line)
      BY <1>1
    <3>2. QED
      BY <1>4, <3>1 DEF Chain
  <2>2. CASE p[0].field = "HEADER"
    <3>1. r = At(p[0].k, "LENGTH", 1, FALSE)
      BY <2>2 DEF After
    <3>2. r.k = p[0].k /\ r.field = "LENGTH"
      BY <3>1 DEF At
    <3>3. QED
      BY <2>1, <3>2 DEF InStream
  <2>3. QED
    BY <2>1, <2>2 DEF InStream
<1>7. pp[Len(line')] = p[Len(line)]
  <2>1. Len(line') \in 0..Len(line') /\ Len(line') + 1 = Len(line)
    BY <1>1
  <2>2. QED
    BY <1>3, <2>1
<1>8. QED
  BY <1>4, <1>5, <1>6, <1>7

(* The sender accepts another frame. *)
LEMMA ChainSend ==
  ASSUME sent \in Seq(Frames), line \in Seq(Byte), NEW p, Chain(p),
         NEW f \in Frames, sent' = Append(sent, f), UNCHANGED line
  PROVE  Chain(p)'
<1>1. Len(line) \in Nat
  OBVIOUS
<1>2. \A j \in 0..Len(line) :
         /\ InStream(Append(sent, f), p[j])
         /\ Wire(Append(sent, f), p[j]) = Wire(sent, p[j])
         /\ After(Append(sent, f), p[j]) = After(sent, p[j])
  BY AppendFacts DEF Chain
<1>3. \A j \in 1..Len(line) : j - 1 \in 0..Len(line)
  BY <1>1
<1>4. \A j \in 0..Len(line') : InStream(sent', p[j])
  BY <1>2
<1>5. \A j \in 1..Len(line') :
         line'[j] = Wire(sent', p[j - 1]) /\ p[j] = After(sent', p[j - 1])
  BY <1>2, <1>3 DEF Chain
<1>6. QED
  BY <1>4, <1>5 DEF Chain

(* Nothing happens to the line. *)
LEMMA ChainSame ==
  ASSUME NEW p, Chain(p), UNCHANGED <<line, sent>>
  PROVE  Chain(p)'
  BY DEF Chain

-----------------------------------------------------------------------------
(* What the transmitter writes is the byte at its position, and it goes on *)
(* to the position after.                                                  *)
LEMMA HeaderStep ==
  ASSUME LinkTypes, NEW q, InStream(sent, q), TxAt(q), NEW r, r = After(sent, q), TxHeader
  PROVE  /\ line' = Append(line, Wire(sent, q)) /\ UNCHANGED sent
         /\ q.k <= Len(sent) /\ TxAt(r)'
<1>1. /\ tx_state = "HEADER" /\ tx_state' = "LENGTH"
      /\ line' = Append(line, FRAME_HEADER)
      /\ UNCHANGED <<tx_skb, tx_current, tx_escape_next, sent>>
  BY DEF TxHeader, WriteDR
<1>2. /\ q.field = "HEADER" /\ q.k = Len(sent) /\ tx_skb = sent[q.k]
      /\ tx_escape_next = q.esc /\ q.esc = FALSE
      /\ tx_current = LengthBytes(tx_skb)
  BY <1>1 DEF TxAt, InStream, Pos
<1>3. r = At(q.k, "LENGTH", 1, FALSE) /\ Wire(sent, q) = FRAME_HEADER
  BY <1>2 DEF After, Wire
<1>4. r.k = q.k /\ r.field = "LENGTH" /\ r.i = 1 /\ r.esc = FALSE
  BY <1>3 DEF At
<1>5. Content(sent, r) = LengthBytes(sent[q.k]) /\ tx_current = Content(sent, r)
  BY <1>2, <1>4 DEF Content
<1>6. Len(tx_current) \in Nat
  BY DEF LinkTypes
<1>7. Rest(tx_current, Content(sent, r), r.i)
  BY <1>4, <1>5, <1>6 DEF Rest
<1>8. Len(sent) \in Nat
  BY DEF LinkTypes
<1>9. TxAt(r)'
  BY <1>1, <1>2, <1>4, <1>7 DEF TxAt, Content
<1>10. line' = Append(line, Wire(sent, q))
  BY <1>1, <1>3
<1>11. q.k <= Len(sent)
  BY <1>2, <1>8
<1>12. QED
  BY <1>1, <1>9, <1>10, <1>11

(* The footer ends the frame: the transmitter is idle again. *)
LEMMA FooterStep ==
  ASSUME LinkTypes, NEW q, InStream(sent, q), TxAt(q), NEW r, r = After(sent, q), TxFooter
  PROVE  /\ line' = Append(line, Wire(sent, q)) /\ UNCHANGED sent
         /\ q.k <= Len(sent) /\ TxAt(r)'
<1>1. /\ tx_state = "FOOTER" /\ tx_state' = "IDLE"
      /\ line' = Append(line, FRAME_FOOTER) /\ UNCHANGED sent
  BY DEF TxFooter, WriteDR
<1>2. q.field = "FOOTER" /\ q.k = Len(sent)
  BY <1>1 DEF TxAt
<1>3. r = At(Len(sent) + 1, "HEADER", 1, FALSE) /\ Wire(sent, q) = FRAME_FOOTER
  BY <1>2 DEF After, Wire
<1>4. Len(sent) \in Nat
  BY DEF LinkTypes
<1>5. TxAt(r)'
  BY <1>1, <1>3 DEF TxAt
<1>6. line' = Append(line, Wire(sent, q))
  BY <1>1, <1>3
<1>7. q.k <= Len(sent)
  BY <1>2, <1>4
<1>8. QED
  BY <1>1, <1>5, <1>6, <1>7

(* Only the empty sequence has no element. *)
LEMMA EmptyLen == \A t \in Seq(Byte) : t = <<>> <=> Len(t) = 0
  OBVIOUS

(* The rest of a field after its next byte. *)
LEMMA RestTail ==
  ASSUME NEW c \in Seq(Byte), NEW field \in Seq(Byte), NEW i \in 1..Len(field),
         Rest(c, field, i)
  PROVE  /\ c # <<>> /\ Head(c) = field[i]
         /\ Rest(Tail(c), field, i + 1)
         /\ Tail(c) = <<>> <=> ~(i < Len(field))
<1>1. /\ Len(c) \in Nat /\ Len(field) \in Nat /\ i \in Nat
      /\ Len(c) = Len(field) + 1 - i /\ Len(c) >= 1
  BY DEF Rest
<1>2. c # <<>> /\ Head(c) = c[1]
  BY <1>1
<1>3. Head(c) = field[i]
  BY <1>1, <1>2 DEF Rest
<1>4. Len(Tail(c)) = Len(c) - 1 /\ \A j \in 1..Len(Tail(c)) : Tail(c)[j] = c[j + 1]
  BY <1>1, <1>2
<1>5. Rest(Tail(c), field, i + 1)
  <2>1. Len(Tail(c)) = Len(field) + 1 - (i + 1)
    BY <1>1, <1>4
  <2>2. ASSUME NEW j \in 1..Len(Tail(c)) PROVE Tail(c)[j] = field[(i + 1) + j - 1]
    <3>1. j + 1 \in 1..Len(c) /\ i + (j + 1) - 1 = (i + 1) + j - 1
      BY <1>1, <1>4
    <3>2. c[j + 1] = field[i + (j + 1) - 1]
      BY <3>1 DEF Rest
    <3>3. QED
      BY <1>4, <3>1, <3>2
  <2>3. QED
    BY <2>1, <2>2 DEF Rest
<1>6. Tail(c) = <<>> <=> ~(i < Len(field))
  <2>1. Tail(c) \in Seq(Byte)
    BY <1>2
  <2>2. Tail(c) = <<>> <=> Len(Tail(c)) = 0
    BY <2>1, EmptyLen, Zenon
  <2>3. PICK n : n = Len(Tail(c))
    OBVIOUS
  <2>4. n = Len(field) - i
    BY <1>1, <1>4, <2>3
  <2>5. n = 0 <=> ~(i < Len(field))
    BY <1>1, <2>4
  <2>6. QED
    BY <2>2, <2>5, <2>3
<1>7. QED
  BY <1>2, <1>3, <1>5, <1>6

(* A byte of the length or the data, or its escape character. *)
LEMMA FieldStep ==
  ASSUME LinkTypes, NEW q, InStream(sent, q), TxAt(q), NEW r, r = After(sent, q),
         TxLength \/ TxData
  PROVE  /\ line' = Append(line, Wire(sent, q)) /\ UNCHANGED sent
         /\ q.k <= Len(sent) /\ TxAt(r)'
<1>1. /\ tx_state \in {"LENGTH", "DATA"} /\ WriteEscaped
      /\ UNCHANGED <<tx_skb, sent>>
  BY DEF TxLength, TxData, WriteEscaped, WriteDR
<1>2. /\ q.field = tx_state /\ q.k = Len(sent) /\ tx_skb = sent[q.k]
      /\ tx_escape_next = q.esc /\ Rest(tx_current, Content(sent, q), q.i)
  BY <1>1 DEF TxAt
<1>3. /\ sent \in Seq(Frames) /\ Len(sent) \in Nat /\ tx_current \in Seq(Byte)
      /\ q.esc \in BOOLEAN
  BY DEF LinkTypes, InStream, Pos
<1>4. /\ Content(sent, q) \in Seq(Byte) /\ q.i \in 1..Len(Content(sent, q))
      /\ Len(Content(sent, q)) \in Nat /\ sent[q.k] \in Frames
      /\ q.field = "LENGTH" => Content(sent, q) = LengthBytes(sent[q.k])
      /\ q.field = "DATA" => Content(sent, q) = sent[q.k]
  BY <1>1, <1>2, <1>3, ContentFacts
<1>5. /\ tx_current # <<>> /\ Head(tx_current) = Plain(sent, q)
      /\ Rest(Tail(tx_current), Content(sent, q), q.i + 1)
      /\ Tail(tx_current) = <<>> <=> ~(q.i < Len(Content(sent, q)))
  BY <1>2, <1>3, <1>4, RestTail DEF Plain
<1>6. EscapePending <=> Escapes(sent, q)
  BY <1>2, <1>5 DEF EscapePending, Escapes
<1>7. line' = Append(line, Wire(sent, q))
  <2>1. CASE q.esc
    <3>1. Wire(sent, q) = Xor20(Head(tx_current))
      BY <1>1, <1>2, <1>5, <2>1 DEF Wire
    <3>2. tx_escape_next = TRUE /\ ~EscapePending
      BY <1>2, <1>3, <2>1 DEF EscapePending
    <3>3. QED
      BY <1>1, <3>1, <3>2 DEF WriteEscaped, WriteDR
  <2>2. CASE EscapePending
    <3>1. Wire(sent, q) = ESCAPE_CHAR /\ ~tx_escape_next
      BY <1>1, <1>2, <1>5, <2>2 DEF Wire, EscapePending
    <3>2. QED
      BY <1>1, <2>2, <3>1 DEF WriteEscaped, WriteDR
  <2>3. CASE ~q.esc /\ ~EscapePending
    <3>1. Wire(sent, q) = Head(tx_current) /\ ~tx_escape_next
      BY <1>1, <1>2, <1>5, <2>3 DEF Wire, EscapePending
    <3>2. QED
      BY <1>1, <2>3, <3>1 DEF WriteEscaped, WriteDR
  <2>4. QED
    BY <2>1, <2>2, <2>3
<1>8. TxAt(r)'
  <2>1. CASE Escapes(sent, q)
    <3>1. r = At(q.k, q.field, q.i, TRUE)
      BY <1>1, <1>2, <2>1 DEF After
    <3>2. r.k = q.k /\ r.field = q.field /\ r.i = q.i /\ r.esc = TRUE
      BY <3>1 DEF At
    <3>3. UNCHANGED <<tx_state, tx_current>> /\ tx_escape_next' = TRUE
      BY <1>6, <2>1 DEF TxLength, TxData
    <3>4. Content(sent, r) = Content(sent, q)
      BY <3>2 DEF Content
    <3>5. QED
      BY <1>1, <1>2, <3>2, <3>3, <3>4 DEF TxAt, Content
  <2>2. CASE ~Escapes(sent, q) /\ q.i < Len(Content(sent, q))
    <3>1. r = At(q.k, q.field, q.i + 1, FALSE)
      BY <1>1, <1>2, <2>2 DEF After
    <3>2. r.k = q.k /\ r.field = q.field /\ r.i = q.i + 1 /\ r.esc = FALSE
      BY <3>1 DEF At
    <3>3. /\ UNCHANGED tx_state /\ tx_current' = Tail(tx_current)
          /\ tx_escape_next' = FALSE
      BY <1>5, <1>6, <2>2 DEF TxLength, TxData
    <3>4. Content(sent, r) = Content(sent, q)
      BY <3>2 DEF Content
    <3>5. QED
      BY <1>1, <1>2, <1>5, <3>2, <3>3, <3>4 DEF TxAt, Content
  <2>3. CASE ~Escapes(sent, q) /\ ~(q.i < Len(Content(sent, q))) /\ q.field = "LENGTH"
    <3>1. r = At(q.k, "DATA", 1, FALSE)
      BY <2>3 DEF After
    <3>2. r.k = q.k /\ r.field = "DATA" /\ r.i = 1 /\ r.esc = FALSE
      BY <3>1 DEF At
    <3>3. tx_state' = "DATA" /\ tx_current' = tx_skb /\ tx_escape_next' = FALSE
      BY <1>2, <1>5, <1>6, <2>3 DEF TxLength, TxData
    <3>4. Content(sent, r) = sent[q.k] /\ Len(sent[q.k]) \in Nat
      BY <1>4, <3>2, FrameFacts DEF Content
    <3>5. Rest(sent[q.k], Content(sent, r), 1)
      BY <3>4 DEF Rest
    <3>6. QED
      BY <1>1, <1>2, <3>2, <3>3, <3>4, <3>5 DEF TxAt, Content
  <2>4. CASE ~Escapes(sent, q) /\ ~(q.i < Len(Content(sent, q))) /\ q.field = "DATA"
    <3>1. r = At(q.k, "FOOTER", 1, FALSE)
      BY <2>4 DEF After
    <3>2. r.k = q.k /\ r.field = "FOOTER" /\ r.i = 1 /\ r.esc = FALSE
      BY <3>1 DEF At
    <3>3. tx_state' = "FOOTER" /\ tx_escape_next' = FALSE
      BY <1>2, <1>5, <1>6, <2>4 DEF TxLength, TxData
    <3>4. QED
      BY <1>1, <1>2, <3>2, <3>3 DEF TxAt
  <2>5. QED
    BY <1>1, <1>2, <2>1, <2>2, <2>3, <2>4
<1>9. QED
  BY <1>1, <1>2, <1>3, <1>7, <1>8
-----------------------------------------------------------------------------
(* What the receiver makes of a byte of the length or the data. *)
LEMMA Heard ==
  ASSUME sent \in Seq(Frames), NoEscapeChar, NEW q, InStream(sent, q), Reading(q),
         q.field \in {"LENGTH", "DATA"}
  PROVE  /\ Escapes(sent, q) => Unescaped(Wire(sent, q)) = ESCAPE_CHAR
         /\ ~Escapes(sent, q) => /\ Unescaped(Wire(sent, q)) = Plain(sent, q)
                                 /\ Plain(sent, q) # ESCAPE_CHAR
         /\ q.esc => ~Escapes(sent, q)
<1>1. /\ Plain(sent, q) # ESCAPE_CHAR
      /\ q.esc \in BOOLEAN /\ (q.esc => Special(Plain(sent, q)))
      /\ rx_state = "ESCAPE" <=> q.esc
  BY ContentFacts DEF InStream, Pos, Reading
<1>2. CASE q.esc
  BY <1>1, <1>2, EscapeUndone DEF Wire, Unescaped, Escapes
<1>3. CASE ~q.esc
  BY <1>1, <1>3 DEF Wire, Unescaped, Escapes
<1>4. QED
  BY <1>2, <1>3

(* Hunting: everything up to the next header is skipped. *)
LEMMA HuntStep ==
  ASSUME RxInv, sent \in Seq(Frames), NEW q, InStream(sent, q), rx_state = "IDLE",
         NEW r, r = After(sent, q), UNCHANGED sent,
         uartnet_poll_byte(Wire(sent, q))
  PROVE  /\ UNCHANGED delivered
         /\ \/ q.field = "HEADER" /\ Reading(r)'
            \/ q.field # "HEADER" /\ rx_state' = "IDLE"
<1>1. State = "IDLE" /\ Unescaped(Wire(sent, q)) = Wire(sent, q)
  BY DEF State, Unescaped
<1>2. IdleByte(Wire(sent, q))
  BY <1>1 DEF uartnet_poll_byte, EscapeByte, LengthByte, DataByte, EndByte
<1>3. UNCHANGED delivered
  BY <1>2 DEF IdleByte
<1>4. CASE q.field = "HEADER"
  <2>1. Wire(sent, q) = FRAME_HEADER
    BY <1>4, WireFacts
  <2>2. rx_state' = "LENGTH" /\ rx_length_index' = 0
    BY <1>1, <1>2, <2>1 DEF IdleByte
  <2>3. r = At(q.k, "LENGTH", 1, FALSE)
    BY <1>4 DEF After
  <2>4. r.k = q.k /\ r.field = "LENGTH" /\ r.i = 1 /\ r.esc = FALSE
    BY <2>3 DEF At
  <2>5. State' = "LENGTH"
    BY <2>2 DEF State
  <2>6. Reading(r)'
    BY <2>2, <2>4, <2>5 DEF Reading
  <2>7. QED
    BY <1>3, <1>4, <2>6
<1>5. CASE q.field # "HEADER"
  <2>1. Wire(sent, q) # FRAME_HEADER
    BY <1>5, WireFacts
  <2>2. rx_state' = "IDLE"
    BY <1>1, <1>2, <2>1 DEF IdleByte
  <2>3. QED
    BY <1>3, <1>5, <2>2
<1>6. QED
  BY <1>4, <1>5

(* An escape character inside the length or the data. *)
LEMMA ReadEscape ==
  ASSUME RxInv, sent \in Seq(Frames), NoEscapeChar, NEW q, InStream(sent, q), Reading(q),
         q.field \in {"LENGTH", "DATA"}, Escapes(sent, q),
         NEW r, r = After(sent, q), UNCHANGED sent,
         uartnet_poll_byte(Wire(sent, q))
  PROVE  UNCHANGED delivered /\ Reading(r)'
<1>1. State = q.field /\ Unescaped(Wire(sent, q)) = ESCAPE_CHAR
  BY Heard DEF Reading
<1>2. EscapeByte(Wire(sent, q))
  BY <1>1 DEF uartnet_poll_byte, IdleByte, LengthByte, DataByte, EndByte
<1>3. /\ rx_state' = "ESCAPE" /\ saved_state' = q.field
      /\ UNCHANGED <<rx_skb, rx_frame_length, rx_data_received, rx_length_bytes,
                     rx_length_index, delivered>>
  BY <1>1, <1>2 DEF EscapeByte
<1>4. r = At(q.k, q.field, q.i, TRUE)
  BY DEF After
<1>5. r.k = q.k /\ r.field = q.field /\ r.i = q.i /\ r.esc = TRUE
  BY <1>4 DEF At
<1>6. State' = r.field
  BY <1>3, <1>5 DEF State
<1>7. Reading(r)'
  BY <1>3, <1>5, <1>6 DEF Reading
<1>8. QED
  BY <1>3, <1>7

(* A byte of the length: after the second one the receiver has a buffer of *)
(* the frame's length, or no memory.                                       *)
LEMMA ReadLength ==
  ASSUME RxInv, RxInv', sent \in Seq(Frames), NoEscapeChar, LengthFits,
         NEW q, InStream(sent, q), Reading(q),
         q.field = "LENGTH", ~Escapes(sent, q),
         NEW r, r = After(sent, q), UNCHANGED sent,
         uartnet_poll_byte(Wire(sent, q))
  PROVE  /\ UNCHANGED delivered
         /\ \/ Reading(r)'
            \/ AllocMayFail /\ rx_state' = "IDLE" /\ stats' = Count("dropped")
<1> DEFINE lb == LengthBytes(sent[q.k])
           bytes == [rx_length_bytes EXCEPT ![rx_length_index] = Plain(sent, q)]
           len == bytes[0] * 256 + bytes[1]
<1>1. /\ State = "LENGTH" /\ Unescaped(Wire(sent, q)) = Plain(sent, q)
      /\ Plain(sent, q) # ESCAPE_CHAR
  BY Heard DEF Reading
<1>2. LengthByte(Wire(sent, q))
  BY <1>1 DEF uartnet_poll_byte, IdleByte, EscapeByte, DataByte, EndByte
<1>3. /\ Content(sent, q) = lb /\ Len(lb) = 2 /\ q.i \in 1..2 /\ q.i \in Nat
      /\ sent[q.k] \in Frames /\ Plain(sent, q) = lb[q.i] /\ Plain(sent, q) \in Byte
      /\ lb[1] \in Byte /\ lb[2] \in Byte
      /\ lb[1] * 256 + lb[2] = Len(sent[q.k])
  BY ContentFacts, LengthBytesFacts, SMTT(20) DEF Plain
<1>4. /\ rx_length_index = q.i - 1
      /\ q.i = 2 => rx_length_bytes[0] = lb[1]
      /\ rx_length_bytes \in [0..1 -> Byte]
  BY Parts DEF Reading, LengthType
<1>5. /\ rx_length_bytes' = bytes /\ rx_length_index' = rx_length_index + 1
      /\ UNCHANGED <<delivered, rx_data_received>>
      /\ \/ /\ rx_length_index' # 2
            /\ rx_state' = State
         \/ /\ rx_length_index' = 2
            /\ ~ValidLength(len)
         \/ /\ rx_length_index' = 2
            /\ rx_frame_length' = len
            /\ \/ /\ rx_skb' = [data |-> <<>>, room |-> len]
                  /\ rx_state' = "DATA"
               \/ AllocMayFail /\ rx_state' = "IDLE" /\ stats' = Count("dropped")
  BY <1>1, <1>2 DEF LengthByte
<1>6. CASE q.i = 1
  <2>1. /\ rx_length_index = 0 /\ rx_length_index' = 1
        /\ rx_length_bytes'[0] = lb[1] /\ rx_state' = "LENGTH"
    BY <1>1, <1>3, <1>4, <1>5, <1>6
  <2>2. r = At(q.k, "LENGTH", 2, FALSE)
    BY <1>3, <1>6 DEF After
  <2>3. r.k = q.k /\ r.field = "LENGTH" /\ r.i = 2 /\ r.esc = FALSE
    BY <2>2 DEF At
  <2>4. State' = "LENGTH"
    BY <2>1 DEF State
  <2>5. Reading(r)'
    BY <2>1, <2>3, <2>4 DEF Reading
  <2>6. QED
    BY <1>5, <2>5
<1>7. CASE q.i = 2
  <2>1. rx_length_index = 1 /\ rx_length_index' = 2 /\ bytes[0] = lb[1] /\ bytes[1] = lb[2]
    BY <1>3, <1>4, <1>5, <1>7
  <2>2. len = Len(sent[q.k])
    BY <1>3, <2>1
  <2>3. ValidLength(len)
    BY <1>3, <2>2, LinkAssumption
  <2>4. r = At(q.k, "DATA", 1, FALSE)
    BY <1>3, <1>7 DEF After
  <2>5. r.k = q.k /\ r.field = "DATA" /\ r.i = 1 /\ r.esc = FALSE
    BY <2>4 DEF At
  <2>6. CASE rx_state' = "DATA"
    <3>1. rx_frame_length' = Len(sent[q.k])
      BY <1>5, <2>1, <2>2, <2>3
    <3>2. State' = "DATA"
      BY <2>6 DEF State
    <3>3. rx_data_received = 0
      BY <1>1, Parts DEF LengthFresh
    <3>4. Reading(r)'
      BY <1>5, <2>5, <2>6, <3>1, <3>2, <3>3 DEF Reading
    <3>5. QED
      BY <1>5, <3>4
  <2>7. CASE AllocMayFail /\ rx_state' = "IDLE" /\ stats' = Count("dropped")
    BY <1>5, <2>7
  <2>8. QED
    BY <1>5, <2>1, <2>3, <2>6, <2>7
<1>8. QED
  BY <1>3, <1>6, <1>7

(* A byte of the data. *)
LEMMA ReadData ==
  ASSUME RxInv, RxInv', sent \in Seq(Frames), NoEscapeChar,
         NEW q, InStream(sent, q), Reading(q),
         q.field = "DATA", ~Escapes(sent, q),
         NEW r, r = After(sent, q), UNCHANGED sent,
         uartnet_poll_byte(Wire(sent, q))
  PROVE  UNCHANGED delivered /\ Reading(r)'
<1> DEFINE f == sent[q.k]
<1>1. /\ State = "DATA" /\ Unescaped(Wire(sent, q)) = Plain(sent, q)
      /\ Plain(sent, q) # ESCAPE_CHAR
  BY Heard DEF Reading
<1>2. DataByte(Wire(sent, q))
  BY <1>1 DEF uartnet_poll_byte, IdleByte, EscapeByte, LengthByte, EndByte
<1>3. /\ Content(sent, q) = f /\ f \in Seq(Byte) /\ Len(f) \in Nat /\ q.i \in 1..Len(f)
      /\ Plain(sent, q) = f[q.i] /\ Plain(sent, q) \in Byte /\ q.i \in Nat
  BY ContentFacts DEF Plain
<1>4. /\ rx_frame_length = Len(f) /\ rx_data_received = q.i - 1
      /\ \A j \in 1..(q.i - 1) : rx_skb.data[j] = f[j]
  BY DEF Reading
<1>5. /\ rx_skb \in Skb /\ rx_skb.data \in Seq(Byte) /\ Len(rx_skb.data) = q.i - 1
  BY <1>1, <1>4, Parts DEF BufferSafe, BufferType, Skb
<1>6. /\ rx_skb' = [rx_skb EXCEPT !.data = Append(rx_skb.data, f[q.i])]
      /\ rx_data_received' = q.i
      /\ rx_state' = IF q.i >= Len(f) THEN "END" ELSE "DATA"
      /\ UNCHANGED <<delivered, rx_frame_length>>
  BY <1>1, <1>2, <1>3, <1>4 DEF DataByte
<1>7. /\ rx_skb'.data = Append(rx_skb.data, f[q.i])
  BY <1>5, <1>6 DEF Skb
<1>8. /\ Len(rx_skb'.data) = q.i /\ rx_skb'.data \in Seq(Byte)
      /\ \A j \in 1..q.i : rx_skb'.data[j] = f[j]
  BY <1>3, <1>4, <1>5, <1>7, SMTT(20)
<1>9. CASE q.i < Len(f)
  <2>1. rx_state' = "DATA" /\ State' = "DATA"
    BY <1>3, <1>6, <1>9 DEF State
  <2>2. r = At(q.k, "DATA", q.i + 1, FALSE)
    BY <1>3, <1>9 DEF After
  <2>3. r.k = q.k /\ r.field = "DATA" /\ r.i = q.i + 1 /\ r.esc = FALSE
    BY <2>2 DEF At
  <2>4. r.i - 1 = q.i
    BY <1>3, <2>3
  <2>5. Reading(r)'
    BY <1>4, <1>6, <1>8, <2>1, <2>3, <2>4 DEF Reading
  <2>6. QED
    BY <1>6, <2>5
<1>10. CASE ~(q.i < Len(f))
  <2>1. rx_state' = "END" /\ State' = "END"
    BY <1>3, <1>6, <1>10 DEF State
  <2>2. r = At(q.k, "FOOTER", 1, FALSE)
    BY <1>3, <1>10 DEF After
  <2>3. r.k = q.k /\ r.field = "FOOTER" /\ r.i = 1 /\ r.esc = FALSE
    BY <2>2 DEF At
  <2>4. q.i = Len(f)
    BY <1>3, <1>10
  <2>5. rx_skb'.data = f
    BY <1>3, <1>8, <2>4, SMTT(20)
  <2>6. Reading(r)'
    BY <1>4, <1>6, <2>1, <2>3, <2>5 DEF Reading
  <2>7. QED
    BY <1>6, <2>6
<1>11. QED
  BY <1>9, <1>10

(* The footer: the frame is delivered. *)
LEMMA ReadFooter ==
  ASSUME RxInv, sent \in Seq(Frames), NEW q, InStream(sent, q), Reading(q),
         q.field = "FOOTER", uartnet_poll_byte(Wire(sent, q))
  PROVE  rx_state' = "IDLE" /\ delivered' = Append(delivered, sent[q.k])
<1>1. /\ State = "END" /\ rx_state # "ESCAPE" /\ rx_frame_length = Len(sent[q.k])
      /\ rx_skb.data = sent[q.k]
  BY DEF Reading, InStream
<1>2. Unescaped(Wire(sent, q)) = FRAME_FOOTER
  BY <1>1 DEF Unescaped, Wire
<1>3. EndByte(Wire(sent, q))
  BY <1>1 DEF uartnet_poll_byte, IdleByte, EscapeByte, LengthByte, DataByte
<1>4. rx_skb # NULL
  BY <1>1, Parts DEF BufferSafe
<1>5. QED
  BY <1>1, <1>2, <1>3, <1>4 DEF EndByte

(* What a byte of the stream does to the receiver. *)
LEMMA ReadStep ==
  ASSUME RxInv, RxInv', sent \in Seq(Frames), NoEscapeChar, LengthFits,
         NEW q, InStream(sent, q), RxAt(q),
         NEW r, r = After(sent, q), UNCHANGED sent,
         uartnet_poll_byte(Wire(sent, q))
  PROVE  \/ UNCHANGED delivered /\ Reading(r)'
         \/ /\ UNCHANGED delivered /\ rx_state' = "IDLE"
            /\ \/ AllocMayFail /\ stats' = Count("dropped")
               \/ rx_state = "IDLE" /\ q.field # "HEADER"
         \/ /\ q.field = "FOOTER" /\ rx_state' = "IDLE"
            /\ delivered' = Append(delivered, sent[q.k])
<1>1. CASE rx_state = "IDLE"
  BY <1>1, HuntStep
<1>2. CASE Reading(q)
  <2>1. CASE q.field \in {"LENGTH", "DATA"} /\ Escapes(sent, q)
    BY <1>2, <2>1, ReadEscape
  <2>2. CASE q.field = "LENGTH" /\ ~Escapes(sent, q)
    BY <1>2, <2>2, ReadLength
  <2>3. CASE q.field = "DATA" /\ ~Escapes(sent, q)
    BY <1>2, <2>3, ReadData
  <2>4. CASE q.field = "FOOTER"
    BY <1>2, <2>4, ReadFooter
  <2>5. QED
    BY <1>2, <2>1, <2>2, <2>3, <2>4 DEF Reading
<1>3. QED
  BY <1>1, <1>2 DEF RxAt
-----------------------------------------------------------------------------
(* The receiver's invariant on the link, and the types of the link. *)
LEMMA LinkRxStep ==
  ASSUME RxInv, line \in Seq(Byte), [LinkNext]_linkVars
  PROVE  RxInv'
<1>1. CASE LinkReceive
  <2>1. Head(line) \in Byte /\ uartnet_poll_byte(Head(line))
    BY <1>1 DEF LinkReceive
  <2>2. QED
    BY <2>1, PollByteInv
<1>2. CASE LinkRxOpen
  BY <1>2, OpenInv DEF LinkRxOpen
<1>3. CASE LinkRxStop
  BY <1>3, StopInv DEF LinkRxStop
<1>4. CASE UNCHANGED rxVars
  BY <1>4, StutterInv
<1>5. QED
  BY <1>1, <1>2, <1>3, <1>4
  DEF LinkNext, linkVars, uartnet_start_xmit, uartnet_tx_step, TxHeader, TxLength,
      TxData, TxFooter, WriteEscaped, WriteDR, TxOpen, TxStop, LoseByte

(* A byte on its way to the data register is a byte. *)
LEMMA WriteType ==
  ASSUME LinkTypes, TxLength \/ TxData
  PROVE  /\ line' \in Seq(Byte) /\ tx_current' \in Seq(Byte) /\ tx_escape_next' \in BOOLEAN
         /\ tx_state' \in TxStates \ {"IDLE"}
         /\ UNCHANGED <<tx_up, tx_skb, sent, lost, cut, stops>>
<1>1. /\ tx_state \in {"LENGTH", "DATA"} /\ tx_skb \in Frames /\ line \in Seq(Byte)
      /\ tx_current \in Seq(Byte) /\ tx_current # <<>>
  BY DEF TxLength, TxData, LinkTypes
<1>2. Head(tx_current) \in Byte /\ Tail(tx_current) \in Seq(Byte) /\ tx_skb \in Seq(Byte)
  BY <1>1, FrameFacts
<1>3. Xor20(Head(tx_current)) \in Byte /\ ESCAPE_CHAR \in Byte
  <2>1. ESCAPE_CHAR \in Byte
    BY DEF ESCAPE_CHAR, Byte
  <2>2. QED
    BY <1>2, <2>1, Xor20Byte
<1>4. \E byte \in Byte : line' = Append(line, byte)
  <2>1. WriteEscaped
    BY DEF TxLength, TxData
  <2>2. CASE tx_escape_next
    <3>1. ~EscapePending
      BY <2>2 DEF EscapePending
    <3>2. QED
      BY <1>3, <2>1, <2>2, <3>1 DEF WriteEscaped, WriteDR
  <2>3. CASE ~tx_escape_next /\ EscapePending
    BY <1>3, <2>1, <2>3 DEF WriteEscaped, WriteDR
  <2>4. CASE ~tx_escape_next /\ ~EscapePending
    BY <1>2, <2>1, <2>4 DEF WriteEscaped, WriteDR
  <2>5. QED
    BY <2>2, <2>3, <2>4
<1>5. line' \in Seq(Byte)
  BY <1>1, <1>4
<1>6. /\ tx_current' \in Seq(Byte) /\ tx_escape_next' \in BOOLEAN
      /\ tx_state' \in TxStates \ {"IDLE"}
  BY <1>1, <1>2 DEF TxLength, TxData, TxStates
<1>7. UNCHANGED <<tx_up, tx_skb, sent, lost, cut, stops>>
  BY DEF TxLength, TxData, WriteEscaped, WriteDR
<1>8. QED
  BY <1>5, <1>6, <1>7

(* Every step of the link keeps the types. *)
LEMMA LinkTypesStep ==
  ASSUME LinkTypes, [LinkNext]_linkVars
  PROVE  LinkTypes'
<1> USE DEF LinkTypes
<1>1. ASSUME NEW f \in Frames, uartnet_start_xmit(f) PROVE LinkTypes'
  <2>1. f \in Frames /\ LengthBytes(f) \in Seq(Byte)
    BY <1>1, LengthBytesFacts
  <2>2. UNCHANGED <<tx_up, line, lost, cut, stops>> /\ tx_up
    BY <1>1 DEF uartnet_start_xmit
  <2>3. CASE tx_state = "IDLE"
    <3>1. /\ tx_skb' = f /\ tx_state' = "HEADER" /\ tx_current' = LengthBytes(f)
          /\ tx_escape_next' = FALSE /\ sent' = Append(sent, f)
      BY <1>1, <2>3 DEF uartnet_start_xmit
    <3>2. sent' \in Seq(Frames)
      BY <1>1, <3>1
    <3>3. QED
      BY <2>1, <2>2, <3>1, <3>2 DEF TxStates
  <2>4. CASE tx_state # "IDLE"
    BY <1>1, <2>2, <2>4 DEF uartnet_start_xmit, txPriv
  <2>5. QED
    BY <2>3, <2>4
<1>2. CASE TxHeader
  <2>1. /\ line' = Append(line, FRAME_HEADER) /\ tx_state = "HEADER" /\ tx_state' = "LENGTH"
        /\ UNCHANGED <<tx_up, tx_skb, tx_current, tx_escape_next, sent, lost, cut, stops>>
    BY <1>2 DEF TxHeader, WriteDR
  <2>2. line' \in Seq(Byte)
    BY <2>1 DEF FRAME_HEADER, Byte
  <2>3. QED
    BY <2>1, <2>2 DEF TxStates
<1>3. CASE TxLength \/ TxData
  <2>1. tx_state # "IDLE"
    BY <1>3 DEF TxLength, TxData
  <2>2. QED
    BY <1>3, <2>1, WriteType
<1>4. CASE TxFooter
  <2>1. /\ line' = Append(line, FRAME_FOOTER) /\ tx_state' = "IDLE"
        /\ UNCHANGED <<tx_up, tx_current, tx_escape_next, sent, lost, cut, stops>>
    BY <1>4 DEF TxFooter, WriteDR
  <2>2. line' \in Seq(Byte)
    BY <2>1 DEF FRAME_FOOTER, Byte
  <2>3. QED
    BY <2>1, <2>2 DEF TxStates
<1>5. CASE LinkReceive
  <2>1. UNCHANGED txVars /\ UNCHANGED <<sent, lost, cut, stops>> /\ line' \in Seq(Byte)
    BY <1>5 DEF LinkReceive
  <2>2. QED
    BY <2>1 DEF txVars, txPriv
<1>6. CASE TxOpen
  BY <1>6 DEF TxOpen, TxStates
<1>7. CASE TxStop
  <2>1. cut' = cut \/ cut' = cut + 1
    BY <1>7 DEF TxStop
  <2>2. cut' \in Nat
    BY <2>1
  <2>3. /\ stops' = stops + 1 /\ tx_up' = FALSE /\ tx_state' = "IDLE"
        /\ UNCHANGED <<tx_current, tx_escape_next, line, sent, lost>>
    BY <1>7 DEF TxStop
  <2>4. stops' \in Nat /\ lost' \in Nat
    BY <2>3
  <2>5. /\ tx_current' \in Seq(Byte) /\ tx_escape_next' \in BOOLEAN
        /\ line' \in Seq(Byte) /\ sent' \in Seq(Frames)
    BY <2>3
  <2>6. tx_up' \in BOOLEAN /\ tx_state' \in TxStates
    BY <2>3 DEF TxStates
  <2>7. QED
    BY <2>2, <2>3, <2>4, <2>5, <2>6
<1>8. CASE LinkRxOpen
  BY <1>8 DEF LinkRxOpen, txVars, txPriv
<1>9. CASE LinkRxStop
  BY <1>9 DEF LinkRxStop, txVars, txPriv
<1>10. CASE LoseByte
  <2>1. PICK i \in 1..Len(line) : line' = RemoveAt(line, i)
    BY <1>10 DEF LoseByte
  <2>2. SubSeq(line, 1, i - 1) \in Seq(Byte) /\ SubSeq(line, i + 1, Len(line)) \in Seq(Byte)
    BY <2>1
  <2>3. line' \in Seq(Byte)
    BY <2>1, <2>2 DEF RemoveAt
  <2>4. QED
    BY <1>10, <2>3 DEF LoseByte, txVars, txPriv
<1>11. CASE UNCHANGED linkVars
  BY <1>11 DEF linkVars, txVars, txPriv
<1>12. QED
  BY <1>1, <1>2, <1>3, <1>4, <1>5, <1>6, <1>7, <1>8, <1>9, <1>10, <1>11
  DEF LinkNext, uartnet_tx_step

(* What is lost or cut off stays so. *)
LEMMA DamageStays ==
  ASSUME LinkTypes, [LinkNext]_linkVars, lost' + cut' = 0
  PROVE  lost + cut = 0 /\ ~LoseByte /\ (TxStop => tx_state = "IDLE")
<1>1. lost \in Nat /\ cut \in Nat
  BY DEF LinkTypes
<1>2. /\ lost' = lost \/ (LoseByte /\ lost' = lost + 1)
      /\ cut' = cut \/ (TxStop /\ cut' = cut + (IF tx_state # "IDLE" THEN 1 ELSE 0))
      /\ LoseByte => lost' = lost + 1
      /\ TxStop => cut' = cut + (IF tx_state # "IDLE" THEN 1 ELSE 0)
  BY DEF LinkNext, linkVars, uartnet_start_xmit, uartnet_tx_step, TxHeader, TxLength,
         TxData, TxFooter, WriteEscaped, WriteDR, TxOpen, TxStop, LoseByte, LinkReceive,
         LinkRxOpen, LinkRxStop
<1>3. QED
  BY <1>1, <1>2
-----------------------------------------------------------------------------
(* How the receiver moves from position q to r: it stays, while the sender *)
(* goes on or an interface is opened or stopped, or it reads the byte      *)
(* at q.                                                                   *)
Moves(q, r) ==
  \/ /\ r = q /\ UNCHANGED delivered
     /\ UNCHANGED sent \/ \E f \in Frames : sent' = Append(sent, f)
     /\ UNCHANGED rx_state \/ (rx_state' = "IDLE" /\ stops' = stops + 1)
  \/ /\ r = After(sent, q) /\ q.k <= Len(sent) /\ UNCHANGED sent
     /\ \/ UNCHANGED delivered /\ Reading(r)'
        \/ /\ UNCHANGED delivered /\ rx_state' = "IDLE"
           /\ AllocMayFail \/ (rx_state = "IDLE" /\ q.field # "HEADER")
        \/ /\ q.field = "FOOTER" /\ rx_state' = "IDLE"
           /\ delivered' = Append(delivered, sent[q.k])

(* The positions of the bytes on the line, the sender and the receiver. *)
Path(p) == Chain(p) /\ TxAt(p[Len(line)]) /\ RxAt(p[0])

(* A step that leaves the receiver and the line alone keeps a path. *)
LEMMA PathSame ==
  ASSUME NEW p, Path(p), UNCHANGED <<line, sent, tx_state, tx_skb, tx_current,
                                     tx_escape_next, delivered>>,
         UNCHANGED rxVars \/ rx_state' = "IDLE"
  PROVE  Path(p)'
<1>1. Chain(p)'
  BY ChainSame DEF Path
<1>2. TxAt(p[Len(line)])'
  BY DEF Path, TxAt, Content
<1>3. RxAt(p[0])'
  BY DEF Path, RxAt, Reading, rxVars, State
<1>4. QED
  BY <1>1, <1>2, <1>3 DEF Path

(* The sender accepts a frame. *)
LEMMA PathSend ==
  ASSUME LinkTypes, NEW p, Path(p), NEW f \in Frames, uartnet_start_xmit(f)
  PROVE  Path(p)' /\ Moves(p[0], p[0])
<1>1. UNCHANGED rxVars /\ UNCHANGED line
  BY DEF uartnet_start_xmit
<1>2. UNCHANGED delivered /\ UNCHANGED rx_state
  BY <1>1 DEF rxVars
<1>3. sent \in Seq(Frames) /\ line \in Seq(Byte) /\ Len(sent) \in Nat /\ Len(line) \in Nat
  BY DEF LinkTypes
<1>4. CASE tx_state # "IDLE"
  <2>1. UNCHANGED <<sent, tx_state, tx_skb, tx_current, tx_escape_next>>
    BY <1>4 DEF uartnet_start_xmit, txPriv
  <2>2. Path(p)'
    BY <1>1, <1>2, <2>1, PathSame
  <2>3. QED
    BY <1>2, <2>1, <2>2 DEF Moves
<1>5. CASE tx_state = "IDLE"
  <2>1. /\ sent' = Append(sent, f) /\ tx_state' = "HEADER" /\ tx_skb' = f
        /\ tx_current' = LengthBytes(f) /\ tx_escape_next' = FALSE
    BY <1>5 DEF uartnet_start_xmit
  <2>2. Len(sent') = Len(sent) + 1 /\ sent'[Len(sent) + 1] = f
    BY <1>3, <2>1
  <2>3. Chain(p)'
    BY <1>1, <1>3, <2>1, ChainSend DEF Path
  <2>4. PICK q : q = p[Len(line)]
    OBVIOUS
  <2>5. InStream(sent, q) /\ TxAt(q)
    BY <1>3, <2>4 DEF Path, Chain
  <2>6. q.field # "IDLE"
    BY <2>5 DEF InStream, Pos, Fields
  <2>7. q = At(Len(sent) + 1, "HEADER", 1, FALSE)
    BY <1>5, <2>5, <2>6 DEF TxAt
  <2>8. q.k = Len(sent) + 1 /\ q.field = "HEADER" /\ q.i = 1 /\ q.esc = FALSE
    BY <2>7 DEF At
  <2>9. TxAt(q)'
    BY <2>1, <2>2, <2>8 DEF TxAt
  <2>10. TxAt(p[Len(line)])'
    BY <1>1, <2>4, <2>9
  <2>11. InStream(sent, p[0])
    BY <1>3 DEF Path, Chain
  <2>12. p[0].field # "HEADER" => sent'[p[0].k] = sent[p[0].k]
    BY <1>3, <2>1, <2>11, AppendFacts DEF InStream
  <2>13. RxAt(p[0])'
    BY <1>1, <2>12 DEF Path, RxAt, Reading, rxVars, State
  <2>14. QED
    BY <1>2, <2>1, <2>3, <2>10, <2>13 DEF Path, Moves
<1>6. QED
  BY <1>4, <1>5

(* The sender writes a byte. *)
LEMMA PathWrite ==
  ASSUME LinkTypes, NEW p, Path(p), uartnet_tx_step
  PROVE  \E pp : Path(pp)' /\ Moves(p[0], pp[0])
<1>1. sent \in Seq(Frames) /\ line \in Seq(Byte) /\ Len(line) \in Nat
  BY DEF LinkTypes
<1>2. PICK q : q = p[Len(line)]
  OBVIOUS
<1>3. PICK r : r = After(sent, q)
  OBVIOUS
<1>4. InStream(sent, q) /\ TxAt(q)
  BY <1>1, <1>2 DEF Path, Chain
<1>5. /\ line' = Append(line, Wire(sent, q)) /\ UNCHANGED sent
      /\ q.k <= Len(sent) /\ TxAt(r)'
  BY <1>3, <1>4, HeaderStep, FieldStep, FooterStep DEF uartnet_tx_step
<1>6. PICK pp : Chain(pp)' /\ pp[Len(line')] = r /\ pp[0] = p[0]
  BY <1>1, <1>2, <1>3, <1>5, ChainWrite DEF Path
<1>7. UNCHANGED rxVars
  BY DEF uartnet_tx_step, TxHeader, TxLength, TxData, TxFooter, WriteEscaped, WriteDR
<1>8. RxAt(pp[0])'
  BY <1>5, <1>6, <1>7 DEF Path, RxAt, Reading, rxVars, State
<1>9. TxAt(pp[Len(line)])'
  BY <1>5, <1>6
<1>10. Moves(p[0], pp[0])
  BY <1>5, <1>6, <1>7 DEF Moves, rxVars
<1>11. QED
  BY <1>6, <1>8, <1>9, <1>10 DEF Path

(* The receiver reads a byte. *)
LEMMA PathRead ==
  ASSUME RxInv, RxInv', LinkTypes, NoEscapeChar, LengthFits, NEW p, Path(p), LinkReceive
  PROVE  \E pp : Path(pp)' /\ Moves(p[0], pp[0])
<1>1. /\ sent \in Seq(Frames) /\ line \in Seq(Byte) /\ Len(line) \in Nat
  BY DEF LinkTypes
<1>2. /\ line # <<>> /\ uartnet_poll_byte(Head(line)) /\ line' = Tail(line)
      /\ UNCHANGED txVars /\ UNCHANGED sent
  BY DEF LinkReceive
<1>3. PICK q : q = p[0]
  OBVIOUS
<1>4. PICK r : r = After(sent, q)
  OBVIOUS
<1>5. /\ Head(line) = Wire(sent, q) /\ q.k <= Len(sent)
      /\ \E pp : Chain(pp)' /\ pp[Len(line')] = p[Len(line)] /\ pp[0] = r
  BY <1>1, <1>2, <1>3, <1>4, ChainRead DEF Path
<1>6. PICK pp : Chain(pp)' /\ pp[Len(line')] = p[Len(line)] /\ pp[0] = r
  BY <1>5
<1>7. InStream(sent, q) /\ RxAt(q)
  BY <1>1, <1>3 DEF Path, Chain
<1>8. \/ UNCHANGED delivered /\ Reading(r)'
      \/ /\ UNCHANGED delivered /\ rx_state' = "IDLE"
         /\ AllocMayFail \/ (rx_state = "IDLE" /\ q.field # "HEADER")
      \/ /\ q.field = "FOOTER" /\ rx_state' = "IDLE"
         /\ delivered' = Append(delivered, sent[q.k])
  BY <1>1, <1>2, <1>4, <1>5, <1>7, ReadStep
<1>9. RxAt(r)'
  BY <1>8 DEF RxAt
<1>10. TxAt(pp[Len(line)])'
  <2>1. TxAt(p[Len(line)]) /\ pp[Len(line')] = p[Len(line)]
    BY <1>6 DEF Path
  <2>2. UNCHANGED <<tx_state, tx_skb, tx_current, tx_escape_next, sent>>
    BY <1>2 DEF txVars, txPriv
  <2>3. QED
    BY <2>1, <2>2 DEF TxAt, Content
<1>11. Moves(q, r)
  BY <1>2, <1>4, <1>5, <1>8 DEF Moves
<1>12. QED
  BY <1>3, <1>6, <1>9, <1>10, <1>11 DEF Path

(* Every step of an undamaged link. *)
LEMMA PathStep ==
  ASSUME RxInv, RxInv', LinkTypes, NoEscapeChar, LengthFits, lost' + cut' = 0,
         [LinkNext]_linkVars, NEW p, Path(p)
  PROVE  \E pp : Path(pp)' /\ Moves(p[0], pp[0])
<1>1. ~LoseByte /\ (TxStop => tx_state = "IDLE")
  BY DamageStays
<1>2. ASSUME UNCHANGED <<line, sent, tx_state, tx_skb, tx_current, tx_escape_next>>,
             \/ UNCHANGED rxVars
             \/ UNCHANGED delivered /\ rx_state' = "IDLE"
                /\ (rx_state = "IDLE" \/ stops' = stops + 1)
      PROVE  \E pp : Path(pp)' /\ Moves(p[0], pp[0])
  <2>1. UNCHANGED delivered /\ (UNCHANGED rx_state \/ (rx_state' = "IDLE" /\ stops' = stops + 1))
    BY <1>2 DEF rxVars
  <2>2. Path(p)'
    BY <1>2, <2>1, PathSame
  <2>3. Moves(p[0], p[0])
    BY <1>2, <2>1 DEF Moves
  <2>4. QED
    BY <2>2, <2>3
<1>3. ASSUME NEW f \in Frames, uartnet_start_xmit(f)
      PROVE  \E pp : Path(pp)' /\ Moves(p[0], pp[0])
  BY <1>3, PathSend
<1>4. CASE uartnet_tx_step
  BY <1>4, PathWrite
<1>5. CASE LinkReceive
  BY <1>5, PathRead
<1>6. ASSUME TxOpen \/ TxStop PROVE \E pp : Path(pp)' /\ Moves(p[0], pp[0])
  <2>1. tx_state = "IDLE" /\ tx_state' = "IDLE"
    BY <1>1, <1>6 DEF TxOpen, TxStop, LinkTypes
  <2>2. UNCHANGED <<line, sent, delivered, rx_state>> /\ UNCHANGED rxVars
    BY <1>6 DEF TxOpen, TxStop, rxVars
  <2>3. InStream(sent, p[Len(line)]) /\ line \in Seq(Byte)
    BY DEF Path, Chain, LinkTypes
  <2>4. p[Len(line)].field # "IDLE"
    BY <2>3 DEF InStream, Pos, Fields
  <2>5. TxAt(p[Len(line)])'
    BY <2>1, <2>2, <2>4 DEF Path, TxAt
  <2>6. Chain(p)'
    BY <2>2, ChainSame DEF Path
  <2>7. RxAt(p[0])'
    BY <2>2 DEF Path, RxAt, Reading, rxVars, State
  <2>8. Moves(p[0], p[0])
    BY <2>2 DEF Moves
  <2>9. QED
    BY <2>5, <2>6, <2>7, <2>8 DEF Path
<1>7. ASSUME LinkRxOpen PROVE \E pp : Path(pp)' /\ Moves(p[0], pp[0])
  <2>1. rx_state = "IDLE"
    BY <1>7, Parts DEF LinkRxOpen, RxOpen, DownIdle
  <2>2. /\ UNCHANGED <<line, sent, tx_state, tx_skb, tx_current, tx_escape_next>>
        /\ UNCHANGED delivered /\ rx_state' = "IDLE"
    BY <1>7 DEF LinkRxOpen, RxOpen, txVars, txPriv
  <2>3. QED
    BY <1>2, <2>1, <2>2
<1>8. ASSUME LinkRxStop PROVE \E pp : Path(pp)' /\ Moves(p[0], pp[0])
  <2>1. /\ UNCHANGED <<line, sent, tx_state, tx_skb, tx_current, tx_escape_next>>
        /\ UNCHANGED delivered /\ rx_state' = "IDLE" /\ stops' = stops + 1
    BY <1>8 DEF LinkRxStop, RxStop, txVars, txPriv
  <2>2. QED
    BY <1>2, <2>1
<1>9. ASSUME UNCHANGED linkVars PROVE \E pp : Path(pp)' /\ Moves(p[0], pp[0])
  BY <1>2, <1>9 DEF linkVars, txVars, txPriv
<1>10. QED
  BY <1>1, <1>3, <1>4, <1>5, <1>6, <1>7, <1>8, <1>9 DEF LinkNext

(* What has been received stays a subsequence of what has been sent. *)
LEMMA ReceivedStep ==
  ASSUME LinkTypes, delivered \in Seq(Seq(Byte)),
         NEW q, InStream(sent, q), Received(q), NEW r, Moves(q, r)
  PROVE  Received(r)'
<1>1. PICK m \in [1..Len(delivered) -> 1..Len(sent)] :
         /\ \A i, j \in 1..Len(delivered) : i < j => m[i] < m[j]
         /\ \A i \in 1..Len(delivered) : delivered[i] = sent[m[i]] /\ m[i] < q.k
  BY DEF Received
<1>2. /\ sent \in Seq(Frames) /\ Len(sent) \in Nat /\ Len(delivered) \in Nat
      /\ q.k \in Nat /\ q.k >= 1
  BY DEF LinkTypes, InStream, Pos
<1>3. CASE UNCHANGED delivered
  <2>1. r.k \in Nat /\ r.k >= q.k
    BY <1>2, AfterFacts DEF Moves
  <2>2. Len(sent') \in Nat /\ Len(sent') >= Len(sent) /\ \A i \in 1..Len(sent) : sent'[i] = sent[i]
    <3>1. CASE UNCHANGED sent
      BY <1>2, <3>1
    <3>2. ASSUME NEW f \in Frames, sent' = Append(sent, f)
          PROVE  /\ Len(sent') = Len(sent) + 1
                 /\ \A i \in 1..Len(sent) : sent'[i] = sent[i]
      BY <1>2, <3>2
    <3>3. QED
      BY <1>2, <3>1, <3>2 DEF Moves
  <2>3. m \in [1..Len(delivered) -> 1..Len(sent')]
    BY <1>1, <1>2, <2>2
  <2>4. \A i \in 1..Len(delivered) : delivered[i] = sent'[m[i]] /\ m[i] < r.k
    <3>1. TAKE i \in 1..Len(delivered)
    <3>2. m[i] \in 1..Len(sent) /\ delivered[i] = sent[m[i]] /\ m[i] < q.k
      BY <1>1
    <3>3. QED
      BY <1>2, <2>1, <2>2, <3>2
  <2>5. QED
    BY <1>1, <1>3, <2>3, <2>4 DEF Received
<1>4. CASE /\ r = After(sent, q) /\ q.k <= Len(sent) /\ UNCHANGED sent
           /\ q.field = "FOOTER" /\ delivered' = Append(delivered, sent[q.k])
  <2>1. r.k = q.k + 1
    BY <1>2, <1>4, AfterFacts
  <2>2. /\ Len(delivered') = Len(delivered) + 1
        /\ delivered'[Len(delivered) + 1] = sent[q.k]
        /\ \A i \in 1..Len(delivered) : delivered'[i] = delivered[i]
    <3>1. sent[q.k] \in Seq(Byte)
      BY <1>2, <1>4, FrameFacts
    <3>2. QED
      BY <1>2, <1>4, <3>1
  <2>3. PICK mm : mm = [i \in 1..(Len(delivered) + 1) |->
                          IF i = Len(delivered) + 1 THEN q.k ELSE m[i]]
    OBVIOUS
  <2>4. /\ mm \in [1..(Len(delivered) + 1) -> 1..Len(sent)]
        /\ mm[Len(delivered) + 1] = q.k
        /\ \A i \in 1..Len(delivered) : mm[i] = m[i]
    BY <1>1, <1>2, <1>4, <2>3
  <2>5. ASSUME NEW i \in 1..(Len(delivered) + 1), NEW j \in 1..(Len(delivered) + 1), i < j
        PROVE  mm[i] < mm[j]
    <3>1. i \in 1..Len(delivered)
      BY <1>2, <2>5
    <3>2. CASE j = Len(delivered) + 1
      BY <1>1, <2>4, <3>1, <3>2
    <3>3. CASE j \in 1..Len(delivered)
      BY <1>1, <2>4, <2>5, <3>1, <3>3
    <3>4. QED
      BY <1>2, <3>2, <3>3
  <2>6. ASSUME NEW i \in 1..(Len(delivered) + 1)
        PROVE  delivered'[i] = sent[mm[i]] /\ mm[i] < r.k
    <3>1. CASE i = Len(delivered) + 1
      BY <1>2, <2>1, <2>2, <2>4, <3>1
    <3>2. CASE i \in 1..Len(delivered)
      <4>1. m[i] < q.k /\ m[i] \in Nat /\ delivered[i] = sent[m[i]]
        BY <1>1, <1>2, <3>2
      <4>2. QED
        BY <1>2, <2>1, <2>2, <2>4, <3>2, <4>1
    <3>3. QED
      BY <1>2, <3>1, <3>2
  <2>7. mm \in [1..Len(delivered') -> 1..Len(sent')]
    BY <1>4, <2>2, <2>4
  <2>8. \A i, j \in 1..Len(delivered') : i < j => mm[i] < mm[j]
    BY <2>2, <2>5
  <2>9. \A i \in 1..Len(delivered') : delivered'[i] = sent'[mm[i]] /\ mm[i] < r.k
    BY <1>4, <2>2, <2>6
  <2>10. QED
    BY <2>7, <2>8, <2>9 DEF Received
<1>5. QED
  BY <1>3, <1>4 DEF Moves

(* The receiver's invariant, the types, and agreement while nothing is     *)
(* lost, hold at first and after every step.                               *)
LEMMA LinkInitInv == LinkInit => LinkInv
<1> SUFFICES ASSUME LinkInit PROVE LinkInv
  OBVIOUS
<1>1. RxInv
  BY RxInitInv DEF LinkInit
<1>2. /\ tx_up = FALSE /\ tx_state = "IDLE" /\ tx_current = <<>> /\ tx_escape_next = FALSE
      /\ line = <<>> /\ sent = <<>> /\ lost = 0 /\ cut = 0 /\ stops = 0
      /\ rx_state = "IDLE" /\ delivered = <<>>
  BY DEF LinkInit, RxInit
<1>3. LinkTypes
  <2>1. tx_current \in Seq(Byte) /\ line \in Seq(Byte) /\ sent \in Seq(Frames)
    BY <1>2
  <2>2. QED
    BY <1>2, <2>1 DEF LinkTypes, TxStates
<1>4. PICK q : q = At(1, "HEADER", 1, FALSE)
  OBVIOUS
<1>5. PICK p : p = [j \in 0..0 |-> q]
  OBVIOUS
<1>6. q \in Pos /\ q.k = 1 /\ q.field = "HEADER" /\ q.i = 1 /\ q.esc = FALSE
  BY <1>4 DEF At, Pos, Fields
<1>7. Len(line) = 0 /\ Len(sent) = 0 /\ Len(delivered) = 0
  BY <1>2
<1>8. InStream(sent, q)
  BY <1>6, <1>7 DEF InStream
<1>9. Chain(p) /\ p[0] = q
  BY <1>5, <1>7, <1>8 DEF Chain
<1>10. TxAt(p[Len(line)]) /\ RxAt(p[0])
  <2>1. Len(sent) + 1 = 1 /\ p[Len(line)] = q
    BY <1>7, <1>9
  <2>2. QED
    BY <1>2, <1>4, <2>1 DEF TxAt, RxAt
<1>11. Received(p[0])
  <2>1. PICK m : m = [i \in 1..0 |-> 1]
    OBVIOUS
  <2>2. m \in [1..Len(delivered) -> 1..Len(sent)]
    BY <1>7, <2>1
  <2>3. \A i \in 1..Len(delivered) : FALSE
    BY <1>7
  <2>4. QED
    BY <2>2, <2>3 DEF Received
<1>12. InStep
  BY <1>9, <1>10, <1>11 DEF InStep
<1>13. QED
  BY <1>1, <1>3, <1>12 DEF LinkInv

(* Every step of the link keeps the invariant. *)
LEMMA LinkInvStep ==
  ASSUME NoEscapeChar, LengthFits, LinkInv, [LinkNext]_linkVars
  PROVE  LinkInv'
<1>1. RxInv /\ LinkTypes /\ line \in Seq(Byte)
  BY DEF LinkInv, LinkTypes
<1>2. RxInv' /\ LinkTypes'
  BY <1>1, LinkRxStep, LinkTypesStep
<1>3. ASSUME lost' + cut' = 0 PROVE InStep'
  <2>1. PICK p : Path(p) /\ Received(p[0])
    BY <1>1, <1>3, DamageStays DEF LinkInv, InStep, Path
  <2>2. PICK pp : Path(pp)' /\ Moves(p[0], pp[0])
    BY <1>1, <1>2, <1>3, <2>1, PathStep
  <2>3. InStream(sent, p[0]) /\ delivered \in Seq(Seq(Byte))
    BY <1>1, <2>1, Parts DEF Path, Chain, ResultType
  <2>4. Received(pp[0])'
    BY <1>1, <2>1, <2>2, <2>3, ReceivedStep
  <2>5. QED
    BY <2>2, <2>4 DEF InStep, Path
<1>4. QED
  BY <1>2, <1>3 DEF LinkInv

(* The link invariant. *)
THEOREM LinkInvariance ==
  ASSUME NoEscapeChar, LengthFits
  PROVE  LinkSpec => []LinkInv
  BY LinkInitInv, LinkInvStep, PTL DEF LinkSpec

(* The deframer accepts only complete frames. *)
THEOREM LinkDeliveredWereSent ==
  ASSUME NoEscapeChar, LengthFits
  PROVE  LinkSpec => []DeliveredWereSent
<1>1. LinkInv => DeliveredWereSent
  BY DEF LinkInv, InStep, Received, DeliveredWereSent
<1>2. QED
  BY <1>1, LinkInvariance, PTL
-----------------------------------------------------------------------------
(* A link that loses nothing: no byte is lost, no interface stopped, and   *)
(* buffers can be allocated.                                               *)
Reliable == MaxLost = 0 /\ MaxStops = 0 /\ ~AllocMayFail

(* The receiver is in step, and has delivered exactly the frames before    *)
(* the one q belongs to.                                                   *)
Exactly(q) ==
  /\ rx_state = "IDLE" => q.field = "HEADER"
  /\ Len(delivered) = q.k - 1
  /\ \A i \in 1..Len(delivered) : delivered[i] = sent[i]

ExactInv ==
  /\ RxInv /\ LinkTypes
  /\ lost = 0 /\ cut = 0 /\ stops = 0
  /\ \E p : Path(p) /\ Exactly(p[0])

(* Nothing is damaged. *)
LEMMA NoDamage ==
  ASSUME Reliable, LinkTypes, lost = 0, cut = 0, stops = 0, [LinkNext]_linkVars
  PROVE  lost' = 0 /\ cut' = 0 /\ stops' = 0
<1>1. MaxLost = 0 /\ MaxStops = 0
  BY DEF Reliable
<1>2. ~LoseByte /\ ~TxStop /\ ~LinkRxStop
  BY <1>1 DEF LoseByte, TxStop, LinkRxStop
<1>3. UNCHANGED <<lost, cut, stops>>
  BY <1>2 DEF LinkNext, linkVars, uartnet_start_xmit, uartnet_tx_step, TxHeader, TxLength,
         TxData, TxFooter, WriteEscaped, WriteDR, TxOpen, LinkReceive, LinkRxOpen
<1>4. QED
  BY <1>3

(* A step of the receiver is a step of the frame channel.                  *)
LEMMA ExactStep ==
  ASSUME Reliable, LinkTypes, delivered \in Seq(Seq(Byte)), stops' = stops,
         NEW q, InStream(sent, q), RxAt(q), Exactly(q), NEW r, Moves(q, r)
  PROVE  /\ Exactly(r)'
         /\ [Channel!ChanNext]_<<sent, delivered>>
<1>1. /\ sent \in Seq(Frames) /\ Len(sent) \in Nat /\ Len(delivered) \in Nat
      /\ q.k \in Nat /\ q.k >= 1 /\ Len(delivered) = q.k - 1 /\ stops \in Nat
      /\ q.k <= Len(sent) + 1
  BY DEF LinkTypes, InStream, Pos, Exactly
<1>2. CASE /\ r = q /\ UNCHANGED delivered
           /\ UNCHANGED sent \/ \E f \in Frames : sent' = Append(sent, f)
           /\ UNCHANGED rx_state \/ (rx_state' = "IDLE" /\ stops' = stops + 1)
  <2>1. UNCHANGED rx_state
    BY <1>1, <1>2
  <2>2. \A i \in 1..Len(sent) : sent'[i] = sent[i]
    <3>1. ASSUME NEW f \in Frames, sent' = Append(sent, f)
          PROVE  \A i \in 1..Len(sent) : sent'[i] = sent[i]
      BY <1>1, <3>1
    <3>2. QED
      BY <1>2, <3>1
  <2>3. \A i \in 1..Len(delivered) : i \in 1..Len(sent)
    BY <1>1
  <2>4. Exactly(r)'
    BY <1>2, <2>1, <2>2, <2>3 DEF Exactly
  <2>5. [Channel!ChanNext]_<<sent, delivered>>
    BY <1>2 DEF Channel!ChanNext, Channel!Send
  <2>6. QED
    BY <2>4, <2>5
<1>3. CASE /\ r = After(sent, q) /\ q.k <= Len(sent) /\ UNCHANGED sent
           /\ UNCHANGED delivered /\ Reading(r)'
  <2>1. rx_state' # "IDLE" /\ r.field \in {"LENGTH", "DATA", "FOOTER"}
    BY <1>3 DEF Reading
  <2>2. q.field # "FOOTER"
    <3>1. SUFFICES ASSUME q.field = "FOOTER" PROVE FALSE
      OBVIOUS
    <3>2. r = At(q.k + 1, "HEADER", 1, FALSE)
      BY <1>3, <3>1 DEF After
    <3>3. r.field = "HEADER"
      BY <3>2 DEF At
    <3>4. QED
      BY <2>1, <3>3
  <2>3. r.k = q.k
    BY <1>1, <1>3, <2>2, AfterFacts
  <2>4. Exactly(r)'
    BY <1>3, <2>1, <2>3 DEF Exactly
  <2>5. QED
    BY <1>3, <2>4
<1>4. CASE /\ r = After(sent, q) /\ UNCHANGED sent
           /\ q.field = "FOOTER" /\ q.k <= Len(sent)
           /\ delivered' = Append(delivered, sent[q.k])
  <2>1. r.k = q.k + 1
    BY <1>1, <1>4, AfterFacts
  <2>2. r = At(q.k + 1, "HEADER", 1, FALSE)
    BY <1>4 DEF After
  <2>3. r.field = "HEADER"
    BY <2>2 DEF At
  <2>4. sent[q.k] \in Seq(Byte)
    BY <1>1, <1>4, FrameFacts
  <2>5. /\ Len(delivered') = Len(delivered) + 1
        /\ delivered'[Len(delivered) + 1] = sent[q.k]
        /\ \A i \in 1..Len(delivered) : delivered'[i] = delivered[i]
    BY <1>1, <1>4, <2>4
  <2>6. q.k = Len(delivered) + 1 /\ Len(delivered') = r.k - 1
    BY <1>1, <2>1, <2>5
  <2>7. \A i \in 1..Len(delivered') : delivered'[i] = sent'[i]
    <3>1. TAKE i \in 1..Len(delivered')
    <3>2. CASE i = Len(delivered) + 1
      BY <1>4, <2>5, <2>6, <3>2
    <3>3. CASE i \in 1..Len(delivered)
      BY <1>4, <2>5, <3>3 DEF Exactly
    <3>4. QED
      BY <1>1, <2>5, <3>2, <3>3
  <2>8. Exactly(r)'
    BY <2>3, <2>6, <2>7 DEF Exactly
  <2>9. Channel!Deliver
    BY <1>1, <1>4, <2>6 DEF Channel!Deliver
  <2>10. QED
    BY <2>8, <2>9 DEF Channel!ChanNext
<1>5. ~AllocMayFail /\ ~(rx_state = "IDLE" /\ q.field # "HEADER")
  BY DEF Reliable, Exactly
<1>6. QED
  BY <1>2, <1>3, <1>4, <1>5 DEF Moves

(* The link refines the frame channel: every step of it is a step of the   *)
(* channel or leaves the channel alone.                                    *)
LEMMA ExactInvStep ==
  ASSUME Reliable, NoEscapeChar, LengthFits, ExactInv, [LinkNext]_linkVars
  PROVE  ExactInv' /\ [Channel!ChanNext]_<<sent, delivered>>
<1>1. RxInv /\ LinkTypes /\ line \in Seq(Byte) /\ lost = 0 /\ cut = 0 /\ stops = 0
  BY DEF ExactInv, LinkTypes
<1>2. RxInv' /\ LinkTypes' /\ lost' = 0 /\ cut' = 0 /\ stops' = 0
  BY <1>1, LinkRxStep, LinkTypesStep, NoDamage
<1>3. PICK p : Path(p) /\ Exactly(p[0])
  BY DEF ExactInv
<1>4. lost' + cut' = 0
  BY <1>2
<1>5. PICK pp : Path(pp)' /\ Moves(p[0], pp[0])
  BY <1>1, <1>2, <1>3, <1>4, PathStep
<1>6. InStream(sent, p[0]) /\ RxAt(p[0]) /\ delivered \in Seq(Seq(Byte))
  BY <1>1, <1>3, Parts DEF Path, Chain, ResultType
<1>7. Exactly(pp[0])' /\ [Channel!ChanNext]_<<sent, delivered>>
  BY <1>1, <1>2, <1>3, <1>5, <1>6, ExactStep
<1>8. QED
  BY <1>2, <1>5, <1>7 DEF ExactInv

(* At first nothing has been sent or delivered. *)
LEMMA ExactInit == LinkInit => ExactInv /\ Channel!ChanInit
<1> SUFFICES ASSUME LinkInit PROVE ExactInv /\ Channel!ChanInit
  OBVIOUS
<1>1. /\ rx_state = "IDLE" /\ line = <<>> /\ sent = <<>> /\ delivered = <<>>
      /\ lost = 0 /\ cut = 0 /\ stops = 0 /\ tx_state = "IDLE"
  BY DEF LinkInit, RxInit
<1>2. RxInv /\ LinkTypes /\ InStep
  BY <1>1, LinkInitInv DEF LinkInv
<1>3. PICK p : Path(p)
  BY <1>2 DEF InStep, Path
<1>4. Len(line) = 0 /\ Len(sent) = 0 /\ Len(delivered) = 0
  BY <1>1
<1>5. InStream(sent, p[0]) /\ TxAt(p[0])
  BY <1>3, <1>4 DEF Path, Chain
<1>6. p[0].k = 1 /\ p[0].field = "HEADER"
  BY <1>4, <1>5 DEF InStream
<1>7. Exactly(p[0])
  BY <1>4, <1>6 DEF Exactly
<1>8. QED
  BY <1>1, <1>2, <1>3, <1>7 DEF ExactInv, Channel!ChanInit

(* Over a reliable line the stacks see a frame channel: every frame        *)
(* without an escape character comes out unchanged, in order and at most   *)
(* once.  (That it does come out is ChannelSpec's liveness half.)          *)
THEOREM LinkRefinesChannel ==
  ASSUME Reliable, NoEscapeChar, LengthFits
  PROVE  LinkSpec => Channel!ChanSafe
<1>1. ExactInv /\ [LinkNext]_linkVars => ExactInv' /\ [Channel!ChanNext]_<<sent, delivered>>
  BY ExactInvStep
<1>2. QED
  BY <1>1, ExactInit, PTL DEF LinkSpec, Channel!ChanSafe, Channel!chanVars

-----------------------------------------------------------------------------
(* The damage of lost bytes and stops. *)

(* What one lost byte or one cut frame may cost, and the frames that have  *)
(* been paid for when x of them have happened.                             *)
Cost == 2 + MaxLen \div MinWire
Bill(x) == stats.dropped + aborted + x * Cost

(* The receiver expects the byte at q. *)
Aligned(q) == (rx_state = "IDLE" /\ q.field = "HEADER") \/ Reading(q)

(* How many more bytes, escapes undone, the receiver may take for the rest *)
(* of its frame when the byte at q comes next.  A header taken for a       *)
(* length byte (170, or 138 if the receiver undoes an escape) makes the    *)
(* length illegal.                                                         *)
Awaited(q) ==
  IF State = "END" THEN 1
  ELSE IF State = "DATA" THEN rx_frame_length - rx_data_received + 1
  ELSE IF rx_length_index = 1
    THEN IF rx_length_bytes[0] >= 138 \/ (q.field = "HEADER" /\ MaxLen < 138)
           THEN 1 ELSE MaxLen + 2
  ELSE IF q.field = "HEADER" THEN 2 ELSE MaxLen + 3

(* How many bytes the frame of q holds for it at least, from q on.  An     *)
(* escape the receiver undoes at the wrong byte may hide all but the last. *)
Supplied(q) ==
  IF q.field = "HEADER" THEN MinWire
  ELSE IF q.field = "FOOTER" \/ (rx_state = "ESCAPE" /\ ~q.esc) THEN 1
  ELSE IF q.field = "LENGTH" THEN MinWire - q.i ELSE 2

(* The receiver has lost the frame boundary: the frame of q counts as      *)
(* missing, and so does every frame that fits into what is awaited.        *)
Astray(q, x) ==
  IF rx_state = "IDLE" THEN q.k - Len(delivered) <= Bill(x)
  ELSE MinWire * (q.k - Len(delivered)) + Awaited(q) - Supplied(q) <= MinWire * Bill(x)

(* The frames before q that were not delivered are paid for by x events.   *)
Paid(q, x) ==
  \/ Aligned(q) /\ q.k - 1 - Len(delivered) <= Bill(x)
  \/ Astray(q, x)

(* b may follow where a was due, with g events in between: one lost byte,  *)
(* or one frame cut off, or several of them.                               *)
Ahead(s, a, b, g) ==
  /\ g = 0 => b = a
  /\ g = 1 => b = After(s, a) \/ b.k = a.k + 1
  /\ g >= 1 => b.k \in a.k..(a.k + g) /\ (b.k = a.k + g => b.field = "HEADER")

(* The lengths for which the bound holds.  138 is the header as the        *)
(* receiver sees it when it undoes an escape (0xAA ^ 0x20), so below it a  *)
(* header is never part of a legal length and below 138 * 256 never its    *)
(* high byte.  As its low byte it may be: then a frame cut off in front of *)
(* the header costs one frame more if MaxLen is 4 modulo the 5 bytes of    *)
(* the shortest frame.  (With MaxLen = 1194 = 4 * 256 + 170 a frame cut    *)
(* after a length byte 4 swallows 3 + MaxLen \div 5 frames.)  The driver's *)
(* MaxLen, 270, is short in this sense.                                    *)
ShortFrames == MaxLen < 138 * 256 /\ (MaxLen < 138 \/ MaxLen % MinWire # MinWire - 1)

(* One event pays for all that the receiver may await, and a frame more.   *)
LEMMA CostFacts ==
  ASSUME ShortFrames
  PROVE  /\ MaxLen \in Nat /\ Cost \in Nat /\ Cost >= 2
         /\ 5 * Cost >= MaxLen + 6
         /\ MaxLen >= 138 => 5 * Cost >= MaxLen + 7
         /\ LengthFits
<1>1. MaxLen \in Nat
  BY RxAssumption DEF MaxLen
<1>2. PICK m \in Nat : m = MaxLen
  BY <1>1
<1>3. PICK h \in Nat : h = m \div 5
  OBVIOUS
<1>4. m % 5 \in 0..4 /\ m % 5 = m - 5 * h
  BY <1>3
<1>5. Cost = 2 + h /\ (m < 138 \/ m % 5 # 4)
  BY <1>2, <1>3 DEF Cost, MinWire, ShortFrames
<1>6. LengthFits
  BY <1>1 DEF ShortFrames, LengthFits
<1>7. QED
  BY <1>2, <1>4, <1>5, <1>6

(* The receiver's counters are natural numbers.                            *)
LEMMA CountType ==
  ASSUME RxInv
  PROVE  stats.dropped \in Nat /\ aborted \in Nat /\ Len(delivered) \in Nat
  BY Parts DEF ResultType, Stats

(* Two events or more pay twice the cost of one, and a frame for each that *)
(* follows the second.                                                     *)
LEMMA TwoOrMore ==
  ASSUME NEW g \in Nat, NEW c \in Nat, g >= 2, c >= 2
  PROVE  g * c >= g + 2 * c - 2
<1>1. PICK h \in Nat : g = h + 2
  <2>1. g - 2 \in Nat /\ g = (g - 2) + 2
    OBVIOUS
  <2>2. QED
    BY <2>1
<1>2. PICK e \in Nat : c = e + 1
  <2>1. c - 1 \in Nat /\ c = (c - 1) + 1
    OBVIOUS
  <2>2. QED
    BY <2>1
<1>3. h * e \in Nat
  OBVIOUS
<1>4. g * c = h * e + h + 2 * e + 2
  BY <1>1, <1>2
<1>5. QED
  BY <1>1, <1>2, <1>3, <1>4

(* How the bill grows with the events.                                     *)
LEMMA BillFacts ==
  ASSUME ShortFrames, RxInv, NEW x \in Nat, NEW g \in Nat
  PROVE  /\ Bill(x) \in Nat /\ Bill(x + g) \in Nat
         /\ g = 1 => Bill(x + g) = Bill(x) + Cost
         /\ g >= 2 => Bill(x + g) >= Bill(x) + g + 2 * Cost - 2
<1>1. Cost \in Nat /\ Cost >= 2 /\ stats.dropped \in Nat /\ aborted \in Nat
  BY CostFacts, CountType
<1>2. PICK c \in Nat : c = Cost
  BY <1>1
<1>3. x * c \in Nat /\ g * c \in Nat /\ (x + g) * c = x * c + g * c
  OBVIOUS
<1>4. /\ Bill(x) = stats.dropped + aborted + x * c
      /\ Bill(x + g) = stats.dropped + aborted + (x + g) * c
  BY <1>2 DEF Bill
<1>5. g >= 2 => g * c >= g + 2 * c - 2
  BY <1>1, <1>2, TwoOrMore
<1>6. g = 1 => g * c = c
  OBVIOUS
<1>7. QED
  BY <1>1, <1>2, <1>3, <1>4, <1>5, <1>6

(* How much the receiver may await, in general and in front of a header.   *)
LEMMA AwaitedFacts ==
  ASSUME RxInv, rx_state # "IDLE", ShortFrames, NEW q
  PROVE  /\ Awaited(q) \in Int /\ Awaited(q) >= 1 /\ Awaited(q) <= MaxLen + 3
         /\ q.field = "HEADER" => Awaited(q) <= MaxLen + 2
         /\ q.field = "HEADER" /\ MaxLen < 138 => Awaited(q) <= MaxLen + 1 \/ Awaited(q) = 2
         /\ Awaited(q) = MaxLen + 3 => State = "LENGTH" /\ rx_length_index = 0
<1>1. State \in {"LENGTH", "DATA", "END"} /\ MaxLen \in Nat
  BY Parts, CostFacts DEF State, EscapeInv, ControlType, RxStates
<1>2. CASE State = "END"
  BY <1>1, <1>2 DEF Awaited
<1>3. CASE State = "DATA"
  <2>1. /\ rx_frame_length \in Nat /\ rx_data_received \in Nat
        /\ rx_data_received < rx_frame_length /\ rx_frame_length <= MaxLen
    BY <1>1, <1>3, Parts DEF BufferSafe, BufferType, U16
  <2>2. QED
    BY <1>1, <1>3, <2>1 DEF Awaited
<1>4. CASE State = "LENGTH"
  <2>1. rx_length_index \in {0, 1}
    BY <1>4, Parts DEF BufferSafe, LengthType
  <2>2. QED
    BY <1>1, <1>4, <2>1 DEF Awaited
<1>5. QED
  BY <1>1, <1>2, <1>3, <1>4

(* A frame supplies between one and five bytes; all five at its header.    *)
LEMMA SuppliedFacts ==
  ASSUME sent \in Seq(Frames), NEW q, InStream(sent, q)
  PROVE  /\ Supplied(q) \in Int /\ Supplied(q) >= 1 /\ Supplied(q) <= 5
         /\ q.field = "HEADER" => Supplied(q) = 5
         /\ q.field = "LENGTH" => q.i \in {1, 2}
<1>1. q.field = "LENGTH" => q.i \in {1, 2}
  <2>1. SUFFICES ASSUME q.field = "LENGTH" PROVE q.i \in {1, 2}
    OBVIOUS
  <2>2. q.i \in 1..Len(LengthBytes(sent[q.k])) /\ sent[q.k] \in Frames
    BY <2>1, ContentFacts
  <2>3. q.i \in 1..2
    BY <2>2, LengthBytesFacts
  <2>4. QED
    BY <2>3
<1>2. QED
  BY <1>1 DEF Supplied, MinWire

(* The high length byte of a frame of fewer than 138 bytes is 0, which is  *)
(* never escaped.                                                          *)
LEMMA ShortLength ==
  ASSUME NEW f \in Frames, MaxLen < 138
  PROVE  ~Special(LengthBytes(f)[1])
<1>1. Len(f) \in Nat /\ Len(f) < 138
  BY FrameFacts, RxAssumption DEF MaxLen
<1>2. LengthBytes(f)[1] = (Len(f) \div 256) % 256
  BY DEF LengthBytes
<1>3. LengthBytes(f)[1] = 0
  BY <1>1, <1>2
<1>4. QED
  BY <1>3 DEF Special, FRAME_HEADER, FRAME_FOOTER, ESCAPE_CHAR

(* The frames before q are paid for, but for one at most. *)
LEMMA PaidFacts ==
  ASSUME ShortFrames, RxInv, sent \in Seq(Frames), NEW q, InStream(sent, q),
         NEW x \in Nat, Paid(q, x)
  PROVE  /\ q.k - 1 - Len(delivered) <= Bill(x)
         /\ Astray(q, x) => q.k - Len(delivered) <= Bill(x)
<1>1. q.k \in Nat /\ Len(delivered) \in Nat /\ Bill(x) \in Nat
  BY CountType, BillFacts DEF InStream, Pos
<1>2. ASSUME Astray(q, x) PROVE q.k - Len(delivered) <= Bill(x)
  <2>1. CASE rx_state = "IDLE"
    BY <1>2, <2>1 DEF Astray
  <2>2. CASE rx_state # "IDLE"
    <3>1. /\ Awaited(q) \in Int /\ Awaited(q) >= 1
          /\ Supplied(q) \in Int /\ Supplied(q) <= 5
      BY <2>2, AwaitedFacts, SuppliedFacts
    <3>2. 5 * (q.k - Len(delivered)) + Awaited(q) - Supplied(q) <= 5 * Bill(x)
      BY <1>2, <2>2 DEF Astray, MinWire
    <3>3. QED
      BY <1>1, <3>1, <3>2
  <2>3. QED
    BY <2>1, <2>2
<1>3. QED
  BY <1>1, <1>2 DEF Paid

(* Bytes are missing at the receiver's position. *)
LEMMA PaidGap ==
  ASSUME ShortFrames, RxInv, sent \in Seq(Frames),
         NEW q, InStream(sent, q), NEW r, InStream(sent, r),
         NEW x \in Nat, NEW g \in Nat, Paid(q, x), Ahead(sent, q, r, g)
  PROVE  Paid(r, x + g)
<1>1. /\ q.k \in Nat /\ r.k \in Nat /\ Len(delivered) \in Nat
      /\ Bill(x) \in Nat /\ Bill(x + g) \in Nat
      /\ Cost \in Nat /\ Cost >= 2 /\ MaxLen \in Nat
      /\ 5 * Cost >= MaxLen + 6 /\ (MaxLen >= 138 => 5 * Cost >= MaxLen + 7)
      /\ q.k - 1 - Len(delivered) <= Bill(x)
  BY CountType, BillFacts, CostFacts, PaidFacts DEF InStream, Pos
<1>2. /\ g = 1 => Bill(x + g) = Bill(x) + Cost
      /\ g >= 2 => Bill(x + g) >= Bill(x) + g + 2 * Cost - 2
  BY BillFacts
<1>3. /\ Supplied(r) \in Int /\ Supplied(r) >= 1
      /\ r.field = "HEADER" => Supplied(r) = 5
  BY SuppliedFacts
<1>4. g >= 1 => r.k <= q.k + g /\ r.k >= q.k /\ (r.k = q.k + g => r.field = "HEADER")
  BY <1>1 DEF Ahead
<1>5. CASE g = 0
  <2>1. r = q /\ x + g = x
    BY <1>5 DEF Ahead
  <2>2. QED
    BY <2>1
<1>6. CASE g >= 1 /\ rx_state = "IDLE"
  <2>1. CASE r.field = "HEADER" /\ g = 1
    BY <1>1, <1>2, <1>4, <1>6, <2>1, SMTT(20) DEF Paid, Aligned
  <2>2. CASE r.field # "HEADER" /\ g = 1
    <3>1. r.k = q.k
      BY <1>1, <1>4, <2>2
    <3>2. QED
      BY <1>1, <1>2, <1>6, <2>2, <3>1 DEF Paid, Astray
  <2>3. CASE g >= 2
    <3>1. r.k - Len(delivered) <= Bill(x + g)
      BY <1>1, <1>2, <1>4, <2>3, SMTT(20)
    <3>2. QED
      BY <1>6, <3>1 DEF Paid, Astray
  <2>4. QED
    BY <1>6, <2>1, <2>2, <2>3
<1>7. CASE g >= 1 /\ rx_state # "IDLE"
  <2>1. /\ Awaited(r) \in Int /\ Awaited(r) <= MaxLen + 3
        /\ r.field = "HEADER" => Awaited(r) <= MaxLen + 2
        /\ r.field = "HEADER" /\ MaxLen < 138 => Awaited(r) <= MaxLen + 1 \/ Awaited(r) = 2
        /\ Awaited(r) = MaxLen + 3 => State = "LENGTH" /\ rx_length_index = 0
    BY <1>7, AwaitedFacts
  <2> SUFFICES 5 * (r.k - Len(delivered)) + Awaited(r) - Supplied(r) <= 5 * Bill(x + g)
    BY <1>7 DEF Paid, Astray, MinWire
  <2>2. PICK n \in Nat, c \in Nat, m \in Nat, k \in Nat, kk \in Nat :
           n = Len(delivered) /\ c = Cost /\ m = MaxLen /\ k = q.k /\ kk = r.k
    BY <1>1
  <2>3. PICK b \in Nat, bb \in Nat, aw \in Int, su \in Int :
           b = Bill(x) /\ bb = Bill(x + g) /\ aw = Awaited(r) /\ su = Supplied(r)
    BY <1>1, <1>3, <2>1
  <2>4. /\ c >= 2 /\ 5 * c >= m + 6 /\ (m >= 138 => 5 * c >= m + 7) /\ k - 1 - n <= b
        /\ g = 1 => bb = b + c
        /\ g >= 2 => bb >= b + g + 2 * c - 2
        /\ su >= 1 /\ kk <= k + g /\ kk >= k
        /\ kk = k + g => su = 5 /\ aw <= m + 2 /\ (m < 138 => aw <= m + 1 \/ aw = 2)
        /\ aw <= m + 3
    BY <1>1, <1>2, <1>3, <1>4, <1>7, <2>1, <2>2, <2>3
  <2>5. SUFFICES 5 * (kk - n) + aw - su <= 5 * bb
    BY <2>2, <2>3
  <2>6. CASE g >= 2
    <3>1. CASE kk = k + g
      BY <2>6, <2>4, <3>1
    <3>2. CASE kk # k + g
      BY <2>6, <2>4, <3>2
    <3>3. QED
      BY <3>1, <3>2
  <2>7. CASE g = 1 /\ kk = k + 1
    BY <2>7, <2>4
  <2>8. CASE g = 1 /\ kk # k + 1
    <3>1. kk = k
      BY <2>8, <2>4
    <3>2. CASE Astray(q, x)
      <4>1. k - n <= b
        BY <2>2, <2>3, <3>2, PaidFacts
      <4>2. QED
        BY <2>8, <2>4, <3>1, <4>1
    <3>3. CASE ~(m < 138) \/ aw # m + 3
      BY <2>8, <2>4, <3>1, <3>3
    <3>4. CASE ~Astray(q, x) /\ m < 138 /\ aw = m + 3
      <4>1. Reading(q) /\ State = "LENGTH" /\ rx_length_index = 0
        BY <1>7, <2>1, <2>2, <2>3, <3>4 DEF Paid, Aligned
      <4>2. q.field = "LENGTH" /\ rx_length_index = q.i - 1 /\ (rx_state = "ESCAPE" <=> q.esc)
        BY <4>1 DEF Reading
      <4>3. q.i = 1
        BY <4>1, <4>2, SuppliedFacts
      <4>4. /\ sent[q.k] \in Frames /\ Plain(sent, q) = LengthBytes(sent[q.k])[1]
            /\ Content(sent, q) = LengthBytes(sent[q.k])
            /\ Len(LengthBytes(sent[q.k])) = 2
        BY <4>2, <4>3, ContentFacts, LengthBytesFacts DEF Plain
      <4>5. ~Special(Plain(sent, q))
        BY <2>2, <3>4, <4>4, ShortLength
      <4>6. ~q.esc /\ ~Escapes(sent, q)
        BY <4>2, <4>5 DEF InStream, Escapes
      <4>7. After(sent, q) = At(q.k, "LENGTH", 2, FALSE)
        BY <4>2, <4>3, <4>4, <4>6 DEF After
      <4>8. r = After(sent, q)
        <5>1. r.k # q.k + 1
          BY <2>2, <2>8
        <5>2. QED
          BY <2>8, <5>1 DEF Ahead
      <4>9. r.field = "LENGTH" /\ r.i = 2
        BY <4>7, <4>8 DEF At
      <4>10. su = 3
        BY <2>3, <4>2, <4>6, <4>9 DEF Supplied, MinWire
      <4>11. QED
        BY <2>8, <2>4, <3>1, <3>4, <4>10
    <3>5. QED
      BY <3>2, <3>3, <3>4
  <2>9. QED
    BY <1>7, <2>6, <2>7, <2>8
<1>8. QED
  BY <1>5, <1>6, <1>7

(* A byte in the middle of what the receiver takes for a frame announces   *)
(* an escape, ends the frame, or is one of the bytes awaited.              *)
LEMMA ByteTaken ==
  ASSUME ShortFrames, RxInv, rx_state # "IDLE",
         NEW byte \in Byte, uartnet_poll_byte(byte), NEW q, NEW r,
         q.field = "HEADER" => byte = FRAME_HEADER
  PROVE  \/ /\ Unescaped(byte) = ESCAPE_CHAR /\ State # "END"
            /\ rx_state' = "ESCAPE" /\ State' = State
            /\ UNCHANGED <<rx_frame_length, rx_data_received, rx_length_bytes,
                           rx_length_index, stats, delivered, aborted>>
         \/ /\ rx_state' = "IDLE" /\ UNCHANGED aborted
            /\ stats'.dropped >= stats.dropped
            /\ Len(delivered') >= Len(delivered)
         \/ /\ Unescaped(byte) # ESCAPE_CHAR
            /\ rx_state' \in {"LENGTH", "DATA", "END"}
            /\ UNCHANGED <<stats, delivered, aborted>>
            /\ Awaited(r)' \in Int /\ Awaited(r)' <= Awaited(q) - 1
<1>1. /\ State \in {"LENGTH", "DATA", "END"} /\ MaxLen \in Nat /\ MaxLen < 138 * 256
      /\ stats \in Stats /\ stats.dropped \in Nat /\ delivered \in Seq(Seq(Byte))
      /\ Len(delivered) \in Nat
  BY Parts, CostFacts, CountType
     DEF State, EscapeInv, ControlType, RxStates, ShortFrames, ResultType
<1>2. q.field = "HEADER" => Unescaped(byte) \in {138, 170}
  BY DEF Unescaped, Xor20, FRAME_HEADER
<1>3. Unescaped(byte) \in Byte
  BY UnescapedByte
<1>4. CASE EscapeByte(byte)
  <2>1. State' = State
    BY <1>4 DEF EscapeByte, State
  <2>2. QED
    BY <1>4, <2>1 DEF EscapeByte
<1>5. CASE LengthByte(byte)
  <2> DEFINE bytes == [rx_length_bytes EXCEPT ![rx_length_index] = Unescaped(byte)]
             len   == bytes[0] * 256 + bytes[1]
  <2>1. State = "LENGTH" /\ Unescaped(byte) # ESCAPE_CHAR /\ rx_data_received = 0
    BY <1>5, Parts DEF LengthByte, LengthFresh
  <2>2. rx_length_index \in {0, 1} /\ rx_length_bytes \in [0..1 -> Byte]
    BY <2>1, Parts DEF BufferSafe, LengthType
  <2>3. /\ rx_length_bytes' = bytes /\ rx_length_index' = rx_length_index + 1
        /\ UNCHANGED <<rx_data_received, delivered, aborted>>
    BY <1>5 DEF LengthByte
  <2>4. CASE rx_length_index = 0
    <3>1. rx_state' = "LENGTH" /\ UNCHANGED stats /\ rx_length_index' = 1
      BY <1>5, <2>1, <2>3, <2>4 DEF LengthByte
    <3>2. State' = "LENGTH"
      BY <3>1 DEF State
    <3>3. rx_length_bytes'[0] = Unescaped(byte)
      BY <2>2, <2>3, <2>4
    <3>4. CASE q.field = "HEADER"
      <4>1. Awaited(q) = 2
        BY <2>1, <2>4, <3>4 DEF Awaited
      <4>2. rx_length_bytes'[0] >= 138
        BY <1>2, <3>3, <3>4
      <4>3. Awaited(r)' = 1
        BY <3>1, <3>2, <4>2 DEF Awaited
      <4>4. QED
        BY <2>1, <2>3, <3>1, <4>1, <4>3
    <3>5. CASE q.field # "HEADER"
      <4>1. Awaited(q) = MaxLen + 3
        BY <2>1, <2>4, <3>5 DEF Awaited
      <4>2. Awaited(r)' \in {1, MaxLen + 2}
        BY <3>1, <3>2 DEF Awaited
      <4>3. Awaited(r)' \in Int /\ Awaited(r)' <= Awaited(q) - 1
        BY <1>1, <4>1, <4>2
      <4>4. QED
        BY <2>1, <2>3, <3>1, <4>3
    <3>6. QED
      BY <3>4, <3>5
  <2>5. CASE rx_length_index = 1
    <3>1. bytes[0] = rx_length_bytes[0] /\ bytes[1] = Unescaped(byte)
      BY <2>2, <2>5
    <3>2. bytes[0] \in Byte
      BY <2>2, <3>1
    <3>3. \/ rx_state' = "IDLE" /\ \E f \in {"length_errors", "dropped"} : stats' = Count(f)
          \/ /\ ValidLength(len) /\ rx_frame_length' = len /\ rx_state' = "DATA"
             /\ UNCHANGED stats
      BY <1>5, <2>3, <2>5 DEF LengthByte
    <3> HIDE DEF bytes, len
    <3>4. ASSUME NEW f \in {"length_errors", "dropped"}, stats' = Count(f)
          PROVE  stats'.dropped >= stats.dropped
      <4>1. stats'.dropped = stats.dropped \/ stats'.dropped = stats.dropped + 1
        BY <1>1, <3>4, CountStats
      <4>2. QED
        BY <1>1, <4>1
    <3>5. CASE rx_state' = "IDLE" /\ \E f \in {"length_errors", "dropped"} : stats' = Count(f)
      BY <1>1, <2>3, <3>4, <3>5
    <3>6. CASE /\ ValidLength(len) /\ rx_frame_length' = len /\ rx_state' = "DATA"
               /\ UNCHANGED stats
      <4>1. PICK hi \in 0..255, lo \in 0..255, m \in Nat :
               hi = rx_length_bytes[0] /\ lo = Unescaped(byte) /\ m = MaxLen
        BY <1>1, <1>3, <3>1, <3>2 DEF Byte
      <4>2. len = hi * 256 + lo
        BY <3>1, <4>1 DEF len
      <4>3. len \in Nat /\ len <= m /\ hi * 256 + lo <= m /\ m < 138 * 256
        <5>1. len <= MaxLen
          BY <3>6 DEF ValidLength
        <5>2. hi * 256 + lo \in Nat
          OBVIOUS
        <5>3. QED
          BY <1>1, <4>1, <4>2, <5>1, <5>2
      <4>4. ~(hi >= 138) /\ (m < 138 => lo < 138)
        BY <4>3
      <4>5. ~(rx_length_bytes[0] >= 138) /\ ~(q.field = "HEADER" /\ MaxLen < 138)
        BY <1>2, <4>1, <4>4
      <4>6. Awaited(q) = MaxLen + 2
        BY <2>1, <2>5, <4>5 DEF Awaited
      <4>7. State' = "DATA"
        BY <3>6 DEF State
      <4>8. Awaited(r)' = len - 0 + 1
        BY <2>1, <2>3, <3>6, <4>7 DEF Awaited
      <4>9. Awaited(r)' \in Int /\ Awaited(r)' <= Awaited(q) - 1
        BY <4>1, <4>6, <4>8, <4>3
      <4>10. QED
        BY <2>1, <2>3, <3>6, <4>9
    <3>7. QED
      BY <3>3, <3>5, <3>6
  <2>6. QED
    BY <2>2, <2>4, <2>5
<1>6. CASE DataByte(byte)
  <2>1. /\ State = "DATA" /\ Unescaped(byte) # ESCAPE_CHAR
        /\ UNCHANGED <<rx_frame_length, delivered, aborted>>
    BY <1>6 DEF DataByte
  <2>2. /\ rx_frame_length \in Nat /\ rx_data_received \in Nat
        /\ rx_data_received < rx_frame_length
    BY <2>1, Parts DEF BufferSafe, BufferType, U16
  <2>3. /\ rx_data_received' = rx_data_received + 1 /\ UNCHANGED stats
        /\ rx_state' = IF rx_data_received + 1 >= rx_frame_length THEN "END" ELSE "DATA"
    BY <1>6, <2>2 DEF DataByte
  <2>4. Awaited(q) = rx_frame_length - rx_data_received + 1
    BY <2>1 DEF Awaited
  <2>5. CASE rx_data_received + 1 >= rx_frame_length
    <3>1. rx_state' = "END" /\ State' = "END"
      BY <2>3, <2>5 DEF State
    <3>2. Awaited(r)' = 1
      BY <3>1 DEF Awaited
    <3>3. QED
      BY <2>1, <2>2, <2>3, <2>4, <3>1, <3>2
  <2>6. CASE ~(rx_data_received + 1 >= rx_frame_length)
    <3>1. rx_state' = "DATA" /\ State' = "DATA"
      BY <2>3, <2>6 DEF State
    <3>2. Awaited(r)' = rx_frame_length - (rx_data_received + 1) + 1
      BY <2>1, <2>3, <3>1 DEF Awaited
    <3>3. QED
      BY <2>1, <2>2, <2>3, <2>4, <3>1, <3>2
  <2>7. QED
    BY <2>5, <2>6
<1>7. CASE EndByte(byte)
  <2>1. rx_state' = "IDLE" /\ UNCHANGED aborted
    BY <1>7 DEF EndByte
  <2>2. \E f \in {"packets", "errors"} : stats' = Count(f)
    BY <1>7 DEF EndByte
  <2>3. stats'.dropped = stats.dropped
    BY <1>1, <2>2, CountStats
  <2>4. State = "END"
    BY <1>7 DEF EndByte
  <2>5. rx_skb \in Skb
    BY <2>4, Parts DEF BufferSafe, BufferType
  <2>6. rx_skb.data \in Seq(Byte)
    BY <2>5 DEF Skb
  <2>7. delivered' = delivered \/ delivered' = Append(delivered, rx_skb.data)
    BY <1>7 DEF EndByte
  <2>8. Len(delivered') >= Len(delivered)
    BY <1>1, <2>6, <2>7
  <2>9. QED
    BY <1>1, <2>1, <2>3, <2>8
<1>8. ~IdleByte(byte)
  BY <1>1 DEF IdleByte
<1>9. QED
  BY <1>4, <1>5, <1>6, <1>7, <1>8 DEF uartnet_poll_byte

(* The byte taken is one of those supplied. *)
LEMMA ByteSupplied ==
  ASSUME RxInv, sent \in Seq(Frames), NoEscapeChar, rx_state # "IDLE",
         NEW q, InStream(sent, q), q.k <= Len(sent), NEW r, r = After(sent, q)
  PROVE  /\ q.field = "FOOTER" => /\ Unescaped(Wire(sent, q)) # ESCAPE_CHAR
                                  /\ r.field = "HEADER" /\ Supplied(r)' = 5
         /\ q.field # "FOOTER" => r.field # "HEADER"
         /\ q.field # "FOOTER" /\ rx_state' # "ESCAPE" => Supplied(r)' >= Supplied(q) - 1
         /\ Unescaped(Wire(sent, q)) = ESCAPE_CHAR /\ rx_state' = "ESCAPE" =>
              Supplied(r)' >= Supplied(q)
<1>1. q.field \in Fields /\ q.esc \in BOOLEAN /\ q.i \in Nat
  BY DEF InStream, Pos
<1>2. CASE q.field = "HEADER"
  <2>1. r = At(q.k, "LENGTH", 1, FALSE)
    BY <1>2 DEF After
  <2>2. r.field = "LENGTH" /\ r.i = 1 /\ r.esc = FALSE
    BY <2>1 DEF At
  <2>3. Unescaped(Wire(sent, q)) # ESCAPE_CHAR
    BY <1>2 DEF Wire, Unescaped, Xor20, FRAME_HEADER, ESCAPE_CHAR
  <2>4. Supplied(q) = 5 /\ (rx_state' # "ESCAPE" => Supplied(r)' = 4)
    BY <1>2, <2>2 DEF Supplied, MinWire
  <2>5. QED
    BY <1>2, <2>2, <2>3, <2>4
<1>3. CASE q.field = "FOOTER"
  <2>1. r = At(q.k + 1, "HEADER", 1, FALSE)
    BY <1>3 DEF After
  <2>2. r.field = "HEADER"
    BY <2>1 DEF At
  <2>3. Unescaped(Wire(sent, q)) # ESCAPE_CHAR
    BY <1>3 DEF Wire, Unescaped, Xor20, FRAME_FOOTER, ESCAPE_CHAR
  <2>4. Supplied(r)' = 5
    BY <2>2 DEF Supplied, MinWire
  <2>5. QED
    BY <1>3, <2>2, <2>3, <2>4
<1>4. CASE q.field \in {"LENGTH", "DATA"}
  <2>1. /\ Plain(sent, q) # ESCAPE_CHAR /\ (q.esc => Special(Plain(sent, q)))
        /\ q.field = "LENGTH" => Len(Content(sent, q)) = 2
        /\ q.i \in 1..Len(Content(sent, q)) /\ Len(Content(sent, q)) \in Nat
    BY <1>4, ContentFacts, LengthBytesFacts DEF InStream
  <2>2. q.field = "LENGTH" => q.i \in {1, 2}
    BY SuppliedFacts
  <2>3. CASE Escapes(sent, q)
    <3>1. r = At(q.k, q.field, q.i, TRUE)
      BY <1>4, <2>3 DEF After
    <3>2. r.field = q.field /\ r.i = q.i /\ r.esc = TRUE
      BY <3>1 DEF At
    <3>3. Supplied(r)' = IF q.field = "LENGTH" THEN 5 - q.i ELSE 2
      BY <1>4, <3>2 DEF Supplied, MinWire
    <3>4. Supplied(q) \in {1, IF q.field = "LENGTH" THEN 5 - q.i ELSE 2}
      BY <1>4 DEF Supplied, MinWire
    <3>5. QED
      BY <1>4, <2>2, <3>2, <3>3, <3>4
  <2>4. CASE ~Escapes(sent, q)
    <3>1. \/ r = At(q.k, q.field, q.i + 1, FALSE) /\ q.i < Len(Content(sent, q))
          \/ /\ r = At(q.k, "DATA", 1, FALSE) /\ q.field = "LENGTH"
             /\ ~(q.i < Len(Content(sent, q)))
          \/ r = At(q.k, "FOOTER", 1, FALSE) /\ q.field = "DATA"
      BY <1>4, <2>4 DEF After
    <3>2. /\ r.field \in {"LENGTH", "DATA", "FOOTER"} /\ r.esc = FALSE
          /\ r.field = "LENGTH" => q.field = "LENGTH" /\ q.i = 1 /\ r.i = 2
          /\ r.field = "DATA" => q.field = "DATA" \/ q.i = 2
          /\ r.field = "FOOTER" => q.field = "DATA"
      <4>1. CASE r = At(q.k, q.field, q.i + 1, FALSE) /\ q.i < Len(Content(sent, q))
        <5>1. r.field = q.field /\ r.i = q.i + 1 /\ r.esc = FALSE
          BY <4>1 DEF At
        <5>2. q.field = "LENGTH" => q.i = 1 /\ q.i + 1 = 2
          <6>1. SUFFICES ASSUME q.field = "LENGTH" PROVE q.i = 1
            OBVIOUS
          <6>2. q.i < 2 /\ q.i \in {1, 2}
            BY <2>1, <2>2, <4>1, <6>1
          <6>3. QED
            BY <6>2
        <5>3. QED
          BY <1>4, <5>1, <5>2
      <4>2. CASE /\ r = At(q.k, "DATA", 1, FALSE) /\ q.field = "LENGTH"
                 /\ ~(q.i < Len(Content(sent, q)))
        <5>1. r.field = "DATA" /\ r.esc = FALSE
          BY <4>2 DEF At
        <5>2. ~(q.i < 2) /\ q.i \in {1, 2}
          BY <2>1, <2>2, <4>2
        <5>3. q.i = 2
          BY <5>2
        <5>4. QED
          BY <5>1, <5>3
      <4>3. CASE r = At(q.k, "FOOTER", 1, FALSE) /\ q.field = "DATA"
        BY <4>3 DEF At
      <4>4. QED
        BY <3>1, <4>1, <4>2, <4>3
    <3>3. Supplied(q) = IF rx_state = "ESCAPE" /\ ~q.esc THEN 1
                        ELSE IF q.field = "LENGTH" THEN 5 - q.i ELSE 2
      BY <1>4 DEF Supplied, MinWire
    <3>4. rx_state' # "ESCAPE" =>
            Supplied(r)' = IF r.field = "FOOTER" THEN 1
                           ELSE IF r.field = "LENGTH" THEN 3 ELSE 2
      BY <3>2 DEF Supplied, MinWire
    <3>5. rx_state' # "ESCAPE" => Supplied(r)' >= Supplied(q) - 1
      <4>1. SUFFICES ASSUME rx_state' # "ESCAPE" PROVE Supplied(r)' >= Supplied(q) - 1
        OBVIOUS
      <4>2. CASE r.field = "LENGTH"
        <5>1. Supplied(r)' = 3 /\ Supplied(q) \in {1, 4}
          BY <3>2, <3>3, <3>4, <4>1, <4>2
        <5>2. QED
          BY <5>1
      <4>3. CASE r.field = "DATA"
        <5>1. Supplied(r)' = 2 /\ Supplied(q) \in {1, 2, 3}
          BY <1>4, <3>2, <3>3, <3>4, <4>1, <4>3
        <5>2. QED
          BY <5>1
      <4>4. CASE r.field = "FOOTER"
        <5>1. Supplied(r)' = 1 /\ Supplied(q) \in {1, 2}
          BY <3>2, <3>3, <3>4, <4>1, <4>4
        <5>2. QED
          BY <5>1
      <4>5. QED
        BY <3>2, <4>2, <4>3, <4>4
    <3>6. Unescaped(Wire(sent, q)) = ESCAPE_CHAR => rx_state = "ESCAPE" /\ ~q.esc
      <4>1. CASE q.esc
        <5>1. Wire(sent, q) = Xor20(Plain(sent, q))
          BY <1>4, <4>1 DEF Wire
        <5>2. /\ Xor20(Xor20(Plain(sent, q))) = Plain(sent, q)
              /\ ~Special(Xor20(Plain(sent, q)))
          BY <2>1, <4>1, EscapeUndone
        <5>3. Special(ESCAPE_CHAR)
          BY DEF Special
        <5>4. QED
          BY <2>1, <5>1, <5>2, <5>3 DEF Unescaped
      <4>2. CASE ~q.esc
        <5>1. Wire(sent, q) = Plain(sent, q)
          BY <1>4, <2>4, <4>2 DEF Wire, Escapes
        <5>2. QED
          BY <2>1, <4>2, <5>1 DEF Unescaped
      <4>3. QED
        BY <4>1, <4>2
    <3>7. rx_state' = "ESCAPE" => Supplied(r)' = 1
      BY <3>2 DEF Supplied
    <3>8. QED
      BY <1>4, <3>2, <3>3, <3>5, <3>6, <3>7
  <2>5. QED
    BY <2>3, <2>4
<1>5. QED
  BY <1>1, <1>2, <1>3, <1>4 DEF Fields

(* How the bill changes with the two counters of the receiver. *)
LEMMA BillNext ==
  ASSUME ShortFrames, RxInv, RxInv', NEW x \in Nat
  PROVE  /\ Bill(x) \in Nat /\ Bill(x)' \in Nat
         /\ stats'.dropped >= stats.dropped /\ aborted' >= aborted => Bill(x)' >= Bill(x)
         /\ stats'.dropped + aborted' >= stats.dropped + aborted + 1 => Bill(x)' >= Bill(x) + 1
<1>1. stats.dropped \in Nat /\ aborted \in Nat /\ stats'.dropped \in Nat /\ aborted' \in Nat
  BY CountType, Parts DEF RxInv, RxTypeOK, ResultType, Stats
<1>2. PICK y \in Nat : y = x * Cost
  <2>1. Cost \in Nat
    BY CostFacts
  <2>2. x * Cost \in Nat
    BY <2>1
  <2>3. QED
    BY <2>2
<1>3. Bill(x) = stats.dropped + aborted + y
  BY <1>2 DEF Bill
<1>4. Bill(x)' = stats'.dropped + aborted' + y
  BY <1>2 DEF Bill, Cost, MaxLen, MinWire
<1>5. QED
  BY <1>1, <1>3, <1>4

(* The receiver reads the byte at its position. *)
LEMMA PaidRead ==
  ASSUME ShortFrames, NoEscapeChar, RxInv, RxInv', sent \in Seq(Frames), UNCHANGED sent,
         NEW q, InStream(sent, q), q.k <= Len(sent), NEW r, r = After(sent, q),
         uartnet_poll_byte(Wire(sent, q)), NEW x \in Nat, Paid(q, x)
  PROVE  Paid(r, x)'
<1>1. /\ q.k \in Nat /\ Len(delivered) \in Nat /\ LengthFits
      /\ Wire(sent, q) \in Byte /\ (q.field = "HEADER" => Wire(sent, q) = FRAME_HEADER)
  BY CountType, CostFacts, WireFacts DEF InStream, Pos
<1>2. /\ r.k = IF q.field = "FOOTER" THEN q.k + 1 ELSE q.k
      /\ InStream(sent, r)
  BY AfterFacts
<1>3. q.field = "FOOTER" => r.field = "HEADER"
  <2>1. q.field = "FOOTER" => r = At(q.k + 1, "HEADER", 1, FALSE)
    BY DEF After
  <2>2. QED
    BY <2>1 DEF At
<1>4. /\ Bill(x) \in Nat /\ Bill(x)' \in Nat
      /\ stats'.dropped >= stats.dropped /\ aborted' >= aborted => Bill(x)' >= Bill(x)
      /\ stats'.dropped + aborted' >= stats.dropped + aborted + 1 => Bill(x)' >= Bill(x) + 1
  BY BillNext
<1>5. /\ q.k - 1 - Len(delivered) <= Bill(x)
      /\ Astray(q, x) => q.k - Len(delivered) <= Bill(x)
  BY PaidFacts
<1>6. stats.dropped \in Nat /\ aborted \in Nat /\ stats \in Stats /\ delivered \in Seq(Seq(Byte))
  BY CountType, Parts DEF ResultType
<1>7. ASSUME rx_state' = "IDLE", Len(delivered') \in Nat,
             q.k - Len(delivered') <= Bill(x)'
      PROVE  Paid(r, x)'
  <2>1. CASE q.field = "FOOTER"
    <3>1. r.k - 1 - Len(delivered') <= Bill(x)'
      BY <1>1, <1>2, <1>4, <1>7, <2>1
    <3>2. QED
      BY <1>3, <1>7, <2>1, <3>1 DEF Paid, Aligned
  <2>2. CASE q.field # "FOOTER"
    BY <1>2, <1>7, <2>2 DEF Paid, Astray
  <2>3. QED
    BY <2>1, <2>2
<1>8. ASSUME Reading(r)', UNCHANGED <<delivered, stats, aborted>>
      PROVE  Paid(r, x)'
  <2>1. r.field # "HEADER"
    BY <1>8 DEF Reading
  <2>2. r.k - 1 - Len(delivered') <= Bill(x)'
    BY <1>1, <1>2, <1>3, <1>4, <1>5, <1>6, <1>8, <2>1, SMTT(20)
  <2>3. QED
    BY <1>8, <2>2 DEF Paid, Aligned
<1>9. CASE rx_state = "IDLE"
  <2>1. State = "IDLE"
    BY <1>9 DEF State
  <2>2. IdleByte(Wire(sent, q))
    BY <2>1 DEF uartnet_poll_byte, EscapeByte, LengthByte, DataByte, EndByte
  <2>3. UNCHANGED <<delivered, stats, aborted>>
    BY <2>2 DEF IdleByte
  <2>4. \/ q.field = "HEADER" /\ Reading(r)'
        \/ q.field # "HEADER" /\ rx_state' = "IDLE"
    BY <1>9, HuntStep
  <2>5. CASE q.field = "HEADER" /\ Reading(r)'
    BY <1>8, <2>3, <2>5
  <2>6. CASE q.field # "HEADER" /\ rx_state' = "IDLE"
    <3>1. Astray(q, x)
      BY <1>9, <2>6 DEF Paid, Aligned, Reading
    <3>2. q.k - Len(delivered') <= Bill(x)'
      BY <1>1, <1>4, <1>5, <1>6, <2>3, <3>1, SMTT(20)
    <3>3. QED
      BY <1>1, <1>7, <2>3, <2>6, <3>2
  <2>7. QED
    BY <2>4, <2>5, <2>6
<1>10. ASSUME rx_state # "IDLE"
       PROVE  \/ /\ Unescaped(Wire(sent, q)) = ESCAPE_CHAR /\ State # "END"
                 /\ rx_state' = "ESCAPE" /\ State' = State
                 /\ UNCHANGED <<rx_frame_length, rx_data_received, rx_length_bytes,
                                rx_length_index, stats, delivered, aborted>>
              \/ /\ rx_state' = "IDLE" /\ UNCHANGED aborted
                 /\ stats'.dropped >= stats.dropped
                 /\ Len(delivered') >= Len(delivered)
              \/ /\ Unescaped(Wire(sent, q)) # ESCAPE_CHAR
                 /\ rx_state' \in {"LENGTH", "DATA", "END"}
                 /\ UNCHANGED <<stats, delivered, aborted>>
                 /\ Awaited(r)' \in Int /\ Awaited(r)' <= Awaited(q) - 1
  BY <1>1, <1>10, ByteTaken
<1>11. CASE rx_state # "IDLE" /\ Reading(q)
  <2>1. \/ UNCHANGED delivered /\ Reading(r)'
        \/ UNCHANGED delivered /\ rx_state' = "IDLE" /\ stats' = Count("dropped")
        \/ /\ q.field = "FOOTER" /\ rx_state' = "IDLE"
           /\ delivered' = Append(delivered, sent[q.k])
    BY <1>1, <1>11, ReadStep DEF RxAt
  <2>2. CASE UNCHANGED delivered /\ Reading(r)'
    <3>1. rx_state' # "IDLE"
      BY <2>2 DEF Reading
    <3>2. UNCHANGED <<stats, aborted>>
      BY <1>10, <1>11, <3>1
    <3>3. QED
      BY <1>8, <2>2, <3>2
  <2>3. CASE UNCHANGED delivered /\ rx_state' = "IDLE" /\ stats' = Count("dropped")
    <3>1. UNCHANGED aborted
      BY <1>10, <1>11, <2>3
    <3>2. stats'.dropped = stats.dropped + 1
      BY <1>6, <2>3, CountStats
    <3>3. q.k - Len(delivered') <= Bill(x)'
      <4>1. Bill(x)' >= Bill(x) + 1
        BY <1>4, <1>6, <3>1, <3>2
      <4>2. QED
        BY <1>1, <1>4, <1>5, <2>3, <4>1
    <3>4. QED
      BY <1>1, <1>7, <2>3, <3>3
  <2>4. CASE /\ q.field = "FOOTER" /\ rx_state' = "IDLE"
             /\ delivered' = Append(delivered, sent[q.k])
    <3>1. UNCHANGED aborted /\ stats'.dropped >= stats.dropped
      BY <1>10, <1>11, <2>4
    <3>2. sent[q.k] \in Seq(Byte)
      <4>1. q.k \in 1..Len(sent)
        BY DEF InStream, Pos
      <4>2. sent[q.k] \in Frames
        BY <4>1
      <4>3. QED
        BY <4>2, FrameFacts
    <3>3. Len(delivered') = Len(delivered) + 1
      BY <1>6, <2>4, <3>2
    <3>4. q.k - Len(delivered') <= Bill(x)'
      BY <1>1, <1>4, <1>5, <1>6, <3>1, <3>3
    <3>5. QED
      BY <1>1, <1>7, <2>4, <3>3, <3>4
  <2>5. QED
    BY <2>1, <2>2, <2>3, <2>4
<1>12. CASE rx_state # "IDLE" /\ Astray(q, x)
  <2>1. 5 * (q.k - Len(delivered)) + Awaited(q) - Supplied(q) <= 5 * Bill(x)
    BY <1>12 DEF Astray, MinWire
  <2>2. /\ Awaited(q) \in Int /\ Supplied(q) \in Int
    BY <1>12, AwaitedFacts, SuppliedFacts
  <2>3. /\ q.field = "FOOTER" => /\ Unescaped(Wire(sent, q)) # ESCAPE_CHAR
                                 /\ r.field = "HEADER" /\ Supplied(r)' = 5
        /\ q.field # "FOOTER" => r.field # "HEADER"
        /\ q.field # "FOOTER" /\ rx_state' # "ESCAPE" => Supplied(r)' >= Supplied(q) - 1
        /\ Unescaped(Wire(sent, q)) = ESCAPE_CHAR /\ rx_state' = "ESCAPE" =>
             Supplied(r)' >= Supplied(q)
    BY <1>12, ByteSupplied
  <2>4. Supplied(r)' \in Int
    BY <1>2 DEF Supplied, MinWire, InStream, Pos
  <2>5. CASE /\ Unescaped(Wire(sent, q)) = ESCAPE_CHAR /\ State # "END"
             /\ rx_state' = "ESCAPE" /\ State' = State
             /\ UNCHANGED <<rx_frame_length, rx_data_received, rx_length_bytes,
                            rx_length_index, stats, delivered, aborted>>
    <3>1. q.field # "FOOTER" /\ r.field # "HEADER"
      BY <2>3, <2>5
    <3>2. q.field # "HEADER"
      BY <1>1, <2>5 DEF Unescaped, Xor20, FRAME_HEADER, ESCAPE_CHAR
    <3>3. Awaited(r)' = Awaited(q)
      BY <2>5, <3>1, <3>2 DEF Awaited, MaxLen
    <3>4. 5 * (r.k - Len(delivered')) + Awaited(r)' - Supplied(r)' <= 5 * Bill(x)'
      <4>1. PICK a \in Int, s \in Int, t \in Int, b \in Nat, c \in Nat, n \in Nat :
               /\ a = Awaited(q) /\ s = Supplied(q) /\ t = Supplied(r)'
               /\ b = Bill(x) /\ c = Bill(x)' /\ n = Len(delivered)
        BY <1>1, <1>4, <2>2, <2>4, <2>5
      <4>2. 5 * (q.k - n) + a - s <= 5 * b /\ t >= s /\ c >= b
        BY <1>4, <1>6, <2>1, <2>3, <2>5, <4>1, SMTT(20)
      <4>3. 5 * (q.k - n) + a - t <= 5 * c
        BY <1>1, <4>2
      <4>4. QED
        BY <1>2, <2>5, <3>1, <3>3, <4>1, <4>3
    <3>5. QED
      BY <2>5, <3>4 DEF Paid, Astray, MinWire
  <2>6. CASE /\ rx_state' = "IDLE" /\ UNCHANGED aborted
             /\ stats'.dropped >= stats.dropped
             /\ Len(delivered') >= Len(delivered)
    <3>1. Len(delivered') \in Nat /\ stats'.dropped \in Nat
      BY Parts DEF RxInv, RxTypeOK, ResultType, Stats
    <3>2. q.k - Len(delivered') <= Bill(x)'
      BY <1>1, <1>4, <1>5, <1>6, <1>12, <2>6, <3>1
    <3>3. QED
      BY <1>7, <2>6, <3>1, <3>2
  <2>7. CASE /\ Unescaped(Wire(sent, q)) # ESCAPE_CHAR
             /\ rx_state' \in {"LENGTH", "DATA", "END"}
             /\ UNCHANGED <<stats, delivered, aborted>>
             /\ Awaited(r)' \in Int /\ Awaited(r)' <= Awaited(q) - 1
    <3>1. PICK a \in Int, s \in Int, u \in Int, t \in Int, b \in Nat, c \in Nat, n \in Nat :
             /\ a = Awaited(q) /\ s = Supplied(q) /\ u = Awaited(r)' /\ t = Supplied(r)'
             /\ b = Bill(x) /\ c = Bill(x)' /\ n = Len(delivered)
      BY <1>1, <1>4, <2>2, <2>4, <2>7
    <3>2. 5 * (q.k - n) + a - s <= 5 * b /\ u <= a - 1 /\ c >= b
      <4>1. c >= b
        BY <1>4, <1>6, <2>7, <3>1, SMTT(20)
      <4>2. QED
        BY <2>1, <2>7, <3>1, <4>1
    <3>3. 5 * (r.k - n) + u - t <= 5 * c
      <4>1. CASE q.field = "FOOTER"
        <5>1. s = 1 /\ t = 5 /\ r.k = q.k + 1
          BY <1>2, <2>3, <3>1, <4>1 DEF Supplied
        <5>2. PICK k \in Nat : k = q.k
          BY <1>1
        <5>3. 5 * (k - n) + a - 1 <= 5 * b /\ u <= a - 1 /\ c >= b
          BY <3>2, <5>1, <5>2
        <5>4. 5 * ((k + 1) - n) + u - 5 <= 5 * c
          BY <5>3
        <5>5. QED
          BY <5>1, <5>2, <5>4
      <4>2. CASE q.field # "FOOTER"
        <5>1. t >= s - 1 /\ r.k = q.k
          BY <1>2, <2>3, <2>7, <3>1, <4>2
        <5>2. QED
          BY <1>1, <3>2, <5>1
      <4>3. QED
        BY <4>1, <4>2
    <3>4. 5 * (r.k - Len(delivered')) + Awaited(r)' - Supplied(r)' <= 5 * Bill(x)'
      BY <2>7, <3>1, <3>3
    <3>5. QED
      BY <2>7, <3>4 DEF Paid, Astray, MinWire
  <2>8. QED
    BY <1>10, <1>12, <2>5, <2>6, <2>7
<1>13. QED
  BY <1>9, <1>11, <1>12 DEF Paid, Aligned
-----------------------------------------------------------------------------
(* The bytes on the line, when some have been lost: p[j] is the position   *)
(* of the j-th byte and e[j] the one after it; e[0] is the position the    *)
(* receiver waits for and p[Len(line) + 1] the one the sender writes next. *)
(* d counts the events up to each byte.                                    *)
Track(e, p, d) ==
  /\ \A j \in 1..Len(line) :
        p[j].k <= Len(sent) /\ line[j] = Wire(sent, p[j]) /\ e[j] = After(sent, p[j])
  /\ \A j \in 0..Len(line) :
        /\ InStream(sent, e[j]) /\ InStream(sent, p[j + 1])
        /\ d[j] \in Nat /\ d[j + 1] - d[j] \in Nat
        /\ Ahead(sent, e[j], p[j + 1], d[j + 1] - d[j])
  /\ d[Len(line) + 1] = lost + cut
  /\ TxAt(p[Len(line) + 1])

DamageInv ==
  /\ RxInv /\ LinkTypes
  /\ \E e, p, d : Track(e, p, d) /\ Paid(e[0], d[0])

(* Accepting another frame leaves a gap as it is. *)
LEMMA AheadSend ==
  ASSUME NEW s \in Seq(Frames), NEW f \in Frames, NEW a, InStream(s, a), NEW b,
         NEW g \in Nat, Ahead(s, a, b, g)
  PROVE  Ahead(Append(s, f), a, b, g)
  BY AppendFacts DEF Ahead

(* The byte between two gaps is lost. *)
LEMMA AheadLost ==
  ASSUME NEW s \in Seq(Frames), NEW a, InStream(s, a), NEW b, InStream(s, b),
         NEW t, InStream(s, t), b.k <= Len(s), NEW g \in Nat, NEW h \in Nat,
         Ahead(s, a, b, g), Ahead(s, After(s, b), t, h)
  PROVE  Ahead(s, a, t, g + h + 1)
<1>1. a.k \in Nat /\ b.k \in Nat /\ t.k \in Nat
  BY DEF InStream, Pos
<1>2. PICK c : c = After(s, b)
  OBVIOUS
<1>3. /\ c.k = IF b.field = "FOOTER" THEN b.k + 1 ELSE b.k
      /\ c.k \in Nat
      /\ b.field = "FOOTER" => c.field = "HEADER"
  <2>1. b.field = "FOOTER" => c = At(b.k + 1, "HEADER", 1, FALSE)
    BY <1>2 DEF After
  <2>2. b.field = "FOOTER" => c.field = "HEADER"
    BY <2>1 DEF At
  <2>3. QED
    BY <1>1, <1>2, <2>2, AfterFacts
<1>4. CASE g = 0 /\ h = 0
  <2>1. t = After(s, a) /\ b = a /\ t = c
    BY <1>2, <1>4 DEF Ahead
  <2>2. t.k \in a.k..(a.k + 1) /\ (t.k = a.k + 1 => t.field = "HEADER")
    BY <1>1, <1>3, <2>1
  <2>3. g + h + 1 = 1
    BY <1>4
  <2>4. QED
    BY <2>1, <2>2, <2>3 DEF Ahead
<1>5. CASE g >= 1 \/ h >= 1
  <2>1. g + h + 1 # 0 /\ g + h + 1 # 1
    BY <1>5
  <2>2. /\ t.k >= c.k /\ t.k <= c.k + h
        /\ t.k = c.k + h => t.field = "HEADER" \/ (h = 0 /\ t = c)
    <3>1. CASE h = 0
      BY <1>1, <1>2, <3>1 DEF Ahead
    <3>2. CASE h >= 1
      <4>1. t.k \in c.k..(c.k + h) /\ (t.k = c.k + h => t.field = "HEADER")
        BY <1>2, <3>2 DEF Ahead
      <4>2. QED
        BY <1>1, <1>3, <4>1
    <3>3. QED
      BY <3>1, <3>2
  <2>3. CASE g = 0
    <3>1. b = a /\ h >= 1
      BY <1>5, <2>3 DEF Ahead
    <3>2. t.k \in a.k..(a.k + (g + h + 1)) /\ (t.k = a.k + (g + h + 1) => t.field = "HEADER")
      BY <1>1, <1>3, <2>2, <2>3, <3>1
    <3>3. QED
      BY <2>1, <3>2 DEF Ahead
  <2>4. CASE g >= 1
    <3>1. b.k \in a.k..(a.k + g) /\ (b.k = a.k + g => b.field = "HEADER")
      BY <2>4 DEF Ahead
    <3>2. c.k >= a.k /\ c.k <= a.k + g
      BY <1>1, <1>3, <3>1
    <3>3. t.k \in a.k..(a.k + (g + h + 1)) /\ t.k # a.k + (g + h + 1)
      <4>1. PICK i \in Nat, j \in Nat, l \in Nat : i = a.k /\ j = c.k /\ l = t.k
        BY <1>1, <1>3
      <4>2. j >= i /\ j <= i + g /\ l >= j /\ l <= j + h
        BY <2>2, <3>2, <4>1
      <4>3. l \in i..(i + (g + h + 1)) /\ l # i + (g + h + 1)
        BY <4>2
      <4>4. QED
        BY <4>1, <4>3
    <3>4. QED
      BY <2>1, <3>3 DEF Ahead
  <2>5. QED
    BY <2>3, <2>4
<1>6. QED
  BY <1>4, <1>5

(* The frame the sender was writing is cut off after a gap. *)
LEMMA AheadCut ==
  ASSUME NEW s \in Seq(Frames), NEW a, InStream(s, a), NEW b, InStream(s, b),
         NEW g \in Nat, Ahead(s, a, b, g), NEW r, r.k = b.k + 1, r.field = "HEADER"
  PROVE  Ahead(s, a, r, g + 1)
<1>1. a.k \in Nat /\ b.k \in Nat /\ r.k = b.k + 1 /\ r.field = "HEADER"
  BY DEF InStream, Pos
<1>2. CASE g = 0
  <2>1. b = a /\ g + 1 = 1
    BY <1>2 DEF Ahead
  <2>2. r.k \in a.k..(a.k + 1)
    BY <1>1, <2>1
  <2>3. QED
    BY <1>1, <2>1, <2>2 DEF Ahead
<1>3. CASE g >= 1
  <2>1. b.k \in a.k..(a.k + g) /\ g + 1 # 0 /\ g + 1 # 1
    BY <1>3 DEF Ahead
  <2>2. r.k \in a.k..(a.k + (g + 1))
    BY <1>1, <2>1
  <2>3. QED
    BY <1>1, <2>1, <2>2 DEF Ahead
<1>4. QED
  BY <1>2, <1>3

(* The sender accepts another frame. *)
LEMMA TrackSend ==
  ASSUME LinkTypes, NEW e, NEW p, NEW d, Track(e, p, d),
         NEW f \in Frames, sent' = Append(sent, f), UNCHANGED <<line, lost, cut>>,
         TxAt(p[Len(line) + 1])'
  PROVE  Track(e, p, d)'
<1>1. sent \in Seq(Frames) /\ Len(sent) \in Nat /\ Len(line) \in Nat
      /\ Len(sent') = Len(sent) + 1
  BY DEF LinkTypes
<1>2. ASSUME NEW j \in 1..Len(line)
      PROVE  /\ p[j].k <= Len(sent') /\ line[j] = Wire(sent', p[j])
             /\ e[j] = After(sent', p[j])
  <2>1. InStream(sent, p[j])
    <3>1. j - 1 \in 0..Len(line) /\ (j - 1) + 1 = j
      BY <1>1
    <3>2. InStream(sent, p[(j - 1) + 1])
      BY <3>1 DEF Track
    <3>3. QED
      BY <3>1, <3>2
  <2>2. p[j].k <= Len(sent) /\ line[j] = Wire(sent, p[j]) /\ e[j] = After(sent, p[j])
    BY <1>2 DEF Track
  <2>3. p[j].k \in Nat
    BY <2>1 DEF InStream, Pos
  <2>4. QED
    BY <1>1, <2>1, <2>2, <2>3, AppendFacts
<1>3. ASSUME NEW j \in 0..Len(line)
      PROVE  /\ InStream(sent', e[j]) /\ InStream(sent', p[j + 1])
             /\ d[j] \in Nat /\ d[j + 1] - d[j] \in Nat
             /\ Ahead(sent', e[j], p[j + 1], d[j + 1] - d[j])
  <2>1. /\ InStream(sent, e[j]) /\ InStream(sent, p[j + 1])
        /\ d[j] \in Nat /\ d[j + 1] - d[j] \in Nat
        /\ Ahead(sent, e[j], p[j + 1], d[j + 1] - d[j])
    BY <1>3 DEF Track
  <2>2. QED
    BY <1>1, <2>1, AppendFacts, AheadSend
<1>4. d[Len(line') + 1] = lost' + cut'
  BY DEF Track
<1>5. QED
  BY <1>2, <1>3, <1>4 DEF Track

(* Nothing happens to the line. *)
LEMMA TrackSame ==
  ASSUME NEW e, NEW p, NEW d, Track(e, p, d), UNCHANGED <<line, sent, lost, cut>>,
         TxAt(p[Len(line) + 1])'
  PROVE  Track(e, p, d)'
  BY DEF Track

(* The sender writes the byte at its position. *)
LEMMA TrackWrite ==
  ASSUME LinkTypes, NEW e, NEW p, NEW d, Track(e, p, d),
         NEW q, q = p[Len(line) + 1], q.k <= Len(sent), NEW r, r = After(sent, q),
         line' = Append(line, Wire(sent, q)), UNCHANGED <<sent, lost, cut>>, TxAt(r)'
  PROVE  \E ee, pp, dd : Track(ee, pp, dd)' /\ ee[0] = e[0] /\ dd[0] = d[0]
<1>1. /\ sent \in Seq(Frames) /\ Len(line) \in Nat /\ line \in Seq(Byte)
      /\ lost \in Nat /\ cut \in Nat
  BY DEF LinkTypes
<1>2. InStream(sent, q)
  BY <1>1 DEF Track
<1>3. InStream(sent, r) /\ Wire(sent, q) \in Byte
  BY <1>1, <1>2, AfterFacts, WireFacts
<1>4. PICK n \in Nat : n = Len(line)
  BY <1>1
<1>5. /\ Len(line') = n + 1 /\ line'[n + 1] = Wire(sent, q)
      /\ \A j \in 1..n : line'[j] = line[j]
  BY <1>1, <1>3, <1>4
<1>6. PICK ee, pp, dd :
         /\ ee = [j \in 0..(n + 1) |-> IF j = n + 1 THEN r ELSE e[j]]
         /\ pp = [j \in 1..(n + 2) |-> IF j = n + 2 THEN r ELSE p[j]]
         /\ dd = [j \in 0..(n + 2) |-> IF j = n + 2 THEN d[n + 1] ELSE d[j]]
  OBVIOUS
<1>7. /\ ee[n + 1] = r /\ \A j \in 0..n : ee[j] = e[j]
      /\ pp[n + 2] = r /\ \A j \in 1..(n + 1) : pp[j] = p[j]
      /\ dd[n + 2] = d[n + 1] /\ \A j \in 0..(n + 1) : dd[j] = d[j]
  BY <1>6
<1>8. d[n + 1] = lost + cut /\ q = p[n + 1]
  BY <1>4 DEF Track
<1>9. ASSUME NEW j \in 1..(n + 1)
      PROVE  /\ pp[j].k <= Len(sent) /\ line'[j] = Wire(sent, pp[j])
             /\ ee[j] = After(sent, pp[j])
  <2>1. CASE j = n + 1
    BY <1>5, <1>7, <1>8, <2>1
  <2>2. CASE j \in 1..n
    <3>1. pp[j] = p[j] /\ ee[j] = e[j] /\ line'[j] = line[j]
      BY <1>5, <1>7, <2>2
    <3>2. QED
      BY <1>4, <2>2, <3>1 DEF Track
  <2>3. j = n + 1 \/ j \in 1..n
    OBVIOUS
  <2>4. QED
    BY <2>1, <2>2, <2>3, Zenon
<1>10. ASSUME NEW j \in 0..(n + 1)
       PROVE  /\ InStream(sent, ee[j]) /\ InStream(sent, pp[j + 1])
              /\ dd[j] \in Nat /\ dd[j + 1] - dd[j] \in Nat
              /\ Ahead(sent, ee[j], pp[j + 1], dd[j + 1] - dd[j])
  <2>1. CASE j = n + 1
    <3>1. /\ ee[j] = r /\ pp[j + 1] = r /\ dd[j] = lost + cut /\ dd[j + 1] = lost + cut
      BY <1>7, <1>8, <2>1
    <3>2. dd[j] \in Nat /\ dd[j + 1] - dd[j] = 0
      BY <1>1, <3>1
    <3>3. Ahead(sent, r, r, 0)
      BY DEF Ahead
    <3>4. QED
      BY <1>3, <3>1, <3>2, <3>3
  <2>2. CASE j \in 0..n
    <3>1. ee[j] = e[j] /\ pp[j + 1] = p[j + 1] /\ dd[j] = d[j] /\ dd[j + 1] = d[j + 1]
      BY <1>7, <2>2
    <3>2. QED
      BY <1>4, <2>2, <3>1 DEF Track
  <2>3. QED
    BY <2>1, <2>2
<1>11. dd[Len(line') + 1] = lost' + cut' /\ pp[Len(line') + 1] = r
  BY <1>5, <1>7, <1>8
<1>12. Track(ee, pp, dd)'
  BY <1>5, <1>9, <1>10, <1>11 DEF Track
<1>13. QED
  BY <1>7, <1>12

(* The receiver takes a byte off the line. *)
LEMMA TrackRead ==
  ASSUME LinkTypes, line # <<>>, NEW e, NEW p, NEW d, Track(e, p, d),
         line' = Tail(line), UNCHANGED <<sent, lost, cut>>,
         UNCHANGED <<tx_state, tx_skb, tx_current, tx_escape_next>>
  PROVE  /\ Head(line) = Wire(sent, p[1]) /\ p[1].k <= Len(sent)
         /\ InStream(sent, e[0]) /\ InStream(sent, p[1])
         /\ d[0] \in Nat /\ d[1] - d[0] \in Nat /\ d[1] \in Nat
         /\ Ahead(sent, e[0], p[1], d[1] - d[0])
         /\ \E ee, pp, dd : Track(ee, pp, dd)' /\ ee[0] = After(sent, p[1]) /\ dd[0] = d[1]
<1>1. /\ Len(line) \in Nat /\ Len(line) >= 1 /\ Head(line) = line[1]
      /\ Len(line') = Len(line) - 1 /\ \A j \in 1..Len(line') : line'[j] = line[j + 1]
  BY DEF LinkTypes
<1>2. PICK n \in Nat : Len(line) = n + 1 /\ Len(line') = n
  <2>1. Len(line) - 1 \in Nat /\ Len(line) = (Len(line) - 1) + 1
    BY <1>1
  <2>2. QED
    BY <1>1, <2>1
<1>3. PICK ee, pp, dd :
         /\ ee = [j \in 0..n |-> e[j + 1]]
         /\ pp = [j \in 1..(n + 1) |-> p[j + 1]]
         /\ dd = [j \in 0..(n + 1) |-> d[j + 1]]
  OBVIOUS
<1>4. /\ \A j \in 0..n : ee[j] = e[j + 1]
      /\ \A j \in 1..(n + 1) : pp[j] = p[j + 1]
      /\ \A j \in 0..(n + 1) : dd[j] = d[j + 1]
  BY <1>3
<1>5. /\ p[1].k <= Len(sent) /\ line[1] = Wire(sent, p[1]) /\ e[1] = After(sent, p[1])
  BY <1>1 DEF Track
<1>6. 0 \in 0..Len(line) /\ 0 + 1 = 1 /\ 1 \in 0..Len(line)
  BY <1>1
<1>7. /\ InStream(sent, e[0]) /\ InStream(sent, p[0 + 1])
      /\ d[0] \in Nat /\ d[0 + 1] - d[0] \in Nat /\ d[1] \in Nat
      /\ Ahead(sent, e[0], p[0 + 1], d[0 + 1] - d[0])
  BY <1>6 DEF Track
<1>8. ASSUME NEW j \in 1..n
      PROVE  /\ pp[j].k <= Len(sent) /\ line'[j] = Wire(sent, pp[j])
             /\ ee[j] = After(sent, pp[j])
  <2>1. pp[j] = p[j + 1] /\ ee[j] = e[j + 1] /\ line'[j] = line[j + 1] /\ j + 1 \in 1..Len(line)
    BY <1>1, <1>2, <1>4
  <2>2. QED
    BY <2>1 DEF Track
<1>9. ASSUME NEW j \in 0..n
      PROVE  /\ InStream(sent, ee[j]) /\ InStream(sent, pp[j + 1])
             /\ dd[j] \in Nat /\ dd[j + 1] - dd[j] \in Nat
             /\ Ahead(sent, ee[j], pp[j + 1], dd[j + 1] - dd[j])
  <2>1. /\ ee[j] = e[j + 1] /\ pp[j + 1] = p[(j + 1) + 1]
        /\ dd[j] = d[j + 1] /\ dd[j + 1] = d[(j + 1) + 1] /\ j + 1 \in 0..Len(line)
    BY <1>2, <1>4
  <2>2. QED
    BY <2>1 DEF Track
<1>10. /\ dd[Len(line') + 1] = lost' + cut' /\ pp[Len(line') + 1] = p[Len(line) + 1]
  <2>1. dd[n + 1] = d[(n + 1) + 1] /\ pp[n + 1] = p[(n + 1) + 1]
    BY <1>4
  <2>2. QED
    BY <1>2, <2>1 DEF Track
<1>11. TxAt(pp[Len(line) + 1])'
  <2>1. PICK t : t = p[Len(line) + 1]
    OBVIOUS
  <2>2. TxAt(t)
    BY <2>1 DEF Track
  <2>3. TxAt(t)'
    BY <2>2 DEF TxAt, Content
  <2>4. pp[Len(line') + 1] = t
    BY <1>10, <2>1
  <2>5. QED
    BY <2>3, <2>4
<1>12. Track(ee, pp, dd)'
  BY <1>2, <1>8, <1>9, <1>10, <1>11 DEF Track
<1>13. ee[0] = e[1] /\ dd[0] = d[1]
  BY <1>4, <1>6
<1>14. QED
  BY <1>1, <1>5, <1>6, <1>7, <1>12, <1>13

(* The length of two sequences in a row. *)
LEMMA ConcatLen == \A a, b \in Seq(Byte) : Len(a \o b) = Len(a) + Len(b)
  OBVIOUS

(* Removing one byte moves the later ones up. *)
LEMMA RemoveFacts ==
  ASSUME NEW s \in Seq(Byte), NEW i \in 1..Len(s)
  PROVE  /\ Len(RemoveAt(s, i)) = Len(s) - 1
         /\ \A j \in 1..(Len(s) - 1) : RemoveAt(s, i)[j] = IF j < i THEN s[j] ELSE s[j + 1]
<1>1. Len(s) \in Nat /\ i \in Nat /\ i >= 1 /\ i <= Len(s)
  OBVIOUS
<1>2. PICK a, b : a = SubSeq(s, 1, i - 1) /\ b = SubSeq(s, i + 1, Len(s))
  OBVIOUS
<1>3. /\ a \in Seq(Byte) /\ Len(a) = i - 1 /\ \A j \in 1..(i - 1) : a[j] = s[j]
  BY <1>1, <1>2
<1>4. b \in Seq(Byte) /\ Len(b) = Len(s) - i /\ \A j \in 1..(Len(s) - i) : b[j] = s[i + j]
  BY <1>1, <1>2
<1>5. RemoveAt(s, i) = a \o b
  BY <1>2 DEF RemoveAt
<1>6. Len(a \o b) = Len(a) + Len(b)
  BY <1>3, <1>4, ConcatLen
<1>7. \A j \in 1..(Len(a) + Len(b)) :
         (a \o b)[j] = IF j <= Len(a) THEN a[j] ELSE b[j - Len(a)]
  BY <1>3, <1>4
<1>8. ASSUME NEW j \in 1..(Len(s) - 1)
      PROVE  (a \o b)[j] = IF j < i THEN s[j] ELSE s[j + 1]
  <2>1. CASE j < i
    <3>1. j \in 1..(Len(a) + Len(b)) /\ j <= Len(a) /\ j \in 1..(i - 1)
      BY <1>1, <1>3, <1>4, <2>1
    <3>2. (a \o b)[j] = a[j]
      BY <1>7, <3>1
    <3>3. QED
      BY <1>3, <2>1, <3>1, <3>2
  <2>2. CASE ~(j < i)
    <3>1. /\ j \in 1..(Len(a) + Len(b)) /\ ~(j <= Len(a))
          /\ j - Len(a) \in 1..(Len(s) - i) /\ i + (j - Len(a)) = j + 1
      BY <1>1, <1>3, <1>4, <2>2
    <3>2. (a \o b)[j] = b[j - Len(a)]
      BY <1>7, <3>1
    <3>3. QED
      BY <1>4, <2>2, <3>1, <3>2
  <2>3. QED
    BY <2>1, <2>2
<1>9. QED
  BY <1>1, <1>3, <1>4, <1>5, <1>6, <1>8

(* A byte is lost: the gaps on both sides of it become one. *)
LEMMA TrackLose ==
  ASSUME LinkTypes, NEW e, NEW p, NEW d, Track(e, p, d),
         NEW i \in 1..Len(line), line' = RemoveAt(line, i), lost' = lost + 1,
         UNCHANGED <<sent, cut>>,
         UNCHANGED <<tx_state, tx_skb, tx_current, tx_escape_next>>
  PROVE  \E ee, pp, dd : Track(ee, pp, dd)' /\ ee[0] = e[0] /\ dd[0] = d[0]
<1>1. /\ sent \in Seq(Frames) /\ Len(line) \in Nat /\ line \in Seq(Byte)
      /\ lost \in Nat /\ cut \in Nat
  BY DEF LinkTypes
<1>2. PICK n \in Nat : Len(line) = n + 1
  <2>1. Len(line) - 1 \in Nat /\ Len(line) = (Len(line) - 1) + 1
    BY <1>1
  <2>2. QED
    BY <2>1
<1>3. /\ Len(line') = n
      /\ \A j \in 1..n : line'[j] = IF j < i THEN line[j] ELSE line[j + 1]
  <2>1. Len(line) - 1 = n
    BY <1>2
  <2>2. /\ Len(RemoveAt(line, i)) = Len(line) - 1
        /\ \A j \in 1..(Len(line) - 1) :
              RemoveAt(line, i)[j] = IF j < i THEN line[j] ELSE line[j + 1]
    BY <1>1, RemoveFacts
  <2>3. QED
    BY <2>1, <2>2
<1>4. i \in 1..(n + 1)
  BY <1>2
<1>5. PICK ee, pp, dd :
         /\ ee = [j \in 0..n |-> IF j < i THEN e[j] ELSE e[j + 1]]
         /\ pp = [j \in 1..(n + 1) |-> IF j < i THEN p[j] ELSE p[j + 1]]
         /\ dd = [j \in 0..(n + 1) |-> IF j < i THEN d[j] ELSE d[j + 1] + 1]
  OBVIOUS
<1>6. /\ \A j \in 0..n : ee[j] = IF j < i THEN e[j] ELSE e[j + 1]
      /\ \A j \in 1..(n + 1) : pp[j] = IF j < i THEN p[j] ELSE p[j + 1]
      /\ \A j \in 0..(n + 1) : dd[j] = IF j < i THEN d[j] ELSE d[j + 1] + 1
  BY <1>5
<1>7. \A j \in 1..(n + 1) : /\ p[j].k <= Len(sent) /\ line[j] = Wire(sent, p[j])
                            /\ e[j] = After(sent, p[j])
  BY <1>2 DEF Track
<1>8. \A j \in 0..(n + 1) :
         /\ InStream(sent, e[j]) /\ InStream(sent, p[j + 1])
         /\ d[j] \in Nat /\ d[j + 1] - d[j] \in Nat
         /\ Ahead(sent, e[j], p[j + 1], d[j + 1] - d[j])
  BY <1>2 DEF Track
<1>9. d[n + 2] = lost + cut /\ TxAt(p[n + 2])
  <2>1. Len(line) + 1 = n + 2
    BY <1>2
  <2>2. QED
    BY <2>1 DEF Track
<1>10. ASSUME NEW j \in 1..n
       PROVE  /\ pp[j].k <= Len(sent) /\ line'[j] = Wire(sent, pp[j])
              /\ ee[j] = After(sent, pp[j])
  <2>1. CASE j < i
    <3>1. pp[j] = p[j] /\ ee[j] = e[j] /\ line'[j] = line[j] /\ j \in 1..(n + 1)
      BY <1>3, <1>6, <2>1
    <3>2. QED
      BY <1>7, <3>1
  <2>2. CASE ~(j < i)
    <3>1. /\ pp[j] = p[j + 1] /\ ee[j] = e[j + 1] /\ line'[j] = line[j + 1]
          /\ j + 1 \in 1..(n + 1)
      BY <1>3, <1>6, <2>2
    <3>2. QED
      BY <1>7, <3>1
  <2>3. QED
    BY <2>1, <2>2
<1>11. ASSUME NEW j \in 0..n
       PROVE  /\ InStream(sent, ee[j]) /\ InStream(sent, pp[j + 1])
              /\ dd[j] \in Nat /\ dd[j + 1] - dd[j] \in Nat
              /\ Ahead(sent, ee[j], pp[j + 1], dd[j + 1] - dd[j])
  <2>1. j \in 0..(n + 1) /\ j + 1 \in 0..(n + 1) /\ j + 1 \in 1..(n + 1) /\ (j + 1) + 1 = j + 2
    OBVIOUS
  <2>2. CASE j + 1 < i
    <3>1. /\ ee[j] = e[j] /\ pp[j + 1] = p[j + 1]
          /\ dd[j] = d[j] /\ dd[j + 1] = d[j + 1]
      BY <1>4, <1>6, <2>1, <2>2
    <3>2. QED
      BY <1>8, <2>1, <3>1
  <2>3. CASE j + 1 = i
    <3>1. /\ ee[j] = e[j] /\ pp[j + 1] = p[j + 2]
          /\ dd[j] = d[j] /\ dd[j + 1] = d[j + 2] + 1
      BY <1>4, <1>6, <2>1, <2>3
    <3>2. /\ InStream(sent, e[j]) /\ InStream(sent, p[j + 1])
          /\ d[j] \in Nat /\ d[j + 1] - d[j] \in Nat
          /\ Ahead(sent, e[j], p[j + 1], d[j + 1] - d[j])
      BY <1>8, <2>1
    <3>3. /\ InStream(sent, p[j + 2]) /\ d[j + 1] \in Nat /\ d[j + 2] - d[j + 1] \in Nat
          /\ Ahead(sent, e[j + 1], p[j + 2], d[j + 2] - d[j + 1])
      BY <1>8, <2>1
    <3>4. p[j + 1].k <= Len(sent) /\ e[j + 1] = After(sent, p[j + 1])
      BY <1>7, <2>1
    <3>5. PICK g \in Nat, h \in Nat : g = d[j + 1] - d[j] /\ h = d[j + 2] - d[j + 1]
      BY <3>2, <3>3
    <3>6. Ahead(sent, e[j], p[j + 2], g + h + 1)
      BY <1>1, <3>2, <3>3, <3>4, <3>5, AheadLost
    <3>7. (d[j + 2] + 1) - d[j] = g + h + 1
      <4>1. n + 2 >= j + 2
        OBVIOUS
      <4>2. d[j + 2] \in Int
        <5>1. CASE j = n
          BY <1>1, <1>9, <5>1
        <5>2. CASE j # n
          <6>1. j + 2 \in 0..(n + 1)
            BY <5>2
          <6>2. QED
            BY <1>8, <6>1
        <5>3. QED
          BY <5>1, <5>2
      <4>3. PICK u \in Int, v \in Int, w \in Int : u = d[j] /\ v = d[j + 1] /\ w = d[j + 2]
        BY <3>2, <3>3, <4>2
      <4>4. g = v - u /\ h = w - v
        BY <3>5, <4>3
      <4>5. (w + 1) - u = g + h + 1
        BY <4>4
      <4>6. QED
        BY <4>3, <4>5
    <3>8. QED
      BY <3>1, <3>2, <3>3, <3>6, <3>7
  <2>4. CASE j >= i
    <3>1. /\ ee[j] = e[j + 1] /\ pp[j + 1] = p[j + 2]
          /\ dd[j] = d[j + 1] + 1 /\ dd[j + 1] = d[j + 2] + 1
      BY <1>4, <1>6, <2>1, <2>4
    <3>2. /\ InStream(sent, e[j + 1]) /\ InStream(sent, p[j + 2])
          /\ d[j + 1] \in Nat /\ d[j + 2] - d[j + 1] \in Nat
          /\ Ahead(sent, e[j + 1], p[j + 2], d[j + 2] - d[j + 1])
      BY <1>8, <2>1
    <3>3. d[j + 2] \in Int
      <4>1. CASE j = n
        BY <1>1, <1>9, <4>1
      <4>2. CASE j # n
        <5>1. j + 2 \in 0..(n + 1)
          BY <4>2
        <5>2. QED
          BY <1>8, <5>1
      <4>3. QED
        BY <4>1, <4>2
    <3>4. d[j + 1] + 1 \in Nat /\ (d[j + 2] + 1) - (d[j + 1] + 1) = d[j + 2] - d[j + 1]
      BY <3>2, <3>3, SMTT(20)
    <3>5. QED
      BY <3>1, <3>2, <3>4
  <2>5. j + 1 < i \/ j + 1 = i \/ j >= i
    BY <1>4
  <2>6. QED
    BY <2>2, <2>3, <2>4, <2>5, Zenon
<1>12. dd[n + 1] = lost' + cut' /\ pp[n + 1] = p[n + 2]
  <2>1. ~(n + 1 < i) /\ (n + 1) + 1 = n + 2 /\ n + 1 \in 0..(n + 1) /\ n + 1 \in 1..(n + 1)
    BY <1>4
  <2>2. dd[n + 1] = d[n + 2] + 1 /\ pp[n + 1] = p[n + 2]
    BY <1>6, <2>1
  <2>3. QED
    BY <1>1, <1>9, <2>2
<1>13. TxAt(pp[Len(line) + 1])'
  <2>1. PICK t : t = p[n + 2]
    OBVIOUS
  <2>2. TxAt(t)'
    BY <1>9, <2>1 DEF TxAt, Content
  <2>3. pp[Len(line') + 1] = t
    BY <1>3, <1>12, <2>1
  <2>4. QED
    BY <2>2, <2>3
<1>14. Track(ee, pp, dd)'
  BY <1>3, <1>10, <1>11, <1>12, <1>13 DEF Track
<1>15. ee[0] = e[0] /\ dd[0] = d[0]
  BY <1>4, <1>6
<1>16. QED
  BY <1>14, <1>15

(* The sender is stopped in mid-frame: its next byte is the header of the  *)
(* next frame.                                                             *)
LEMMA TrackCut ==
  ASSUME LinkTypes, NEW e, NEW p, NEW d, Track(e, p, d), tx_state # "IDLE",
         tx_state' = "IDLE", cut' = cut + 1, UNCHANGED <<line, sent, lost>>
  PROVE  \E pp, dd : Track(e, pp, dd)' /\ dd[0] = d[0]
<1>1. /\ sent \in Seq(Frames) /\ Len(line) \in Nat /\ Len(sent) \in Nat
      /\ lost \in Nat /\ cut \in Nat
  BY DEF LinkTypes
<1>2. PICK n \in Nat : n = Len(line)
  BY <1>1
<1>3. PICK r : r = At(Len(sent) + 1, "HEADER", 1, FALSE)
  OBVIOUS
<1>4. /\ r.k = Len(sent) + 1 /\ r.field = "HEADER" /\ r.i = 1 /\ r.esc = FALSE
      /\ r \in Pos
  BY <1>1, <1>3 DEF At, Pos, Fields
<1>5. InStream(sent, r)
  BY <1>1, <1>4 DEF InStream
<1>6. PICK pp, dd :
         /\ pp = [j \in 1..(n + 1) |-> IF j = n + 1 THEN r ELSE p[j]]
         /\ dd = [j \in 0..(n + 1) |-> IF j = n + 1 THEN d[n + 1] + 1 ELSE d[j]]
  OBVIOUS
<1>7. /\ pp[n + 1] = r /\ \A j \in 1..n : pp[j] = p[j]
      /\ dd[n + 1] = d[n + 1] + 1 /\ \A j \in 0..n : dd[j] = d[j]
  BY <1>6
<1>8. d[n + 1] = lost + cut /\ TxAt(p[n + 1])
  BY <1>2 DEF Track
<1>9. p[n + 1].k = Len(sent)
  BY <1>8 DEF TxAt
<1>10. ASSUME NEW j \in 1..n
       PROVE  /\ pp[j].k <= Len(sent) /\ line[j] = Wire(sent, pp[j])
              /\ e[j] = After(sent, pp[j])
  <2>1. pp[j] = p[j]
    BY <1>7
  <2>2. QED
    BY <1>2, <2>1 DEF Track
<1>11. ASSUME NEW j \in 0..n
       PROVE  /\ InStream(sent, e[j]) /\ InStream(sent, pp[j + 1])
              /\ dd[j] \in Nat /\ dd[j + 1] - dd[j] \in Nat
              /\ Ahead(sent, e[j], pp[j + 1], dd[j + 1] - dd[j])
  <2>1. /\ InStream(sent, e[j]) /\ InStream(sent, p[j + 1])
        /\ d[j] \in Nat /\ d[j + 1] - d[j] \in Nat /\ dd[j] = d[j]
        /\ Ahead(sent, e[j], p[j + 1], d[j + 1] - d[j])
    BY <1>2, <1>7 DEF Track
  <2>2. CASE j = n
    <3>1. pp[j + 1] = r /\ dd[j + 1] = d[j + 1] + 1 /\ d[j + 1] = lost + cut
      BY <1>7, <1>8, <2>2
    <3>2. PICK g \in Nat : g = d[j + 1] - d[j]
      BY <2>1
    <3>3. r.k = p[j + 1].k + 1
      BY <1>4, <1>9, <2>2
    <3>4. Ahead(sent, e[j], r, g + 1)
      BY <1>1, <1>4, <2>1, <3>2, <3>3, AheadCut
    <3>5. (d[j + 1] + 1) - d[j] = g + 1
      BY <1>1, <2>1, <3>1, <3>2
    <3>6. QED
      BY <1>5, <2>1, <3>1, <3>4, <3>5
  <2>3. CASE j # n
    <3>1. j + 1 \in 1..n /\ j + 1 \in 0..n
      BY <2>3
    <3>2. pp[j + 1] = p[j + 1] /\ dd[j + 1] = d[j + 1]
      BY <1>7, <3>1
    <3>3. QED
      BY <2>1, <3>2
  <2>4. QED
    BY <2>2, <2>3
<1>12. dd[n + 1] = lost' + cut'
  BY <1>1, <1>7, <1>8
<1>13. TxAt(pp[Len(line) + 1])'
  <2>1. TxAt(r)'
    BY <1>3 DEF TxAt
  <2>2. pp[Len(line') + 1] = r
    BY <1>2, <1>7
  <2>3. QED
    BY <2>1, <2>2
<1>14. Track(e, pp, dd)'
  BY <1>2, <1>10, <1>11, <1>12, <1>13 DEF Track
<1>15. dd[0] = d[0]
  BY <1>7
<1>16. QED
  BY <1>14, <1>15

(* A step that leaves the receiver alone leaves it paid for. *)
LEMMA PaidSame ==
  ASSUME LinkTypes, NEW q, InStream(sent, q), NEW x, Paid(q, x), UNCHANGED rxVars,
         UNCHANGED sent \/ \E f \in Frames : sent' = Append(sent, f)
  PROVE  Paid(q, x)'
<1>1. q.field # "HEADER" => sent'[q.k] = sent[q.k]
  <2>1. ASSUME NEW f \in Frames, sent' = Append(sent, f), q.field # "HEADER"
        PROVE  sent'[q.k] = sent[q.k]
    BY <2>1, AppendFacts DEF InStream, LinkTypes
  <2>2. QED
    BY <2>1
<1>2. UNCHANGED <<rx_state, saved_state, rx_skb, rx_frame_length, rx_data_received,
                  rx_length_bytes, rx_length_index, stats, delivered, aborted>>
  BY DEF rxVars
<1>3. Reading(q) => Reading(q)'
  BY <1>1, <1>2 DEF Reading, State
<1>4. Aligned(q) => Aligned(q)'
  BY <1>2, <1>3 DEF Aligned
<1>5. Bill(x)' = Bill(x)
  BY <1>2 DEF Bill, Cost, MaxLen, MinWire
<1>6. Awaited(q)' = Awaited(q) /\ Supplied(q)' = Supplied(q)
  BY <1>2 DEF Awaited, Supplied, State, MaxLen, MinWire
<1>7. Astray(q, x) => Astray(q, x)'
  BY <1>2, <1>5, <1>6 DEF Astray, MinWire
<1>8. QED
  BY <1>2, <1>4, <1>5, <1>7 DEF Paid

(* Opening or stopping the receiver: a frame it was in the middle of is    *)
(* counted as aborted.                                                     *)
LEMMA PaidIdle ==
  ASSUME ShortFrames, RxInv, RxInv', sent \in Seq(Frames), NEW q, InStream(sent, q),
         NEW x \in Nat, Paid(q, x), rx_state' = "IDLE", UNCHANGED <<delivered, stats>>,
         aborted' = aborted + (IF rx_state # "IDLE" THEN 1 ELSE 0)
  PROVE  Paid(q, x)'
<1>1. /\ q.k \in Nat /\ Len(delivered) \in Nat
      /\ stats.dropped \in Nat /\ aborted \in Nat
  BY CountType DEF InStream, Pos
<1>2. /\ Bill(x) \in Nat /\ Bill(x)' \in Nat
      /\ stats'.dropped >= stats.dropped /\ aborted' >= aborted => Bill(x)' >= Bill(x)
      /\ stats'.dropped + aborted' >= stats.dropped + aborted + 1 => Bill(x)' >= Bill(x) + 1
  BY BillNext
<1>3. /\ q.k - 1 - Len(delivered) <= Bill(x)
      /\ Astray(q, x) => q.k - Len(delivered) <= Bill(x)
  BY PaidFacts
<1>4. CASE rx_state = "IDLE"
  <2>1. Bill(x)' >= Bill(x)
    BY <1>1, <1>2, <1>4
  <2>2. CASE Astray(q, x)
    BY <1>1, <1>2, <1>3, <2>1, <2>2 DEF Paid, Astray
  <2>3. CASE Aligned(q)
    <3>1. q.field = "HEADER"
      BY <1>4, <2>3 DEF Aligned, Reading
    <3>2. q.k - 1 - Len(delivered') <= Bill(x)'
      BY <1>1, <1>2, <1>3, <2>1
    <3>3. QED
      BY <3>1, <3>2 DEF Paid, Aligned
  <2>4. QED
    BY <2>2, <2>3 DEF Paid
<1>5. CASE rx_state # "IDLE"
  <2>1. Bill(x)' >= Bill(x) + 1
    BY <1>1, <1>2, <1>5
  <2>2. q.k - Len(delivered') <= Bill(x)'
    BY <1>1, <1>2, <1>3, <2>1
  <2>3. QED
    BY <2>2 DEF Paid, Astray
<1>6. QED
  BY <1>4, <1>5

(* At first nothing is missing. *)
LEMMA DamageInit == LinkInit => DamageInv
<1> SUFFICES ASSUME LinkInit PROVE DamageInv
  OBVIOUS
<1>1. RxInv /\ LinkTypes
  BY LinkInitInv DEF LinkInv
<1>2. /\ tx_state = "IDLE" /\ line = <<>> /\ sent = <<>> /\ lost = 0 /\ cut = 0
      /\ rx_state = "IDLE" /\ delivered = <<>> /\ aborted = 0 /\ stats.dropped = 0
  BY DEF LinkInit, RxInit
<1>3. Len(line) = 0 /\ Len(sent) = 0 /\ Len(delivered) = 0
  BY <1>2
<1>4. PICK q : q = At(1, "HEADER", 1, FALSE)
  OBVIOUS
<1>5. q \in Pos /\ q.k = 1 /\ q.field = "HEADER" /\ q.i = 1 /\ q.esc = FALSE
  BY <1>4 DEF At, Pos, Fields
<1>6. InStream(sent, q)
  BY <1>3, <1>5 DEF InStream
<1>7. PICK p, d : p = [j \in 0..1 |-> q] /\ d = [j \in 0..1 |-> 0]
  OBVIOUS
<1>8. p[0] = q /\ p[1] = q /\ d[0] = 0 /\ d[1] = 0
  BY <1>7
<1>9. Track(p, p, d)
  <2>1. \A j \in 1..Len(line) : FALSE
    BY <1>3
  <2>2. ASSUME NEW j \in 0..Len(line)
        PROVE  /\ InStream(sent, p[j]) /\ InStream(sent, p[j + 1])
               /\ d[j] \in Nat /\ d[j + 1] - d[j] \in Nat
               /\ Ahead(sent, p[j], p[j + 1], d[j + 1] - d[j])
    <3>1. j = 0 /\ j + 1 = 1
      BY <1>3
    <3>2. d[j] \in Nat /\ d[j + 1] - d[j] = 0 /\ p[j] = q /\ p[j + 1] = q
      BY <1>8, <3>1
    <3>3. Ahead(sent, q, q, 0)
      BY DEF Ahead
    <3>4. QED
      BY <1>6, <3>2, <3>3
  <2>3. d[Len(line) + 1] = lost + cut
    BY <1>2, <1>3, <1>8
  <2>4. TxAt(p[Len(line) + 1])
    <3>1. Len(line) + 1 = 1 /\ Len(sent) + 1 = 1
      BY <1>3
    <3>2. TxAt(q)
      BY <1>2, <1>4, <3>1 DEF TxAt
    <3>3. QED
      BY <1>8, <3>1, <3>2
  <2>5. QED
    BY <2>1, <2>2, <2>3, <2>4 DEF Track
<1>10. Paid(q, 0)
  <2>1. Bill(0) \in Nat
    <3>1. 0 * Cost = 0
      <4>1. Cost \in Nat
        BY RxAssumption DEF Cost, MaxLen, MinWire
      <4>2. QED
        BY <4>1
    <3>2. QED
      BY <1>2, <3>1 DEF Bill
  <2>2. q.k - 1 - Len(delivered) <= Bill(0)
    BY <1>3, <1>5, <2>1
  <2>3. QED
    BY <1>2, <1>5, <2>2 DEF Paid, Aligned
<1>11. QED
  BY <1>1, <1>8, <1>9, <1>10 DEF DamageInv

(* Every step of the link keeps the damage paid for. *)
LEMMA DamageStep ==
  ASSUME ShortFrames, NoEscapeChar, DamageInv, [LinkNext]_linkVars
  PROVE  DamageInv'
<1>1. /\ RxInv /\ LinkTypes /\ sent \in Seq(Frames) /\ line \in Seq(Byte)
      /\ Len(line) \in Nat /\ Len(sent) \in Nat
  BY DEF DamageInv, LinkTypes
<1>2. RxInv' /\ LinkTypes'
  BY <1>1, LinkRxStep, LinkTypesStep
<1>3. PICK e, p, d : Track(e, p, d) /\ Paid(e[0], d[0])
  BY DEF DamageInv
<1>4. PICK q, x : q = e[0] /\ x = d[0]
  OBVIOUS
<1>5. InStream(sent, q) /\ x \in Nat /\ Paid(q, x)
  BY <1>1, <1>3, <1>4 DEF Track
<1> SUFFICES \E ee, pp, dd : Track(ee, pp, dd)' /\ Paid(ee[0], dd[0])'
  BY <1>2 DEF DamageInv
<1>6. ASSUME NEW ee, NEW pp, NEW dd, Track(ee, pp, dd)', ee[0] = q, dd[0] = x, Paid(q, x)'
      PROVE  \E e1, p1, d1 : Track(e1, p1, d1)' /\ Paid(e1[0], d1[0])'
  <2>1. Paid(ee[0], dd[0])'
    BY <1>6
  <2>2. QED
    BY <1>6, <2>1
<1>7. PICK t : t = p[Len(line) + 1]
  OBVIOUS
<1>8. TxAt(t) /\ InStream(sent, t) /\ t.field # "IDLE"
  BY <1>1, <1>3, <1>7 DEF Track, InStream, Pos, Fields
<1>9. ASSUME UNCHANGED <<line, sent, lost, cut>>, TxAt(t)', Paid(q, x)'
      PROVE  \E ee, pp, dd : Track(ee, pp, dd)' /\ Paid(ee[0], dd[0])'
  <2>1. TxAt(p[Len(line) + 1])'
    BY <1>7, <1>9
  <2>2. Track(e, p, d)'
    BY <1>3, <1>9, <2>1, TrackSame
  <2>3. QED
    BY <1>4, <1>6, <1>9, <2>2
<1>10. ASSUME UNCHANGED <<tx_state, tx_skb, tx_current, tx_escape_next, sent>>
       PROVE  TxAt(t)'
  BY <1>8, <1>10 DEF TxAt, Content
<1>11. ASSUME NEW f \in Frames, uartnet_start_xmit(f)
       PROVE  \E ee, pp, dd : Track(ee, pp, dd)' /\ Paid(ee[0], dd[0])'
  <2>1. UNCHANGED rxVars /\ UNCHANGED <<line, lost, cut>>
    BY <1>11 DEF uartnet_start_xmit
  <2>2. CASE tx_state # "IDLE"
    <3>1. UNCHANGED <<tx_state, tx_skb, tx_current, tx_escape_next, sent>>
      BY <1>11, <2>2 DEF uartnet_start_xmit, txPriv
    <3>2. Paid(q, x)'
      BY <1>1, <1>5, <2>1, <3>1, PaidSame
    <3>3. QED
      BY <1>9, <1>10, <2>1, <3>1, <3>2
  <2>3. CASE tx_state = "IDLE"
    <3>1. /\ sent' = Append(sent, f) /\ tx_state' = "HEADER" /\ tx_skb' = f
          /\ tx_current' = LengthBytes(f) /\ tx_escape_next' = FALSE
      BY <1>11, <2>3 DEF uartnet_start_xmit
    <3>2. Len(sent') = Len(sent) + 1 /\ sent'[Len(sent) + 1] = f
      BY <1>1, <1>11, <3>1
    <3>3. t = At(Len(sent) + 1, "HEADER", 1, FALSE)
      BY <1>8, <2>3 DEF TxAt
    <3>4. t.k = Len(sent) + 1 /\ t.field = "HEADER" /\ t.i = 1 /\ t.esc = FALSE
      BY <3>3 DEF At
    <3>5. TxAt(t)'
      BY <3>1, <3>2, <3>4 DEF TxAt
    <3>6. TxAt(p[Len(line) + 1])'
      BY <1>7, <2>1, <3>5
    <3>7. Track(e, p, d)'
      BY <1>1, <1>3, <1>11, <2>1, <3>1, <3>6, TrackSend
    <3>8. Paid(q, x)'
      BY <1>1, <1>5, <1>11, <2>1, <3>1, PaidSame
    <3>9. QED
      BY <1>4, <1>6, <3>7, <3>8
  <2>4. QED
    BY <2>2, <2>3
<1>12. CASE uartnet_tx_step
  <2>1. PICK r : r = After(sent, t)
    OBVIOUS
  <2>2. /\ line' = Append(line, Wire(sent, t)) /\ UNCHANGED sent
        /\ t.k <= Len(sent) /\ TxAt(r)'
    BY <1>1, <1>8, <1>12, <2>1, HeaderStep, FieldStep, FooterStep DEF uartnet_tx_step
  <2>3. UNCHANGED rxVars /\ UNCHANGED <<lost, cut>>
    BY <1>12 DEF uartnet_tx_step, TxHeader, TxLength, TxData, TxFooter, WriteEscaped, WriteDR
  <2>4. PICK ee, pp, dd : Track(ee, pp, dd)' /\ ee[0] = e[0] /\ dd[0] = d[0]
    BY <1>1, <1>3, <1>7, <2>1, <2>2, <2>3, TrackWrite
  <2>5. Paid(q, x)'
    BY <1>1, <1>5, <2>2, <2>3, PaidSame
  <2>6. QED
    BY <1>4, <1>6, <2>4, <2>5
<1>13. CASE LinkReceive
  <2>1. /\ line # <<>> /\ uartnet_poll_byte(Head(line)) /\ line' = Tail(line)
        /\ UNCHANGED <<sent, lost, cut>>
        /\ UNCHANGED <<tx_state, tx_skb, tx_current, tx_escape_next>>
    BY <1>13 DEF LinkReceive, txVars, txPriv
  <2>2. PICK r, a, y, g : r = p[1] /\ a = After(sent, r) /\ y = d[1] /\ g = d[1] - d[0]
    OBVIOUS
  <2>3. /\ Head(line) = Wire(sent, r) /\ r.k <= Len(sent) /\ InStream(sent, r)
        /\ g \in Nat /\ y \in Nat /\ Ahead(sent, q, r, g) /\ y = x + g
        /\ \E ee, pp, dd : Track(ee, pp, dd)' /\ ee[0] = a /\ dd[0] = y
    <3>1. /\ Head(line) = Wire(sent, p[1]) /\ p[1].k <= Len(sent)
          /\ InStream(sent, e[0]) /\ InStream(sent, p[1])
          /\ d[0] \in Nat /\ d[1] - d[0] \in Nat /\ d[1] \in Nat
          /\ Ahead(sent, e[0], p[1], d[1] - d[0])
          /\ \E ee, pp, dd : Track(ee, pp, dd)' /\ ee[0] = After(sent, p[1]) /\ dd[0] = d[1]
      BY <1>1, <1>3, <2>1, TrackRead
    <3>2. d[1] = d[0] + (d[1] - d[0])
      BY <3>1
    <3>3. QED
      BY <1>4, <2>2, <3>1, <3>2
  <2>4. Paid(r, x + g)
    BY <1>1, <1>5, <2>3, PaidGap
  <2>5. Paid(r, y) /\ uartnet_poll_byte(Wire(sent, r))
    BY <2>1, <2>3, <2>4
  <2>6. Paid(a, y)'
    BY <1>1, <1>2, <2>1, <2>2, <2>3, <2>5, PaidRead
  <2>7. PICK ee, pp, dd : Track(ee, pp, dd)' /\ ee[0] = a /\ dd[0] = y
    BY <2>3
  <2>8. Paid(ee[0], dd[0])'
    BY <2>6, <2>7
  <2>9. QED
    BY <2>7, <2>8
<1>14. CASE TxOpen \/ (TxStop /\ tx_state = "IDLE")
  <2>1. tx_state = "IDLE" /\ tx_state' = "IDLE"
    BY <1>1, <1>14 DEF TxOpen, TxStop, LinkTypes
  <2>2. UNCHANGED <<line, sent, lost>> /\ UNCHANGED rxVars
    BY <1>14 DEF TxOpen, TxStop
  <2>3. UNCHANGED cut
    BY <1>1, <1>14 DEF TxOpen, TxStop, LinkTypes
  <2>4. TxAt(t)'
    BY <1>8, <2>1, <2>2 DEF TxAt
  <2>5. Paid(q, x)'
    BY <1>1, <1>5, <2>2, PaidSame
  <2>6. QED
    BY <1>9, <2>2, <2>3, <2>4, <2>5
<1>15. CASE TxStop /\ tx_state # "IDLE"
  <2>1. /\ tx_state' = "IDLE" /\ cut' = cut + 1 /\ UNCHANGED <<line, sent, lost>>
        /\ UNCHANGED rxVars
    BY <1>15 DEF TxStop
  <2>2. PICK pp, dd : Track(e, pp, dd)' /\ dd[0] = d[0]
    BY <1>1, <1>3, <1>15, <2>1, TrackCut
  <2>3. Paid(q, x)'
    BY <1>1, <1>5, <2>1, PaidSame
  <2>4. QED
    BY <1>4, <1>6, <2>2, <2>3
<1>16. CASE LinkRxOpen \/ LinkRxStop
  <2>1. /\ UNCHANGED <<line, sent, lost, cut>>
        /\ UNCHANGED <<tx_state, tx_skb, tx_current, tx_escape_next>>
        /\ rx_state' = "IDLE" /\ UNCHANGED <<delivered, stats>>
    BY <1>16 DEF LinkRxOpen, LinkRxStop, RxOpen, RxStop, txVars, txPriv
  <2>2. aborted' = aborted + (IF rx_state # "IDLE" THEN 1 ELSE 0)
    <3>1. CASE LinkRxOpen
      <4>1. rx_state = "IDLE" /\ aborted \in Nat /\ aborted' = aborted
        BY <1>1, <3>1, Parts DEF LinkRxOpen, RxOpen, DownIdle, ResultType
      <4>2. QED
        BY <4>1
    <3>2. CASE LinkRxStop
      BY <3>2 DEF LinkRxStop, RxStop
    <3>3. QED
      BY <1>16, <3>1, <3>2
  <2>3. Paid(q, x)'
    BY <1>1, <1>2, <1>5, <2>1, <2>2, PaidIdle
  <2>4. QED
    BY <1>9, <1>10, <2>1, <2>3
<1>17. CASE LoseByte
  <2>1. PICK i \in 1..Len(line) : line' = RemoveAt(line, i)
    BY <1>17 DEF LoseByte
  <2>2. /\ lost' = lost + 1 /\ UNCHANGED <<sent, cut>> /\ UNCHANGED rxVars
        /\ UNCHANGED <<tx_state, tx_skb, tx_current, tx_escape_next>>
    BY <1>17 DEF LoseByte, txVars, txPriv
  <2>3. PICK ee, pp, dd : Track(ee, pp, dd)' /\ ee[0] = e[0] /\ dd[0] = d[0]
    BY <1>1, <1>3, <2>1, <2>2, TrackLose
  <2>4. Paid(q, x)'
    BY <1>1, <1>5, <2>2, PaidSame
  <2>5. QED
    BY <1>4, <1>6, <2>3, <2>4
<1>18. CASE UNCHANGED linkVars
  <2>1. /\ UNCHANGED <<line, sent, lost, cut>> /\ UNCHANGED rxVars
        /\ UNCHANGED <<tx_state, tx_skb, tx_current, tx_escape_next>>
    BY <1>18 DEF linkVars, txVars, txPriv
  <2>2. Paid(q, x)'
    BY <1>1, <1>5, <2>1, PaidSame
  <2>3. QED
    BY <1>9, <1>10, <2>1, <2>2
<1>19. QED
  BY <1>11, <1>12, <1>13, <1>14, <1>15, <1>16, <1>17, <1>18 DEF LinkNext

(* Once the line is empty and the sender idle, what is missing is paid for *)
(* by all the events there were.                                           *)
LEMMA DamageQuiet ==
  ASSUME ShortFrames, DamageInv
  PROVE  DamageBounded
<1> SUFFICES ASSUME line = <<>>, tx_state = "IDLE"
             PROVE  Len(sent) - Len(delivered) <=
                      stats.dropped + aborted + (lost + cut) * (2 + MaxLen \div MinWire)
  BY DEF DamageBounded
<1>1. /\ RxInv /\ LinkTypes /\ sent \in Seq(Frames) /\ Len(sent) \in Nat
      /\ Len(line) = 0 /\ Len(line) + 1 = 1
  BY DEF DamageInv, LinkTypes
<1>2. PICK e, p, d : Track(e, p, d) /\ Paid(e[0], d[0])
  BY DEF DamageInv
<1>3. PICK q, r, x, y, g : /\ q = e[0] /\ r = p[1] /\ x = d[0] /\ y = d[1]
                           /\ g = d[1] - d[0]
  OBVIOUS
<1>4. 0 \in 0..Len(line) /\ 0 + 1 = 1
  BY <1>1
<1>5. /\ InStream(sent, q) /\ InStream(sent, r) /\ x \in Nat /\ g \in Nat
      /\ Ahead(sent, q, r, g)
  BY <1>2, <1>3, <1>4 DEF Track
<1>6. y = lost + cut /\ TxAt(r)
  BY <1>1, <1>2, <1>3 DEF Track
<1>7. y \in Nat /\ y = x + g
  <2>1. y \in Nat
    BY <1>1, <1>6 DEF LinkTypes
  <2>2. g = y - x
    BY <1>3
  <2>3. QED
    BY <1>5, <2>1, <2>2
<1>8. Paid(r, x + g)
  BY <1>1, <1>2, <1>3, <1>5, PaidGap
<1>9. r.k - 1 - Len(delivered) <= Bill(y)
  BY <1>1, <1>5, <1>7, <1>8, PaidFacts
<1>10. r.k = Len(sent) + 1
  <2>1. r.field # "IDLE"
    BY <1>5 DEF InStream, Pos, Fields
  <2>2. r = At(Len(sent) + 1, "HEADER", 1, FALSE)
    BY <1>6, <2>1 DEF TxAt
  <2>3. QED
    BY <2>2 DEF At
<1>11. Bill(y) = stats.dropped + aborted + (lost + cut) * (2 + MaxLen \div MinWire)
  BY <1>6 DEF Bill, Cost
<1>12. Len(sent) - Len(delivered) <= Bill(y)
  <2>1. Len(delivered) \in Nat
    BY <1>1, CountType
  <2>2. QED
    BY <1>1, <1>9, <1>10, <2>1
<1>13. QED
  BY <1>11, <1>12

(* Damage stays bounded: when the line is quiet, the frames that did not   *)
(* come out of uartnet_poll are those it counted as dropped, those a stop  *)
(* of the receiver cut short, and at most 2 + MaxLen \div 5 for every byte *)
(* an overrun lost and every stop of the sender, however many there are    *)
(* and wherever they fall: uartnet_poll finds a frame header again.        *)
THEOREM LinkDamageBounded ==
  ASSUME ShortFrames, NoEscapeChar
  PROVE  LinkSpec => []DamageBounded
<1>1. DamageInv /\ [LinkNext]_linkVars => DamageInv'
  BY DamageStep
<1>2. DamageInv => DamageBounded
  BY DamageQuiet
<1>3. QED
  BY <1>1, <1>2, DamageInit, PTL DEF LinkSpec
=============================================================================
