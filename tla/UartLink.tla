------------------------------ MODULE UartLink ------------------------------
(***************************************************************************)
(* One direction of the UART network: the transmit state machine of one    *)
(* driver instance (uartnet_start_xmit, the switch of uartnet_tx_task), a  *)
(* byte line, and the receive state machine of its peer (UartRx).          *)
(*                                                                         *)
(* The line stands for the sender's transmit FIFO, the wire and the        *)
(* receiver's FIFO; it is external to the repository.  It may lose bytes   *)
(* (a receive overrun) and either interface may be taken down and up.      *)
(* Interrupts, the work queue and NAPI, which make the two state machines  *)
(* run, are the subject of UartNet; here they only appear as fairness.     *)
(***************************************************************************)
EXTENDS UartRx, SequencesExt

CONSTANTS
  Frames,       \* the frames the sender's stack may hand to the driver
  LineCap,      \* bytes the line holds before FR_TXFF is raised
  MaxSent,      \* bound: frames handed to the driver
  MaxLost,      \* bound: bytes lost on the line
  MaxStops      \* bound: times an interface is taken down

ASSUME LinkAssumption ==
  /\ Frames \subseteq Seq(Byte)
  /\ \A f \in Frames : ValidLength(Len(f))
  /\ LineCap \in Nat \ {0}
  /\ MaxSent \in Nat /\ MaxLost \in Nat /\ MaxStops \in Nat

VARIABLES
  tx_up,
  tx_state,
  tx_skb,
  tx_current,        \* the tx_current_count bytes at tx_current_ptr
  tx_escape_next,
  tx_queue_stopped,  \* __QUEUE_STATE_DRV_XOFF of the only queue
  tx_packets,
  tx_dropped,
  line,              \* bytes on their way, oldest first
  sent,              \* history: frames the driver accepted, in order
  lost,              \* history: bytes lost
  stops,             \* history: interfaces taken down
  cut                \* history: frames cut off by a stop of the sender

txPriv == <<tx_state, tx_skb, tx_current, tx_escape_next>>
txVars == <<tx_up, txPriv, tx_queue_stopped, tx_packets, tx_dropped>>
linkVars == <<rxVars, txVars, line, sent, lost, stops, cut>>

TxStates == {"IDLE", "HEADER", "LENGTH", "DATA", "FOOTER"}
-----------------------------------------------------------------------------
LinkInit ==
  /\ RxInit
  /\ tx_up = FALSE
  /\ tx_state = "IDLE"
  /\ tx_skb = NULL
  /\ tx_current = <<>>
  /\ tx_escape_next = FALSE
  /\ tx_queue_stopped = TRUE
  /\ tx_packets = 0
  /\ tx_dropped = 0
  /\ line = <<>>
  /\ sent = <<>>
  /\ lost = 0
  /\ stops = 0
  /\ cut = 0

(* Mutant of LengthBytes: low byte first. *)
LengthBytesSwapped(f) == <<Len(f) % 256, (Len(f) \div 256) % 256>>

(* tx_length_bytes: the frame length, high byte first. *)
LengthBytes(f) == <<(Len(f) \div 256) % 256, Len(f) % 256>>

(* ndo_start_xmit, which the stack calls only while the queue is awake. *)
uartnet_start_xmit(f) ==
  /\ ~tx_queue_stopped
  /\ Len(sent) < MaxSent
  /\ tx_up
  /\ tx_queue_stopped' = TRUE
  /\ IF tx_state = "IDLE"
       THEN /\ tx_skb' = f
            /\ tx_state' = "HEADER"
            /\ tx_current' = LengthBytes(f)
            /\ tx_escape_next' = FALSE
            /\ sent' = Append(sent, f)
            /\ UNCHANGED tx_dropped
       ELSE /\ tx_dropped' = tx_dropped + 1
            /\ UNCHANGED <<txPriv, sent>>
  /\ UNCHANGED <<rxVars, tx_up, tx_packets, line, lost, stops, cut>>

(* Mutant of Special: the header byte is not escaped. *)
SpecialNoHeader(byte) == byte \in {FRAME_FOOTER, ESCAPE_CHAR}

Special(byte) == byte \in {FRAME_HEADER, FRAME_FOOTER, ESCAPE_CHAR}

(* A write to the data register; the loop of uartnet_tx_task first checks  *)
(* that the FIFO has room (FR_TXFF).                                       *)
WriteDR(byte) ==
  /\ Len(line) < LineCap
  /\ line' = Append(line, byte)
  /\ UNCHANGED <<rxVars, tx_up, tx_dropped, sent, lost, stops, cut>>

TxHeader ==
  /\ tx_state = "HEADER"
  /\ WriteDR(FRAME_HEADER)
  /\ tx_state' = "LENGTH"
  /\ UNCHANGED <<tx_skb, tx_current, tx_escape_next, tx_queue_stopped, tx_packets>>

EscapePending == ~tx_escape_next /\ Special(Head(tx_current))

(* One byte of a length or data field: an escape character announces a     *)
(* special byte, which follows with bit 5 flipped.                         *)
WriteEscaped ==
  LET byte == Head(tx_current) IN
  WriteDR(CASE tx_escape_next   -> Xor20(byte)
            [] EscapePending   -> ESCAPE_CHAR
            [] OTHER           -> byte)

TxLength ==
  /\ tx_state = "LENGTH"
  /\ tx_current # <<>>
  /\ WriteEscaped
  /\ IF EscapePending
       THEN /\ tx_escape_next' = TRUE
            /\ UNCHANGED <<tx_state, tx_current>>
       ELSE /\ tx_escape_next' = FALSE
            /\ IF Tail(tx_current) = <<>>
                 THEN tx_state' = "DATA" /\ tx_current' = tx_skb
                 ELSE tx_state' = "LENGTH" /\ tx_current' = Tail(tx_current)
  /\ UNCHANGED <<tx_skb, tx_queue_stopped, tx_packets>>

TxData ==
  /\ tx_state = "DATA"
  /\ tx_current # <<>>
  /\ WriteEscaped
  /\ IF EscapePending
       THEN /\ tx_escape_next' = TRUE
            /\ UNCHANGED <<tx_state, tx_current>>
       ELSE /\ tx_escape_next' = FALSE
            /\ tx_current' = Tail(tx_current)
            /\ tx_state' = IF tx_current' = <<>> THEN "FOOTER" ELSE "DATA"
  /\ UNCHANGED <<tx_skb, tx_queue_stopped, tx_packets>>

TxFooter ==
  /\ tx_state = "FOOTER"
  /\ WriteDR(FRAME_FOOTER)
  /\ tx_packets' = tx_packets + 1
  /\ tx_skb' = NULL
  /\ tx_state' = "IDLE"
  /\ tx_queue_stopped' = FALSE
  /\ UNCHANGED <<tx_current, tx_escape_next>>

(* One iteration of the loop of uartnet_tx_task. *)
uartnet_tx_step == TxHeader \/ TxLength \/ TxData \/ TxFooter

(* uartnet_open and uartnet_stop of the sending side, transmit half. *)
TxOpen ==
  /\ ~tx_up
  /\ tx_up' = TRUE
  /\ tx_state' = "IDLE"
  /\ tx_skb' = NULL
  /\ tx_queue_stopped' = FALSE
  /\ UNCHANGED <<rxVars, tx_current, tx_escape_next, tx_packets, tx_dropped,
                 line, sent, lost, stops, cut>>

TxStop ==
  /\ tx_up
  /\ stops < MaxStops
  /\ stops' = stops + 1
  /\ cut' = cut + (IF tx_state # "IDLE" THEN 1 ELSE 0)
  /\ tx_up' = FALSE
  /\ tx_queue_stopped' = TRUE
  /\ tx_skb' = NULL
  /\ tx_state' = "IDLE"
  /\ UNCHANGED <<rxVars, tx_current, tx_escape_next, tx_packets, tx_dropped,
                 line, sent, lost>>

-----------------------------------------------------------------------------
(* The receiving side takes the oldest byte off the line. *)
LinkReceive ==
  /\ line # <<>>
  /\ uartnet_poll_byte(Head(line))
  /\ line' = Tail(line)
  /\ UNCHANGED <<txVars, sent, lost, stops, cut>>

LinkRxOpen == RxOpen /\ UNCHANGED <<txVars, line, sent, lost, stops, cut>>

LinkRxStop ==
  /\ stops < MaxStops
  /\ RxStop
  /\ stops' = stops + 1
  /\ UNCHANGED <<txVars, line, sent, lost, cut>>

(* The receive FIFO overruns: a byte is lost. *)
LoseByte ==
  /\ lost < MaxLost
  /\ lost' = lost + 1
  /\ \E i \in 1..Len(line) : line' = RemoveAt(line, i)
  /\ UNCHANGED <<rxVars, txVars, sent, stops, cut>>

LinkNext ==
  \/ \E f \in Frames : uartnet_start_xmit(f)
  \/ uartnet_tx_step
  \/ LinkReceive
  \/ TxOpen
  \/ TxStop
  \/ LinkRxOpen
  \/ LinkRxStop
  \/ LoseByte

(* The work queue keeps running uartnet_tx_task while a frame is in        *)
(* progress, NAPI keeps polling while bytes wait, and interfaces that are  *)
(* down are brought up again.                                              *)
LinkFairness ==
  /\ WF_linkVars(uartnet_tx_step)
  /\ WF_linkVars(LinkReceive)
  /\ WF_linkVars(TxOpen)
  /\ WF_linkVars(LinkRxOpen)

LinkSpec == LinkInit /\ [][LinkNext]_linkVars /\ LinkFairness

-----------------------------------------------------------------------------
(* The link implements a frame channel: frames arrive unchanged, in order, *)
(* exactly once, and each one eventually.                                  *)
Channel == INSTANCE FrameChannel
ChannelSpec == Channel!ChanSpec

(* The deframer accepts only complete frames (the comment at the footer    *)
(* check of uartnet_poll): as long as every frame reaches the receiver in  *)
(* one piece, what it passes to the stack is a subsequence of what was     *)
(* sent; no frame is altered, duplicated or put together from pieces,      *)
(* although the receiver restarts in mid-frame and buffers cannot be       *)
(* allocated.                                                              *)
DeliveredWereSent ==
  lost + cut = 0 =>
    \E m \in [1..Len(delivered) -> 1..Len(sent)] :
       /\ \A i, j \in 1..Len(delivered) : i < j => m[i] < m[j]
       /\ \A i \in 1..Len(delivered) : delivered[i] = sent[m[i]]

(* The fewest bytes a frame takes on the line: header, length, one byte of *)
(* data, footer.                                                           *)
MinWire == 5

(* The receiver finds the frame boundary again.  A failed allocation or a  *)
(* stop of the receiver costs one frame.  A lost byte, or a frame cut off  *)
(* by a stop of the sender, costs that frame and the frame whose header    *)
(* was taken for a footer, and in between the frames that fit into the     *)
(* data still awaited.  (For 270, the driver's MaxLen; see ShortFrames in  *)
(* UartLinkProofs for the lengths where one more frame may be lost.)       *)
DamageBounded ==
  (line = <<>> /\ tx_state = "IDLE") =>
     Len(sent) - Len(delivered) <=
       stats.dropped + aborted + (lost + cut) * (2 + MaxLen \div MinWire)
=============================================================================
