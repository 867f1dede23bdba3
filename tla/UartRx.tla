------------------------------- MODULE UartRx -------------------------------
(***************************************************************************)
(* The receive state machine of the UART network driver: the body of the   *)
(* loop of uartnet_poll (uart_net.c), which takes one byte out of the      *)
(* PL011's receive FIFO and advances a five-state deframer, and the        *)
(* receive half of uartnet_open and uartnet_stop.                          *)
(*                                                                         *)
(* In this module the line is an arbitrary source of bytes (Noise), so     *)
(* what is shown here holds whatever the peer sends.  UartLink composes    *)
(* the same actions with the transmitter.                                  *)
(***************************************************************************)
EXTENDS Integers, Sequences

CONSTANTS
  UARTNET_MTU,  \* payload bytes of the largest frame (256 in the driver)
  ETH_HLEN,     \* bytes of the Ethernet header (14 in the kernel)
  Noise,        \* the bytes that may arrive from the line
  AllocMayFail, \* TRUE: netdev_alloc_skb_ip_align may return NULL
  MaxFrames,    \* bound: frame headers the receiver accepts
  NULL

Byte == 0..255
U16  == {n \in Nat : n < 65536}   \* a C uint16_t

(* A socket buffer: the bytes put so far and the room it was allocated.    *)
Skb == [data : Seq(Byte), room : Nat]

ASSUME RxAssumption ==
  /\ UARTNET_MTU \in Nat
  /\ ETH_HLEN \in Nat
  /\ Noise \subseteq Byte
  /\ AllocMayFail \in BOOLEAN
  /\ MaxFrames \in Nat

ASSUME NullAssumption == NULL \notin Skb

VARIABLES
  rx_up,             \* the interface has been opened and not yet stopped
  rx_state,
  saved_state,       \* state to return to after an escape
  rx_skb,
  rx_frame_length,
  rx_data_received,
  rx_length_bytes,
  rx_length_index,
  stats,             \* dev->stats, receive side
  delivered,         \* frames handed to the network stack, in order
  live,              \* history: buffers allocated, neither freed nor handed on
  frames,            \* history: frame headers accepted
  aborted            \* history: frames cut off by uartnet_stop

rxVars == <<rx_up, rx_state, saved_state, rx_skb, rx_frame_length,
            rx_data_received, rx_length_bytes, rx_length_index,
            stats, delivered, live, frames, aborted>>

FRAME_HEADER == 170   \* 0xAA
FRAME_FOOTER == 85    \* 0x55
ESCAPE_CHAR  == 90    \* 0x5A

RxStates == {"IDLE", "LENGTH", "DATA", "ESCAPE", "END"}

MaxLen == UARTNET_MTU + ETH_HLEN

(* b ^ 0x20: flips bit 5. *)
Xor20(b) == IF (b \div 32) % 2 = 0 THEN b + 32 ELSE b - 32

Count(field) == [stats EXCEPT ![field] = @ + 1]

-----------------------------------------------------------------------------
RxInit ==
  /\ rx_up = FALSE
  /\ rx_state = "IDLE"
  /\ saved_state = "IDLE"
  /\ rx_skb = NULL
  /\ rx_frame_length = 0
  /\ rx_data_received = 0
  /\ rx_length_bytes = [i \in 0..1 |-> 0]
  /\ rx_length_index = 0
  /\ stats = [packets |-> 0, length_errors |-> 0, dropped |-> 0,
              over_errors |-> 0, errors |-> 0]
  /\ delivered = <<>>
  /\ live = 0
  /\ frames = 0
  /\ aborted = 0

(* The restart label: in state ESCAPE the byte is un-escaped and processed *)
(* again in the state saved before the escape.                             *)
State == IF rx_state = "ESCAPE" THEN saved_state ELSE rx_state
Unescaped(byte) == IF rx_state = "ESCAPE" THEN Xor20(byte) ELSE byte

(* Mutant of IdleByte: rx_length_index is not cleared at a header. *)
IdleByteNoReset(byte) ==
  /\ State = "IDLE"
  /\ IF Unescaped(byte) = FRAME_HEADER
       THEN rx_state' = "LENGTH" /\ frames' = frames + 1
       ELSE rx_state' = State /\ UNCHANGED frames
  /\ rx_frame_length' = 0 /\ rx_data_received' = 0 /\ rx_skb' = NULL
  /\ UNCHANGED <<saved_state, rx_length_bytes, rx_length_index, stats,
                 delivered, live, aborted>>

(* Hunting for a frame: everything but a header is skipped. *)
IdleByte(byte) ==
  /\ State = "IDLE"
  /\ IF Unescaped(byte) = FRAME_HEADER
       THEN /\ rx_state' = "LENGTH"
            /\ rx_length_index' = 0
            /\ rx_frame_length' = 0
            /\ rx_data_received' = 0
            /\ rx_skb' = NULL
            /\ frames' = frames + 1
       ELSE /\ rx_state' = State
            /\ UNCHANGED <<rx_skb, rx_frame_length, rx_data_received,
                           rx_length_index, frames>>
  /\ UNCHANGED <<saved_state, rx_length_bytes, stats, delivered, live, aborted>>

(* An escape character inside the length or the data. *)
EscapeByte(byte) ==
  /\ State \in {"LENGTH", "DATA"}
  /\ Unescaped(byte) = ESCAPE_CHAR
  /\ saved_state' = State
  /\ rx_state' = "ESCAPE"
  /\ UNCHANGED <<rx_skb, rx_frame_length, rx_data_received, rx_length_bytes,
                 rx_length_index, stats, delivered, live, frames, aborted>>

(* Mutant of ValidLength: one byte too long passes. *)
ValidLengthOffByOne(len) == len # 0 /\ len <= MaxLen + 1

ValidLength(len) == len # 0 /\ len <= MaxLen

LengthByte(byte) ==
  LET bytes == [rx_length_bytes EXCEPT ![rx_length_index] = Unescaped(byte)]
      len   == bytes[0] * 256 + bytes[1]
  IN
  /\ State = "LENGTH"
  /\ Unescaped(byte) # ESCAPE_CHAR
  /\ rx_length_bytes' = bytes
  /\ rx_length_index' = rx_length_index + 1
  /\ \/ /\ rx_length_index' # 2
        /\ rx_state' = State
        /\ UNCHANGED <<rx_skb, rx_frame_length, stats, live>>
     \/ /\ rx_length_index' = 2
        /\ ~ValidLength(len)
        /\ rx_state' = "IDLE"
        /\ rx_skb' = NULL
        /\ live' = live - (IF rx_skb # NULL THEN 1 ELSE 0)
        /\ stats' = Count("length_errors")
        /\ UNCHANGED rx_frame_length
     \/ /\ rx_length_index' = 2
        /\ ValidLength(len)
        /\ rx_frame_length' = len
        /\ \/ /\ rx_skb' = [data |-> <<>>, room |-> len]
              /\ live' = live + 1
              /\ rx_state' = "DATA"
              /\ UNCHANGED stats
           \/ /\ AllocMayFail
              /\ rx_skb' = NULL
              /\ rx_state' = "IDLE"
              /\ stats' = Count("dropped")
              /\ UNCHANGED live
  /\ UNCHANGED <<saved_state, rx_data_received, delivered, frames, aborted>>

DataByte(byte) ==
  /\ State = "DATA"
  /\ Unescaped(byte) # ESCAPE_CHAR
  /\ IF rx_data_received < rx_frame_length
       THEN /\ rx_skb' = [rx_skb EXCEPT !.data = Append(@, Unescaped(byte))]
            /\ rx_data_received' = rx_data_received + 1
            /\ rx_state' = IF rx_data_received' >= rx_frame_length
                             THEN "END" ELSE "DATA"
            /\ UNCHANGED <<stats, live>>
       ELSE /\ rx_skb' = NULL
            /\ live' = live - 1
            /\ rx_state' = "IDLE"
            /\ stats' = Count("over_errors")
            /\ UNCHANGED rx_data_received
  /\ UNCHANGED <<saved_state, rx_frame_length, rx_length_bytes,
                 rx_length_index, delivered, frames, aborted>>

(* Mutants of EndByte: a frame with a bad footer is not counted, or is     *)
(* handed to the stack all the same.                                       *)
EndByteUncounted(byte) ==
  /\ State = "END"
  /\ IF Unescaped(byte) = FRAME_FOOTER
       THEN delivered' = Append(delivered, rx_skb.data) /\ stats' = Count("packets")
       ELSE UNCHANGED <<delivered, stats>>
  /\ live' = live - 1 /\ rx_skb' = NULL /\ rx_state' = "IDLE"
  /\ UNCHANGED <<saved_state, rx_frame_length, rx_data_received,
                 rx_length_bytes, rx_length_index, frames, aborted>>

EndByteBadFooter(byte) ==
  /\ State = "END"
  /\ delivered' = Append(delivered, rx_skb.data)
  /\ stats' = Count(IF Unescaped(byte) = FRAME_FOOTER THEN "packets" ELSE "errors")
  /\ live' = live - 1 /\ rx_skb' = NULL /\ rx_state' = "IDLE"
  /\ UNCHANGED <<saved_state, rx_frame_length, rx_data_received,
                 rx_length_bytes, rx_length_index, frames, aborted>>

(* The byte after the data must be the footer: the frame goes to the       *)
(* stack, or is freed and counted as an error.                             *)
EndByte(byte) ==
  /\ State = "END"
  /\ IF /\ Unescaped(byte) = FRAME_FOOTER
        /\ rx_skb # NULL
        /\ Len(rx_skb.data) = rx_frame_length
       THEN /\ delivered' = Append(delivered, rx_skb.data)
            /\ stats' = Count("packets")
       ELSE /\ stats' = Count("errors")
            /\ UNCHANGED delivered
  /\ live' = live - (IF rx_skb # NULL THEN 1 ELSE 0)
  /\ rx_skb' = NULL
  /\ rx_state' = "IDLE"
  /\ UNCHANGED <<saved_state, rx_frame_length, rx_data_received,
                 rx_length_bytes, rx_length_index, frames, aborted>>

(* One iteration of the loop of uartnet_poll. *)
uartnet_poll_byte(byte) ==
  /\ rx_up
  /\ UNCHANGED rx_up
  /\ \/ IdleByte(byte)
     \/ EscapeByte(byte)
     \/ LengthByte(byte)
     \/ DataByte(byte)
     \/ EndByte(byte)

(* The receive half of uartnet_open: the state machine is reset and rx_skb *)
(* is overwritten without being freed.                                     *)
RxOpen ==
  /\ ~rx_up
  /\ rx_up' = TRUE
  /\ rx_state' = "IDLE"
  /\ rx_skb' = NULL
  /\ UNCHANGED <<saved_state, rx_frame_length, rx_data_received,
                 rx_length_bytes, rx_length_index, stats, delivered, live,
                 frames, aborted>>

(* Mutants of RxStop: a buffer is freed whether there is one or not, or    *)
(* never.                                                                  *)
RxStopDoubleFree ==
  /\ rx_up /\ rx_up' = FALSE
  /\ live' = live - 1 /\ rx_skb' = NULL /\ rx_state' = "IDLE"
  /\ UNCHANGED <<saved_state, rx_frame_length, rx_data_received, aborted,
                 rx_length_bytes, rx_length_index, stats, delivered, frames>>

RxStopNoFree ==
  /\ rx_up /\ rx_up' = FALSE
  /\ rx_skb' = NULL /\ rx_state' = "IDLE"
  /\ UNCHANGED <<saved_state, rx_frame_length, rx_data_received, aborted, live,
                 rx_length_bytes, rx_length_index, stats, delivered, frames>>

(* The receive half of uartnet_stop, after napi_disable: no poll is        *)
(* running.  A frame in progress is thrown away.                           *)
RxStop ==
  /\ rx_up
  /\ rx_up' = FALSE
  /\ live' = live - (IF rx_skb # NULL THEN 1 ELSE 0)
  /\ rx_skb' = NULL
  /\ rx_state' = "IDLE"
  /\ aborted' = aborted + (IF rx_state # "IDLE" THEN 1 ELSE 0)
  /\ UNCHANGED <<saved_state, rx_frame_length, rx_data_received,
                 rx_length_bytes, rx_length_index, stats, delivered, frames>>

(* The line delivers a byte; the bound stops it from opening new frames.   *)
Receive(byte) ==
  /\ rx_state = "IDLE" => frames < MaxFrames
  /\ uartnet_poll_byte(byte)

RxNext ==
  \/ \E byte \in Noise : Receive(byte)
  \/ RxOpen
  \/ RxStop

RxSpec == RxInit /\ [][RxNext]_rxVars

-----------------------------------------------------------------------------
Stats == [packets : Nat, length_errors : Nat, dropped : Nat,
          over_errors : Nat, errors : Nat]

ControlType ==
  /\ rx_up \in BOOLEAN
  /\ rx_state \in RxStates
  /\ saved_state \in {"IDLE", "LENGTH", "DATA"}

LengthType ==
  /\ rx_length_bytes \in [0..1 -> Byte]
  /\ rx_length_index \in 0..255

BufferType ==
  /\ rx_skb \in Skb \cup {NULL}
  /\ rx_frame_length \in U16
  /\ rx_data_received \in U16

ResultType ==
  /\ stats \in Stats
  /\ delivered \in Seq(Seq(Byte))
  /\ live \in Nat
  /\ frames \in Nat
  /\ aborted \in Nat

(* Every field of the receiver keeps its C type. *)
RxTypeOK == ControlType /\ LengthType /\ BufferType /\ ResultType

(* The receiver never writes outside its buffers, whatever bytes arrive    *)
(* and whenever the interface is restarted: skb_put_u8 stays within the    *)
(* room netdev_alloc_skb_ip_align gave, never on a NULL buffer, no buffer  *)
(* exceeds the largest legal frame, and the two-element rx_length_bytes is *)
(* never indexed at 2.                                                     *)
BufferSafe ==
  /\ State \in {"DATA", "END"} =>
       /\ rx_skb # NULL
       /\ Len(rx_skb.data) = rx_data_received
       /\ rx_skb.room = rx_frame_length
  /\ State = "DATA" => rx_data_received < rx_skb.room
  /\ State = "END" => rx_data_received = rx_skb.room
  /\ rx_skb # NULL => rx_skb.room \in 1..MaxLen
  /\ State = "LENGTH" => rx_length_index < 2

(* Every allocated receive buffer is freed or handed to the stack exactly  *)
(* once: the only live one is the one priv->rx_skb points to.              *)
NoSkbLeak == live = (IF rx_skb = NULL THEN 0 ELSE 1)

(* Every accepted frame header is accounted for exactly once: as a packet, *)
(* as one of the error counters of dev->stats, as cut off by a stop, or as *)
(* the frame in progress.  The overflow branch of the data state is dead   *)
(* code (END is entered with the last byte), so rx_over_errors stays 0.    *)
FramesAccounted ==
  /\ stats.over_errors = 0
  /\ frames = stats.packets + stats.length_errors + stats.dropped
                + stats.over_errors + stats.errors + aborted
                + (IF rx_state = "IDLE" THEN 0 ELSE 1)

(* Only frames the driver may carry reach the stack: never empty, never    *)
(* above MTU plus Ethernet header, and one per counted packet.             *)
DeliveredWellFormed ==
  /\ Len(delivered) = stats.packets
  /\ \A i \in 1..Len(delivered) : ValidLength(Len(delivered[i]))
=============================================================================
