------------------------------- MODULE UartNet -------------------------------
(***************************************************************************)
(* The contexts in which uart_net.c runs and what they share.              *)
(*                                                                         *)
(*   xmit   uartnet_start_xmit, called by the network stack                *)
(*   task   uartnet_tx_task, run by the work queue                         *)
(*   poll   uartnet_poll, run by NAPI in a softirq                         *)
(*   irq    uartnet_interrupt                                              *)
(*   ctl    uartnet_open and uartnet_stop, called under the RTNL lock      *)
(*                                                                         *)
(* start_xmit holds tx_xmit_lock and tx_task holds tx_lock: two different  *)
(* locks, so neither excludes the other.  The interrupt mask register IMSC *)
(* is updated by read-modify-write from four of the five contexts under no *)
(* common lock.  A step of a context is therefore one access to a shared   *)
(* location; reading IMSC and writing it back are two steps.               *)
(*                                                                         *)
(* The bytes of a frame are abstracted to their number (UartRx and         *)
(* UartLink model what they are).  The PL011, NAPI, the work queue and the *)
(* network core are external: they are modelled by what the driver relies  *)
(* on.                                                                     *)
(***************************************************************************)
EXTENDS Naturals, FiniteSets

CONSTANTS
  SMP,         \* TRUE: the contexts run on several CPUs
  FrameBytes,  \* bytes of a frame on the line
  FifoDepth,   \* depth of the transmit and of the receive FIFO
  Budget,      \* NAPI_WEIGHT: frames one call of uartnet_poll may deliver
  MaxRx,       \* bound: bytes the peer sends
  MaxOpens     \* bound: calls of uartnet_open

ASSUME NetAssumption ==
  /\ SMP \in BOOLEAN
  /\ FrameBytes \in Nat /\ FrameBytes >= 2
  /\ FifoDepth \in Nat \ {0}
  /\ Budget \in Nat \ {0}
  /\ MaxRx \in Nat
  /\ MaxOpens \in Nat

VARIABLES
  pc,             \* where each context is; "idle" when it is not running
  tmp,            \* the value of IMSC each context has read
  imsc,           \* PL011 interrupt mask: "RX" (RXIM and RTIM) and "TX"
  ris,            \* PL011 raw interrupt status
  uart_on,        \* UART011_CR
  tx_fifo,        \* bytes in the transmit FIFO
  rx_fifo,        \* bytes in the receive FIFO
  rx_todo,        \* bytes the peer has yet to send
  status,         \* local of uartnet_interrupt: what is left to handle
  work_done,      \* local of uartnet_poll
  tx_left,        \* bytes of the current frame not written yet; 0 is IDLE
  tx_current,     \* what tx_current_ptr and tx_current_count describe: "this"
                  \* frame, an "old" one cut off by a stop, or "none" (count 0)
  tx_skb,         \* TRUE: priv->tx_skb points to a buffer
  queue_stopped,  \* __QUEUE_STATE_DRV_XOFF
  running,        \* netif_running and the qdisc is active
  napi,           \* "off", "idle" or "sched"
  napi_missed,    \* NAPI_STATE_MISSED
  work_pending,   \* tx_work is queued
  handlers,       \* handlers registered for the interrupt line
  opens,          \* history: calls of uartnet_open
  early,          \* history: napi_schedule met a disabled NAPI during this open
  late,           \* history: the last uartnet_stop masked the interrupts while
                  \* a handler or the end of a poll was still under way
  dropped         \* history: uartnet_start_xmit took its drop branch

hw   == <<imsc, ris, uart_on, tx_fifo, rx_fifo, rx_todo>>
tx   == <<tx_left, tx_current, tx_skb, queue_stopped, dropped>>
kern == <<running, napi, napi_missed, work_pending, handlers, opens,
          early, late>>
loc  == <<status, work_done>>
vars == <<pc, tmp, hw, tx, kern, loc>>

Ctx == {"xmit", "task", "poll", "irq", "ctl"}
Bits == {"RX", "TX"}
Active(c) == pc[c] # "idle"
-----------------------------------------------------------------------------
(* Scheduling.  On one CPU a context runs while no other one is active,    *)
(* except that everything preempts ctl, an interrupt preempts a poll, and  *)
(* delivering a frame from the loop of a poll may make the stack answer    *)
(* with a uartnet_start_xmit.  xmit and task run with interrupts disabled. *)
Preempts(c, d) ==
  \/ d = "ctl"
  \/ d = "poll" /\ c = "irq"
  \/ d = "poll" /\ c = "xmit" /\ pc["poll"] = "loop"
CanRun(c) == SMP \/ \A d \in Ctx \ {c} : Active(d) => Preempts(c, d)

(* Context c is at label `from` and goes on to `to`. *)
At(c, from) == pc[c] = from /\ CanRun(c)
Goto(c, to) == pc' = [pc EXCEPT ![c] = to]
Step(c, from, to) == At(c, from) /\ Goto(c, to)

(* writel(op(readl(IMSC)), IMSC): a read and a write of the register. *)
ReadIMSC(c, from, to) ==
  /\ Step(c, from, to)
  /\ tmp' = [tmp EXCEPT ![c] = imsc]
  /\ UNCHANGED <<hw, tx, kern, loc>>

WriteIMSC(c, from, to, value) ==
  /\ Step(c, from, to)
  /\ imsc' = value
  /\ tmp' = [tmp EXCEPT ![c] = {}]
  /\ UNCHANGED <<ris, uart_on, tx_fifo, rx_fifo, rx_todo, tx, kern, loc>>

Init ==
  /\ pc = [c \in Ctx |-> "idle"]
  /\ tmp = [c \in Ctx |-> {}]
  /\ imsc = {}
  /\ ris = {}
  /\ uart_on = FALSE
  /\ tx_fifo = 0
  /\ rx_fifo = 0
  /\ rx_todo = MaxRx
  /\ status = {}
  /\ work_done = 0
  /\ tx_left = 0
  /\ tx_current = "none"
  /\ tx_skb = FALSE
  /\ queue_stopped = TRUE
  /\ running = FALSE
  /\ napi = "off"
  /\ napi_missed = FALSE
  /\ work_pending = FALSE
  /\ handlers = 0
  /\ opens = 0
  /\ early = FALSE
  /\ late = FALSE
  /\ dropped = FALSE
-----------------------------------------------------------------------------
(* PL011, external.  The transmit interrupt is raised when the FIFO drains *)
(* to half its depth.  The receive interrupt stands for RXIM and RTIM: at  *)
(* the trigger level or, below it, by the timeout, bytes that wait to be   *)
(* read are signalled sooner or later, again after an acknowledgement.     *)
UartDrain ==
  /\ uart_on
  /\ tx_fifo > 0
  /\ tx_fifo' = tx_fifo - 1
  /\ ris' = IF tx_fifo' = FifoDepth \div 2 THEN ris \cup {"TX"} ELSE ris
  /\ UNCHANGED <<pc, tmp, imsc, uart_on, rx_fifo, rx_todo, tx, kern, loc>>

UartArrive ==
  /\ uart_on
  /\ rx_todo > 0
  /\ rx_fifo < FifoDepth
  /\ rx_fifo' = rx_fifo + 1
  /\ rx_todo' = rx_todo - 1
  /\ UNCHANGED <<pc, tmp, imsc, ris, uart_on, tx_fifo, tx, kern, loc>>

UartRaiseRx ==
  /\ uart_on
  /\ rx_fifo > 0
  /\ "RX" \notin ris
  /\ ris' = ris \cup {"RX"}
  /\ UNCHANGED <<pc, tmp, imsc, uart_on, tx_fifo, rx_fifo, rx_todo, tx, kern, loc>>
-----------------------------------------------------------------------------

(* Mutant of XmitEnter: the queue is not stopped. *)
XmitEnterNoStop ==
  /\ running /\ ~queue_stopped
  /\ Step("xmit", "idle", "check")
  /\ UNCHANGED <<tmp, hw, tx, kern, loc>>

(* uartnet_start_xmit.  The network core calls it on a running device      *)
(* whose queue is awake.  On one that is no longer running it frees the    *)
(* buffer and returns: nothing here changes.                               *)
XmitEnter ==
  /\ running
  /\ ~queue_stopped
  /\ Step("xmit", "idle", "check")
  /\ queue_stopped' = TRUE
  /\ UNCHANGED <<tmp, hw, tx_left, tx_current, tx_skb, dropped, kern, loc>>

XmitCheck ==
  /\ At("xmit", "check")
  /\ IF tx_left = 0
       THEN /\ tx_skb' = TRUE
            /\ tx_left' = FrameBytes
            /\ Goto("xmit", "prepare")
            /\ UNCHANGED dropped
       ELSE /\ dropped' = TRUE
            /\ Goto("xmit", "idle")
            /\ UNCHANGED <<tx_skb, tx_left>>
  /\ UNCHANGED <<tmp, hw, tx_current, queue_stopped, kern, loc>>

(* Mutant of XmitPrepare: a count left over from an aborted frame is kept. *)
XmitPrepareKeepsCount ==
  /\ Step("xmit", "prepare", "read")
  /\ tx_current' = IF tx_current = "none" THEN "this" ELSE tx_current
  /\ UNCHANGED <<tmp, hw, tx_left, tx_skb, queue_stopped, dropped, kern, loc>>

XmitPrepare ==
  /\ Step("xmit", "prepare", "read")
  /\ tx_current' = "this"
  /\ UNCHANGED <<tmp, hw, tx_left, tx_skb, queue_stopped, dropped, kern, loc>>

XmitReadIMSC  == ReadIMSC("xmit", "read", "write")

(* Mutant of XmitWriteIMSC: the transmit interrupt is not enabled. *)
XmitWriteIMSCNoTx == WriteIMSC("xmit", "write", "queue", tmp["xmit"])

XmitWriteIMSC == WriteIMSC("xmit", "write", "queue", tmp["xmit"] \cup {"TX"})

XmitQueueWork ==
  /\ Step("xmit", "queue", "idle")
  /\ work_pending' = TRUE
  /\ UNCHANGED <<tmp, hw, tx, running, napi, napi_missed, handlers, opens,
                 early, late, loc>>

uartnet_start_xmit ==
  \/ XmitEnter \/ XmitCheck \/ XmitPrepare
  \/ XmitReadIMSC \/ XmitWriteIMSC \/ XmitQueueWork
-----------------------------------------------------------------------------
(* uartnet_tx_task.  It holds tx_lock from TaskStart to the end. *)
TaskStart ==
  /\ work_pending
  /\ Step("task", "idle", "loop")
  /\ work_pending' = FALSE
  /\ UNCHANGED <<tmp, hw, tx, running, napi, napi_missed, handlers, opens,
                 early, late, loc>>

TxFull == tx_fifo = FifoDepth

(* FIFO full, or nothing to send. *)
TaskLeave ==
  /\ TxFull \/ tx_left = 0
  /\ Step("task", "loop", "unlock")
  /\ UNCHANGED <<tmp, hw, tx, kern, loc>>

(* Mutant of TaskByte: FR_TXFF is not looked at. *)
TaskByteUnchecked ==
  /\ tx_left > 1
  /\ At("task", "loop")
  /\ tx_fifo' = tx_fifo + 1 /\ tx_left' = tx_left - 1
  /\ UNCHANGED <<pc, tmp, imsc, ris, uart_on, rx_fifo, rx_todo, tx_current,
                 tx_skb, queue_stopped, dropped, kern, loc>>

(* A byte before the footer.  After the header the loop spins, writing     *)
(* nothing, while tx_current_count is 0.                                   *)
TaskByte ==
  /\ ~TxFull
  /\ tx_left > 1
  /\ tx_left = FrameBytes \/ tx_current # "none"
  /\ At("task", "loop")
  /\ tx_fifo' = tx_fifo + 1
  /\ tx_left' = tx_left - 1
  /\ UNCHANGED <<pc, tmp, imsc, ris, uart_on, rx_fifo, rx_todo, tx_current,
                 tx_skb, queue_stopped, dropped, kern, loc>>

TaskFooter ==
  /\ ~TxFull
  /\ tx_left = 1
  /\ Step("task", "loop", "wake")
  /\ tx_fifo' = tx_fifo + 1
  /\ tx_left' = 0
  /\ tx_skb' = FALSE
  /\ tx_current' = "none"
  /\ UNCHANGED <<tmp, imsc, ris, uart_on, rx_fifo, rx_todo, queue_stopped,
                 dropped, kern, loc>>

(* Mutant of TaskWake: the queue is not woken. *)
TaskWakeForgotten == Step("task", "wake", "unlock") /\ UNCHANGED <<tmp, hw, tx, kern, loc>>

TaskWake ==
  /\ Step("task", "wake", "unlock")
  /\ queue_stopped' = FALSE
  /\ UNCHANGED <<tmp, hw, tx_left, tx_current, tx_skb, dropped, kern, loc>>

(* The TX interrupt is disabled when there is nothing left to send. *)
TaskUnlock ==
  /\ At("task", "unlock")
  /\ Goto("task", IF tx_left = 0 THEN "read" ELSE "idle")
  /\ UNCHANGED <<tmp, hw, tx, kern, loc>>

TaskReadIMSC  == ReadIMSC("task", "read", "write")
TaskWriteIMSC == WriteIMSC("task", "write", "idle", tmp["task"] \ {"TX"})

uartnet_tx_task ==
  \/ TaskStart \/ TaskLeave \/ TaskByte \/ TaskFooter \/ TaskWake
  \/ TaskUnlock \/ TaskReadIMSC \/ TaskWriteIMSC
-----------------------------------------------------------------------------
(* uartnet_poll, called by NAPI once scheduled. *)
PollStart ==
  /\ napi = "sched"
  /\ Step("poll", "idle", "loop")
  /\ work_done' = 0
  /\ UNCHANGED <<tmp, hw, tx, kern, status>>

(* A byte is read; it completes a frame or not. *)
PollByte ==
  /\ At("poll", "loop")
  /\ work_done < Budget
  /\ rx_fifo > 0
  /\ rx_fifo' = rx_fifo - 1
  /\ work_done' \in {work_done, work_done + 1}
  /\ UNCHANGED <<pc, tmp, imsc, ris, uart_on, tx_fifo, rx_todo, tx, kern, status>>

(* Mutant of PollAgain: the poll ends although bytes may be left. *)
PollAgainForgotten ==
  /\ work_done >= Budget
  /\ Step("poll", "loop", "idle")
  /\ work_done' = 0
  /\ napi' = "idle"
  /\ UNCHANGED <<tmp, hw, tx, running, napi_missed, work_pending, handlers, opens,
                 early, late, status>>

(* The budget is used up: NAPI stays scheduled and polls again. *)
PollAgain ==
  /\ work_done >= Budget
  /\ Step("poll", "loop", "idle")
  /\ work_done' = 0
  /\ UNCHANGED <<tmp, hw, tx, kern, status>>

(* Mutants of PollComplete: the receive interrupt is not enabled again, or *)
(* a poll that found nothing does not complete.                            *)
PollCompleteMasked ==
  /\ work_done < Budget /\ rx_fifo = 0
  /\ Step("poll", "loop", "idle")
  /\ napi' = IF napi_missed THEN "sched" ELSE "idle"
  /\ napi_missed' = FALSE
  /\ UNCHANGED <<tmp, hw, tx, running, work_pending, handlers, opens, early,
                 late, loc>>

PollCompleteNoWork ==
  /\ work_done < Budget /\ rx_fifo = 0
  /\ Step("poll", "loop", "read")
  /\ napi' = IF napi_missed \/ work_done = 0 THEN "sched" ELSE "idle"
  /\ napi_missed' = FALSE
  /\ UNCHANGED <<tmp, hw, tx, running, work_pending, handlers, opens, early,
                 late, loc>>

(* The FIFO is empty: napi_complete_done, which schedules another poll if  *)
(* one was asked for in the meantime.                                      *)
PollComplete ==
  /\ work_done < Budget
  /\ rx_fifo = 0
  /\ Step("poll", "loop", "read")
  /\ napi' = IF napi_missed THEN "sched" ELSE "idle"
  /\ napi_missed' = FALSE
  /\ work_done' = 0
  /\ UNCHANGED <<tmp, hw, tx, running, work_pending, handlers, opens, early,
                 late, status>>

PollReadIMSC  == ReadIMSC("poll", "read", "write")
PollWriteIMSC == WriteIMSC("poll", "write", "idle", tmp["poll"] \cup {"RX"})

uartnet_poll ==
  \/ PollStart \/ PollByte \/ PollAgain \/ PollComplete
  \/ PollReadIMSC \/ PollWriteIMSC
-----------------------------------------------------------------------------
(* uartnet_interrupt, entered while an unmasked interrupt is raised. *)
IrqEnter ==
  /\ handlers > 0
  /\ imsc \cap ris # {}
  /\ At("irq", "idle")
  /\ status' = imsc \cap ris
  /\ Goto("irq", IF "RX" \in status' THEN "rxack" ELSE "txack")
  /\ UNCHANGED <<tmp, hw, tx, kern, work_done>>

IrqAckRx ==
  /\ Step("irq", "rxack", "read")
  /\ ris' = ris \ {"RX"}
  /\ UNCHANGED <<tmp, imsc, uart_on, tx_fifo, rx_fifo, rx_todo, tx, kern, loc>>

IrqReadIMSC  == ReadIMSC("irq", "read", "write")
IrqWriteIMSC == WriteIMSC("irq", "write", "sched", tmp["irq"] \ {"RX"})

(* napi_schedule.  It does nothing while NAPI is being disabled.  A NAPI   *)
(* that is scheduled, or off (its SCHED bit is then set too), only has the *)
(* request noted for the end of its next poll.                             *)
IrqSchedule ==
  /\ At("irq", "sched")
  /\ Goto("irq", IF "TX" \in status THEN "txack" ELSE "idle")
  /\ LET allowed == pc["ctl"] # "disable" IN
       /\ napi' = IF allowed /\ napi = "idle" THEN "sched" ELSE napi
       /\ napi_missed' = (napi_missed \/ (allowed /\ napi # "idle"))
  /\ early' = (early \/ napi = "off")
  /\ status' = status \ {"RX"}
  /\ UNCHANGED <<tmp, hw, tx, running, work_pending, handlers, opens, late,
                 work_done>>

IrqAckTx ==
  /\ Step("irq", "txack", "txcheck")
  /\ ris' = ris \ {"TX"}
  /\ status' = status \ {"TX"}
  /\ UNCHANGED <<tmp, imsc, uart_on, tx_fifo, rx_fifo, rx_todo, tx, kern,
                 work_done>>

IrqCheckTx ==
  /\ At("irq", "txcheck")
  /\ Goto("irq", IF tx_left # 0 THEN "txqueue" ELSE "idle")
  /\ UNCHANGED <<tmp, hw, tx, kern, loc>>

IrqQueueWork ==
  /\ Step("irq", "txqueue", "idle")
  /\ work_pending' = TRUE
  /\ UNCHANGED <<tmp, hw, tx, running, napi, napi_missed, handlers, opens,
                 early, late, loc>>

uartnet_interrupt ==
  \/ IrqEnter \/ IrqAckRx \/ IrqReadIMSC \/ IrqWriteIMSC
  \/ IrqSchedule \/ IrqAckTx \/ IrqCheckTx \/ IrqQueueWork
-----------------------------------------------------------------------------
(* uartnet_open.  tx_lock is taken for the reset of the transmitter. *)
CutOff == IF tx_left # 0 /\ tx_current = "this" THEN "old" ELSE tx_current

OpenReset ==
  /\ ~running
  /\ opens < MaxOpens
  /\ ~Active("task")
  /\ Step("ctl", "idle", "request")
  /\ opens' = opens + 1
  /\ early' = FALSE
  /\ tx_left' = 0
  /\ tx_skb' = FALSE
  /\ tx_current' = CutOff
  /\ UNCHANGED <<tmp, hw, queue_stopped, dropped, running, napi, napi_missed,
                 work_pending, handlers, late, loc>>

(* devm_request_irq succeeds, or uartnet_open returns its error. *)
OpenRequestIrq ==
  /\ At("ctl", "request")
  /\ \/ Goto("ctl", "enable") /\ handlers' = handlers + 1
     \/ Goto("ctl", "idle") /\ UNCHANGED handlers
  /\ UNCHANGED <<tmp, hw, tx, running, napi, napi_missed, work_pending, opens,
                 early, late, loc>>

OpenEnableUart ==
  /\ Step("ctl", "enable", "unmask")
  /\ uart_on' = TRUE
  /\ UNCHANGED <<tmp, imsc, ris, tx_fifo, rx_fifo, rx_todo, tx, kern, loc>>

OpenUnmask == WriteIMSC("ctl", "unmask", "napi", {"RX"})

OpenNapi ==
  /\ Step("ctl", "napi", "start")
  /\ napi' = "idle"
  /\ UNCHANGED <<tmp, hw, tx, running, napi_missed, work_pending, handlers, opens, early,
                 late, loc>>

OpenStart ==
  /\ Step("ctl", "start", "idle")
  /\ queue_stopped' = FALSE
  /\ running' = TRUE
  /\ UNCHANGED <<tmp, hw, tx_left, tx_current, tx_skb, dropped, napi,
                 napi_missed, work_pending, handlers, opens, early,
                 late, loc>>

uartnet_open ==
  \/ OpenReset \/ OpenRequestIrq \/ OpenEnableUart
  \/ OpenUnmask \/ OpenNapi \/ OpenStart
-----------------------------------------------------------------------------
(* uartnet_stop, called after the network core has deactivated the queue   *)
(* and no uartnet_start_xmit is running.                                   *)
StopEnter ==
  /\ running
  /\ ~Active("xmit")
  /\ Step("ctl", "idle", "disable")
  /\ running' = FALSE
  /\ queue_stopped' = TRUE
  /\ UNCHANGED <<tmp, hw, tx_left, tx_current, tx_skb, dropped, napi,
                 napi_missed, work_pending, handlers, opens, early,
                 late, loc>>

(* napi_disable waits for a scheduled poll to complete. *)
StopNapi ==
  /\ napi = "idle"
  /\ Step("ctl", "disable", "mask")
  /\ napi' = "off"
  /\ UNCHANGED <<tmp, hw, tx, running, napi_missed, work_pending, handlers, opens, early,
                 late, loc>>

(* Masking the interrupts does not wait for a handler that has begun, nor  *)
(* napi_disable for the unmasking at the end of a poll.                    *)
StopMask ==
  /\ Step("ctl", "mask", "off")
  /\ imsc' = {}
  /\ late' = (Active("irq") \/ Active("poll"))
  /\ UNCHANGED <<tmp, ris, uart_on, tx_fifo, rx_fifo, rx_todo, tx, running,
                 napi, napi_missed, work_pending, handlers, opens, early, loc>>

StopUart ==
  /\ Step("ctl", "off", "cleanup")
  /\ uart_on' = FALSE
  /\ UNCHANGED <<tmp, imsc, ris, tx_fifo, rx_fifo, rx_todo, tx, kern, loc>>

(* Under tx_lock: a frame in progress is freed. *)
StopCleanup ==
  /\ ~Active("task")
  /\ Step("ctl", "cleanup", "cancel")
  /\ tx_left' = 0
  /\ tx_skb' = FALSE
  /\ tx_current' = CutOff
  /\ UNCHANGED <<tmp, hw, queue_stopped, dropped, kern, loc>>

(* Mutant of StopCancel: queued work is not cancelled. *)
StopCancelForgotten ==
  Step("ctl", "cancel", "idle") /\ UNCHANGED <<tmp, hw, tx, kern, loc>>

(* cancel_work_sync and flush_workqueue. *)
StopCancel ==
  /\ ~Active("task")
  /\ Step("ctl", "cancel", "idle")
  /\ work_pending' = FALSE
  /\ UNCHANGED <<tmp, hw, tx, running, napi, napi_missed, handlers, opens,
                 early, late, loc>>

uartnet_stop ==
  \/ StopEnter \/ StopNapi \/ StopMask \/ StopUart \/ StopCleanup \/ StopCancel
-----------------------------------------------------------------------------
Hardware == UartDrain \/ UartArrive \/ UartRaiseRx

Next ==
  \/ uartnet_start_xmit
  \/ uartnet_tx_task
  \/ uartnet_poll
  \/ uartnet_interrupt
  \/ uartnet_open
  \/ uartnet_stop
  \/ Hardware

(* The kernel runs every runnable context again and again (strong          *)
(* fairness: on one CPU a context is not runnable while another one is),   *)
(* interrupts are taken, and the UART moves bytes.  Opening, stopping and  *)
(* sending are the users' choice: only a call once begun is finished.      *)
Fairness ==
  /\ SF_vars(uartnet_tx_task)
  /\ SF_vars(uartnet_poll)
  /\ SF_vars(uartnet_interrupt)
  /\ SF_vars(uartnet_start_xmit /\ Active("xmit"))
  /\ SF_vars((uartnet_open \/ uartnet_stop) /\ Active("ctl"))
  /\ WF_vars(UartDrain)
  /\ WF_vars(UartRaiseRx)

Spec == Init /\ [][Next]_vars
FairSpec == Spec /\ Fairness
-----------------------------------------------------------------------------
Labels ==
  [xmit |-> {"idle", "check", "prepare", "read", "write", "queue"},
   task |-> {"idle", "loop", "wake", "unlock", "read", "write"},
   poll |-> {"idle", "loop", "read", "write"},
   irq  |-> {"idle", "rxack", "read", "write", "sched",
             "txack", "txcheck", "txqueue"},
   ctl  |-> {"idle", "request", "enable", "unmask", "napi", "start",
             "disable", "mask", "off", "cleanup", "cancel"}]

(* Every variable keeps its type and every context is at one of its labels. *)
TypeOK ==
  /\ DOMAIN pc = Ctx
  /\ \A c \in Ctx : pc[c] \in Labels[c]
  /\ tmp \in [Ctx -> SUBSET Bits]
  /\ imsc \in SUBSET Bits /\ ris \in SUBSET Bits /\ status \in SUBSET Bits
  /\ uart_on \in BOOLEAN
  /\ tx_fifo \in 0..FifoDepth /\ rx_fifo \in 0..FifoDepth
  /\ rx_todo \in 0..MaxRx
  /\ work_done \in 0..Budget
  /\ tx_left \in 0..FrameBytes
  /\ tx_current \in {"this", "old", "none"}
  /\ tx_skb \in BOOLEAN /\ queue_stopped \in BOOLEAN /\ dropped \in BOOLEAN
  /\ running \in BOOLEAN
  /\ napi \in {"off", "idle", "sched"} /\ napi_missed \in BOOLEAN
  /\ work_pending \in BOOLEAN
  /\ handlers \in 0..MaxOpens /\ opens \in 0..MaxOpens
  /\ early \in BOOLEAN /\ late \in BOOLEAN

(* The interrupt handler masks the receive interrupt and relies on NAPI to *)
(* enable it again ("NAPI will re-enable it", uart_net.c:384): while the   *)
(* interface is up, either it is unmasked or a poll that will unmask it is *)
(* scheduled or running.                                                   *)
RxRearmed ==
  running /\ ~Active("ctl") =>
    \/ "RX" \in imsc
    \/ napi = "sched"
    \/ pc["poll"] \in {"read", "write"}
    \/ pc["irq"] = "sched"

(* On one CPU the only way to lose the receive interrupt is to take one    *)
(* between the unmasking and the napi_enable of uartnet_open.              *)
RxRearmedUnlessEarly == early \/ RxRearmed

(* A frame being sent is never forgotten: something that runs              *)
(* uartnet_tx_task again is pending, or the transmit interrupt is unmasked *)
(* and raised or going to be raised ("if there is no more data to send,    *)
(* disable the TX interrupt", uart_net.c:180).                             *)
TxArmed ==
  running /\ tx_left # 0 =>
    \/ Active("xmit")
    \/ work_pending
    \/ Active("task")
    \/ pc["irq"] \in {"txcheck", "txqueue"}
    \/ /\ "TX" \in imsc \/ pc["irq"] = "txack"
       /\ "TX" \in ris \/ tx_fifo > FifoDepth \div 2

(* Two locks guard the transmitter, yet a frame is never taken while one   *)
(* is being sent, so the drop branch of uartnet_start_xmit, which leaves   *)
(* the queue stopped for good, is never taken: the queue is awake only     *)
(* when the transmitter is idle.  This holds on several CPUs too.          *)
QueueAwakeOnlyWhenIdle ==
  /\ ~dropped
  /\ ~queue_stopped => tx_left = 0 /\ ~tx_skb
  /\ tx_left # 0 => tx_skb

(* uartnet_start_xmit publishes tx_state (line 208) before it sets the     *)
(* pointer and the count of the frame (213-215), under a lock the task     *)
(* does not take.  Still uartnet_tx_task never goes past the header with   *)
(* what an earlier frame left there, freed by then.  On one CPU they are   *)
(* this frame's; on several the task may also find a count of 0, spins     *)
(* with interrupts off, and is let go by the uartnet_start_xmit that is    *)
(* about to set them.  The exception is a stop that masked the interrupts  *)
(* while a handler or a poll ran: that one can start the task too early.   *)
TxPreparedBeforeUse ==
  pc["task"] = "loop" /\ tx_left \in 1..(FrameBytes - 1) =>
    \/ tx_current = "this"
    \/ SMP /\ tx_current = "none" /\ pc["xmit"] = "prepare"
    \/ late

(* Once uartnet_stop has returned nothing of the driver moves: interrupts  *)
(* are masked, no poll, work or handler is under way, no frame is held.    *)
QuiescentWhenDown ==
  ~running /\ ~Active("ctl") =>
    /\ imsc = {}
    /\ \A c \in Ctx : ~Active(c)
    /\ napi = "off" /\ ~work_pending
    /\ tx_left = 0 /\ ~tx_skb

(* The transmit queue, stopped for every frame, is woken again unless the  *)
(* interface goes down: the frame has then been sent.                      *)
QueueWakes == (running /\ queue_stopped) ~> (~queue_stopped \/ ~running)

(* Bytes waiting in the receive FIFO are read.                             *)
RxDrains == (running /\ rx_fifo > 0) ~> (rx_fifo = 0 \/ ~running \/ early)

(* uartnet_open and uartnet_stop return: napi_disable, tx_lock and         *)
(* cancel_work_sync do not wait for ever.                                  *)
OpenStopReturn == Active("ctl") ~> ~Active("ctl")
=============================================================================
