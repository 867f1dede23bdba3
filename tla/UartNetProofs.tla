---------------------------- MODULE UartNetProofs ----------------------------
(***************************************************************************)
(* Proofs about the contexts of uart_net.c, for every frame size, FIFO     *)
(* depth, budget and number of opens.                                      *)
(*                                                                         *)
(* On one CPU or several, the two transmit locks suffice for the frame in  *)
(* progress: QueueAwakeOnlyWhenIdle is invariant.  It is not inductive.    *)
(* The queue is awake between netif_wake_queue and the next start_xmit, so *)
(* what must be excluded are the moments before and after: start_xmit past *)
(* netif_stop_queue but not yet past its check, uartnet_tx_task between    *)
(* the footer and the wake, and an open that starts the queue.  TxInv says *)
(* what holds at each of these places.                                     *)
(*                                                                         *)
(* On one CPU no interrupt is lost and nothing survives uartnet_stop.      *)
(* OneCpuInv says which contexts can be suspended while another one runs,  *)
(* what a suspended read-modify-write of IMSC may still find changed, what *)
(* each step of uartnet_stop has shut down, and what keeps each direction  *)
(* going.  Each action's effect is a lemma (XmitEnterFx and so on), and    *)
(* the invariants are proved from these.                                   *)
(*                                                                         *)
(* On any number of CPUs a frame is sent with its own pointer and count.   *)
(* CutOffInv says that after a stop no handler outlived nothing starts     *)
(* uartnet_tx_task before the next frame has replaced what was cut off.    *)
(***************************************************************************)
EXTENDS UartNet, TLAPS

PcFun == pc = [c \in Ctx |-> pc[c]]

(* uartnet_open and uartnet_stop run with the device not running, and      *)
(* start_xmit only runs while it is.                                       *)
RunningInv ==
  /\ pc["ctl"] # "idle" => ~running
  /\ pc["xmit"] # "idle" => running

(* Where the transmitter has been reset and stays so. *)
AfterReset ==
  \/ pc["ctl"] \in {"request", "enable", "unmask", "napi", "start", "cancel"}
  \/ pc["ctl"] = "idle" /\ ~running

(* The places where a frame must not be in progress. *)
NoFrame ==
  \/ ~queue_stopped
  \/ pc["xmit"] = "check"
  \/ pc["task"] = "wake"
  \/ AfterReset

(* The inductive invariant. *)
TxInv ==
  /\ PcFun
  /\ RunningInv
  /\ tx_left \in Nat
  /\ dropped = FALSE
  /\ tx_skb = (tx_left # 0)
  /\ NoFrame => tx_left = 0
  /\ pc["xmit"] = "check" => queue_stopped /\ pc["task"] # "wake"
  /\ pc["task"] = "wake" => queue_stopped /\ ~AfterReset

(* A context moves: the other ones stay where they are. *)
LEMMA GotoFacts ==
  ASSUME PcFun, NEW c \in Ctx, NEW to, Goto(c, to)
  PROVE  PcFun' /\ pc'[c] = to /\ \A d \in Ctx : d # c => pc'[d] = pc[d]
  BY DEF PcFun, Goto, Ctx

LEMMA TxInitInv == Init => TxInv
<1> SUFFICES ASSUME Init PROVE TxInv
  OBVIOUS
<1>1. /\ PcFun
      /\ pc["xmit"] = "idle" /\ pc["task"] = "idle" /\ pc["ctl"] = "idle"
  BY DEF Init, PcFun, Ctx
<1>2. /\ tx_left = 0 /\ tx_skb = FALSE /\ queue_stopped = TRUE
      /\ dropped = FALSE /\ running = FALSE
  BY DEF Init
<1>3. QED
  BY <1>1, <1>2 DEF TxInv, RunningInv, NoFrame, AfterReset

(* A step that leaves the transmitter, the queue and the three contexts    *)
(* that touch them alone.                                                  *)
LEMMA ElsewhereInv ==
  ASSUME TxInv, PcFun', UNCHANGED tx, UNCHANGED running,
         \A c \in {"xmit", "task", "ctl"} : pc'[c] = pc[c]
  PROVE  TxInv'
<1>1. UNCHANGED <<tx_left, tx_skb, queue_stopped, dropped>>
  BY DEF tx
<1>2. QED
  BY <1>1 DEF TxInv, RunningInv, NoFrame, AfterReset

(* The PL011, a poll and the interrupt handler are such steps. *)
LEMMA HardwareInv == TxInv /\ Hardware => TxInv'
<1> SUFFICES ASSUME TxInv, Hardware PROVE TxInv'
  OBVIOUS
<1>1. UNCHANGED pc /\ UNCHANGED tx /\ UNCHANGED running
  BY DEF Hardware, UartDrain, UartArrive, UartRaiseRx, kern
<1>2. PcFun'
  BY <1>1 DEF TxInv, PcFun
<1>3. QED
  BY <1>1, <1>2, ElsewhereInv

LEMMA PollInv == TxInv /\ uartnet_poll => TxInv'
<1> SUFFICES ASSUME TxInv, uartnet_poll PROVE TxInv'
  OBVIOUS
<1>1. UNCHANGED tx /\ UNCHANGED running
  BY DEF uartnet_poll, PollStart, PollByte, PollAgain, PollComplete,
         PollReadIMSC, PollWriteIMSC, ReadIMSC, WriteIMSC, kern
<1>2. UNCHANGED pc \/ \E to : Goto("poll", to)
  BY DEF uartnet_poll, PollStart, PollByte, PollAgain, PollComplete,
         PollReadIMSC, PollWriteIMSC, ReadIMSC, WriteIMSC, Step
<1>3. PcFun' /\ \A c \in {"xmit", "task", "ctl"} : pc'[c] = pc[c]
  BY <1>2, GotoFacts DEF TxInv, PcFun, Ctx
<1>4. QED
  BY <1>1, <1>3, ElsewhereInv

LEMMA InterruptInv == TxInv /\ uartnet_interrupt => TxInv'
<1> SUFFICES ASSUME TxInv, uartnet_interrupt PROVE TxInv'
  OBVIOUS
<1>1. UNCHANGED tx /\ UNCHANGED running
  BY DEF uartnet_interrupt, IrqEnter, IrqAckRx, IrqReadIMSC, IrqWriteIMSC,
         IrqSchedule, IrqAckTx, IrqCheckTx, IrqQueueWork, ReadIMSC, WriteIMSC,
         kern
<1>2. \E to : Goto("irq", to)
  BY DEF uartnet_interrupt, IrqEnter, IrqAckRx, IrqReadIMSC, IrqWriteIMSC,
         IrqSchedule, IrqAckTx, IrqCheckTx, IrqQueueWork, ReadIMSC, WriteIMSC,
         Step
<1>3. PcFun' /\ \A c \in {"xmit", "task", "ctl"} : pc'[c] = pc[c]
  BY <1>2, GotoFacts DEF TxInv, Ctx
<1>4. QED
  BY <1>1, <1>3, ElsewhereInv

(* uartnet_start_xmit stops the queue, finds the transmitter idle and      *)
(* starts a frame; from then on it only moves.                             *)
LEMMA XmitInv == TxInv /\ uartnet_start_xmit => TxInv'
<1> SUFFICES ASSUME TxInv, uartnet_start_xmit PROVE TxInv'
  OBVIOUS
<1>1. CASE XmitEnter
  <2>1. /\ running /\ ~queue_stopped /\ pc["xmit"] = "idle"
        /\ Goto("xmit", "check")
        /\ queue_stopped' = TRUE
        /\ UNCHANGED <<tx_left, tx_skb, dropped, running>>
    BY <1>1 DEF XmitEnter, Step, At, kern
  <2>2. PcFun' /\ pc'["xmit"] = "check" /\ pc'["task"] = pc["task"]
        /\ pc'["ctl"] = pc["ctl"]
    BY <2>1, GotoFacts DEF TxInv, Ctx
  <2>3. QED
    BY <2>1, <2>2 DEF TxInv, RunningInv, NoFrame, AfterReset
<1>2. CASE XmitCheck
  <2>1. /\ pc["xmit"] = "check" /\ tx_left = 0 /\ running
    BY <1>2 DEF XmitCheck, At, TxInv, NoFrame, RunningInv
  <2>2. /\ Goto("xmit", "prepare")
        /\ tx_skb' = TRUE /\ tx_left' = FrameBytes
        /\ UNCHANGED <<dropped, queue_stopped, running>>
    BY <1>2, <2>1 DEF XmitCheck, kern
  <2>3. PcFun' /\ pc'["xmit"] = "prepare" /\ pc'["task"] = pc["task"]
        /\ pc'["ctl"] = pc["ctl"]
    BY <2>2, GotoFacts DEF TxInv, Ctx
  <2>4. FrameBytes \in Nat /\ FrameBytes # 0
    BY NetAssumption
  <2>5. QED
    BY <2>1, <2>2, <2>3, <2>4 DEF TxInv, RunningInv, NoFrame, AfterReset
<1>3. CASE XmitPrepare \/ XmitReadIMSC \/ XmitWriteIMSC \/ XmitQueueWork
  <2>1. /\ pc["xmit"] # "idle"
        /\ \E to \in {"idle", "read", "write", "queue"} : Goto("xmit", to)
    BY <1>3 DEF XmitPrepare, XmitReadIMSC, XmitWriteIMSC, XmitQueueWork,
                ReadIMSC, WriteIMSC, Step, At
  <2>2. UNCHANGED <<tx_left, tx_skb, dropped, queue_stopped, running>>
    BY <1>3 DEF XmitPrepare, XmitReadIMSC, XmitWriteIMSC, XmitQueueWork,
                ReadIMSC, WriteIMSC, tx, kern
  <2>3. PcFun' /\ pc'["xmit"] # "check" /\ pc'["task"] = pc["task"]
        /\ pc'["ctl"] = pc["ctl"]
    BY <2>1, GotoFacts DEF TxInv, Ctx
  <2>4. QED
    BY <2>1, <2>2, <2>3 DEF TxInv, RunningInv, NoFrame, AfterReset
<1>4. QED
  BY <1>1, <1>2, <1>3 DEF uartnet_start_xmit

(* uartnet_tx_task writes a frame and wakes the queue after its last byte. *)
LEMMA TaskInv == TxInv /\ uartnet_tx_task => TxInv'
<1> SUFFICES ASSUME TxInv, uartnet_tx_task PROVE TxInv'
  OBVIOUS
<1>1. CASE TaskStart \/ TaskLeave \/ TaskUnlock \/ TaskReadIMSC \/ TaskWriteIMSC
  <2>1. \E to \in {"loop", "unlock", "read", "write", "idle"} : Goto("task", to)
    BY <1>1 DEF TaskStart, TaskLeave, TaskUnlock, TaskReadIMSC, TaskWriteIMSC,
                ReadIMSC, WriteIMSC, Step
  <2>2. UNCHANGED <<tx_left, tx_skb, dropped, queue_stopped, running>>
    BY <1>1 DEF TaskStart, TaskLeave, TaskUnlock, TaskReadIMSC, TaskWriteIMSC,
                ReadIMSC, WriteIMSC, tx, kern
  <2>3. PcFun' /\ pc'["task"] # "wake" /\ pc'["xmit"] = pc["xmit"]
        /\ pc'["ctl"] = pc["ctl"]
    BY <2>1, GotoFacts DEF TxInv, Ctx
  <2>4. QED
    BY <2>2, <2>3 DEF TxInv, RunningInv, NoFrame, AfterReset
<1>2. CASE TaskByte
  <2>1. /\ tx_left > 1 /\ tx_left' = tx_left - 1
        /\ UNCHANGED <<pc, tx_skb, dropped, queue_stopped, running>>
    BY <1>2 DEF TaskByte, kern
  <2>2. tx_left \in Nat /\ tx_left' \in Nat /\ tx_left # 0 /\ tx_left' # 0
    BY <2>1 DEF TxInv
  <2>3. QED
    BY <2>1, <2>2 DEF TxInv, PcFun, RunningInv, NoFrame, AfterReset
<1>3. CASE TaskFooter
  <2>1. /\ tx_left = 1 /\ Goto("task", "wake")
        /\ tx_left' = 0 /\ tx_skb' = FALSE
        /\ UNCHANGED <<dropped, queue_stopped, running>>
    BY <1>3 DEF TaskFooter, Step, kern
  <2>2. PcFun' /\ pc'["task"] = "wake" /\ pc'["xmit"] = pc["xmit"]
        /\ pc'["ctl"] = pc["ctl"]
    BY <2>1, GotoFacts DEF TxInv, Ctx
  <2>3. ~NoFrame
    BY <2>1 DEF TxInv
  <2>4. QED
    BY <2>1, <2>2, <2>3 DEF TxInv, RunningInv, NoFrame, AfterReset
<1>4. CASE TaskWake
  <2>1. /\ pc["task"] = "wake" /\ Goto("task", "unlock")
        /\ queue_stopped' = FALSE
        /\ UNCHANGED <<tx_left, tx_skb, dropped, running>>
    BY <1>4 DEF TaskWake, Step, At, kern
  <2>2. PcFun' /\ pc'["task"] = "unlock" /\ pc'["xmit"] = pc["xmit"]
        /\ pc'["ctl"] = pc["ctl"]
    BY <2>1, GotoFacts DEF TxInv, Ctx
  <2>3. QED
    BY <2>1, <2>2 DEF TxInv, RunningInv, NoFrame, AfterReset
<1>5. QED
  BY <1>1, <1>2, <1>3, <1>4 DEF uartnet_tx_task

(* A step of uartnet_open or uartnet_stop once the transmitter has been    *)
(* reset, up to where the queue is started.                                *)
LEMMA ResetStepInv ==
  ASSUME TxInv, AfterReset, ~running, PcFun',
         pc'["xmit"] = pc["xmit"], pc'["task"] = pc["task"],
         pc'["ctl"] \in {"request", "enable", "unmask", "napi", "start", "idle"},
         UNCHANGED <<tx_left, tx_skb, dropped, queue_stopped, running>>
  PROVE  TxInv'
  BY DEF TxInv, RunningInv, NoFrame, AfterReset

(* uartnet_open starts the queue with the transmitter idle. *)
LEMMA OpenInv == TxInv /\ uartnet_open => TxInv'
<1> SUFFICES ASSUME TxInv, uartnet_open PROVE TxInv'
  OBVIOUS
<1>1. CASE OpenReset
  <2>1. /\ ~running /\ pc["ctl"] = "idle" /\ pc["task"] = "idle"
        /\ Goto("ctl", "request")
        /\ tx_left' = 0 /\ tx_skb' = FALSE
        /\ UNCHANGED <<dropped, queue_stopped, running>>
    BY <1>1 DEF OpenReset, Step, At, Active
  <2>2. PcFun' /\ pc'["ctl"] = "request" /\ pc'["xmit"] = pc["xmit"]
        /\ pc'["task"] = pc["task"]
    BY <2>1, GotoFacts DEF TxInv, Ctx
  <2>3. QED
    BY <2>1, <2>2 DEF TxInv, RunningInv, NoFrame, AfterReset
<1>2. CASE OpenRequestIrq \/ OpenEnableUart \/ OpenUnmask \/ OpenNapi
  <2>1. /\ pc["ctl"] \in {"request", "enable", "unmask", "napi"}
        /\ \E to \in {"enable", "idle", "unmask", "napi", "start"} : Goto("ctl", to)
    BY <1>2 DEF OpenRequestIrq, OpenEnableUart, OpenUnmask, OpenNapi, WriteIMSC,
                Step, At
  <2>2. UNCHANGED <<tx_left, tx_skb, dropped, queue_stopped, running>>
    BY <1>2 DEF OpenRequestIrq, OpenEnableUart, OpenUnmask, OpenNapi, WriteIMSC,
                tx, kern
  <2>3. /\ PcFun' /\ pc'["ctl"] \in {"enable", "idle", "unmask", "napi", "start"}
        /\ pc'["xmit"] = pc["xmit"] /\ pc'["task"] = pc["task"]
    BY <2>1, GotoFacts DEF TxInv, Ctx
  <2>4. AfterReset /\ ~running
    BY <2>1 DEF AfterReset, TxInv, RunningInv
  <2>5. QED
    BY <2>2, <2>3, <2>4, ResetStepInv
<1>3. CASE OpenStart
  <2>1. /\ pc["ctl"] = "start" /\ Goto("ctl", "idle")
        /\ queue_stopped' = FALSE /\ running' = TRUE
        /\ UNCHANGED <<tx_left, tx_skb, dropped>>
    BY <1>3 DEF OpenStart, Step, At
  <2>2. PcFun' /\ pc'["ctl"] = "idle" /\ pc'["xmit"] = pc["xmit"]
        /\ pc'["task"] = pc["task"]
    BY <2>1, GotoFacts DEF TxInv, Ctx
  <2>3. AfterReset /\ ~running /\ pc["xmit"] = "idle" /\ pc["task"] # "wake"
    BY <2>1 DEF AfterReset, TxInv, RunningInv
  <2>4. QED
    BY <2>1, <2>2, <2>3 DEF TxInv, RunningInv, NoFrame, AfterReset
<1>4. QED
  BY <1>1, <1>2, <1>3 DEF uartnet_open

(* uartnet_stop drops the frame in progress under tx_lock, when no         *)
(* uartnet_tx_task runs.                                                   *)
LEMMA StopInv == TxInv /\ uartnet_stop => TxInv'
<1> SUFFICES ASSUME TxInv, uartnet_stop PROVE TxInv'
  OBVIOUS
<1>1. CASE StopEnter
  <2>1. /\ running /\ pc["xmit"] = "idle" /\ pc["ctl"] = "idle"
        /\ Goto("ctl", "disable")
        /\ queue_stopped' = TRUE /\ running' = FALSE
        /\ UNCHANGED <<tx_left, tx_skb, dropped>>
    BY <1>1 DEF StopEnter, Step, At, Active
  <2>2. PcFun' /\ pc'["ctl"] = "disable" /\ pc'["xmit"] = pc["xmit"]
        /\ pc'["task"] = pc["task"]
    BY <2>1, GotoFacts DEF TxInv, Ctx
  <2>3. QED
    BY <2>1, <2>2 DEF TxInv, RunningInv, NoFrame, AfterReset
<1>2. CASE StopNapi \/ StopMask \/ StopUart
  <2>1. /\ pc["ctl"] \in {"disable", "mask", "off"}
        /\ \E to \in {"mask", "off", "cleanup"} : Goto("ctl", to)
    BY <1>2 DEF StopNapi, StopMask, StopUart, Step, At
  <2>2. UNCHANGED <<tx_left, tx_skb, dropped, queue_stopped, running>>
    BY <1>2 DEF StopNapi, StopMask, StopUart, tx, kern
  <2>3. /\ PcFun' /\ pc'["ctl"] \in {"mask", "off", "cleanup"}
        /\ pc'["xmit"] = pc["xmit"] /\ pc'["task"] = pc["task"]
    BY <2>1, GotoFacts DEF TxInv, Ctx
  <2>4. QED
    BY <2>1, <2>2, <2>3 DEF TxInv, RunningInv, NoFrame, AfterReset
<1>3. CASE StopCleanup
  <2>1. /\ pc["task"] = "idle" /\ pc["ctl"] = "cleanup" /\ Goto("ctl", "cancel")
        /\ tx_left' = 0 /\ tx_skb' = FALSE
        /\ UNCHANGED <<dropped, queue_stopped, running>>
    BY <1>3 DEF StopCleanup, Step, At, Active, kern
  <2>2. PcFun' /\ pc'["ctl"] = "cancel" /\ pc'["xmit"] = pc["xmit"]
        /\ pc'["task"] = pc["task"]
    BY <2>1, GotoFacts DEF TxInv, Ctx
  <2>3. QED
    BY <2>1, <2>2 DEF TxInv, RunningInv, NoFrame, AfterReset
<1>4. CASE StopCancel
  <2>1. /\ pc["ctl"] = "cancel" /\ Goto("ctl", "idle")
        /\ UNCHANGED <<tx_left, tx_skb, dropped, queue_stopped, running>>
    BY <1>4 DEF StopCancel, Step, At, tx
  <2>2. PcFun' /\ pc'["ctl"] = "idle" /\ pc'["xmit"] = pc["xmit"]
        /\ pc'["task"] = pc["task"]
    BY <2>1, GotoFacts DEF TxInv, Ctx
  <2>3. AfterReset /\ ~running
    BY <2>1 DEF AfterReset, TxInv, RunningInv
  <2>4. QED
    BY <2>1, <2>2, <2>3, ResetStepInv
<1>5. QED
  BY <1>1, <1>2, <1>3, <1>4 DEF uartnet_stop

LEMMA TxNextInv == TxInv /\ [Next]_vars => TxInv'
<1> SUFFICES ASSUME TxInv, [Next]_vars PROVE TxInv'
  OBVIOUS
<1>1. CASE UNCHANGED vars
  <2>1. UNCHANGED pc /\ UNCHANGED tx /\ UNCHANGED running
    BY <1>1 DEF vars, kern
  <2>2. PcFun'
    BY <2>1 DEF TxInv, PcFun
  <2>3. QED
    BY <2>1, <2>2, ElsewhereInv
<1>2. QED
  BY <1>1, XmitInv, TaskInv, PollInv, InterruptInv, OpenInv, StopInv, HardwareInv
     DEF Next

(* The inductive invariant holds in every reachable state. *)
THEOREM TxInvariance == Spec => []TxInv
  BY TxInitInv, TxNextInv, PTL DEF Spec

(* On any number of CPUs uartnet_start_xmit never meets a frame in         *)
(* progress: its drop branch, which would leave the queue stopped for      *)
(* good, is never taken, although start_xmit and uartnet_tx_task hold      *)
(* different locks.                                                        *)
THEOREM TxQueueAwakeOnlyWhenIdle == Spec => []QueueAwakeOnlyWhenIdle
<1>1. TxInv => QueueAwakeOnlyWhenIdle
  BY DEF TxInv, NoFrame, QueueAwakeOnlyWhenIdle
<1>2. QED
  BY <1>1, TxInvariance, PTL
-----------------------------------------------------------------------------
(* The types; a handler is registered at most once per open.               *)
TypeInv ==
  /\ TypeOK
  /\ handlers <= opens
  /\ pc["ctl"] = "request" => handlers < opens

(* One CPU.  Which contexts may be active together: uartnet_tx_task with   *)
(* nothing but uartnet_open or uartnet_stop, uartnet_start_xmit only on    *)
(* top of a poll that delivers a frame, an interrupt on top of a poll.     *)
OneAtATime ==
  /\ pc["task"] # "idle" =>
       pc["xmit"] = "idle" /\ pc["poll"] = "idle" /\ pc["irq"] = "idle"
  /\ pc["xmit"] # "idle" => pc["irq"] = "idle" /\ pc["poll"] \in {"idle", "loop"}

(* So a read-modify-write of IMSC writes back what is there, but for a     *)
(* poll, which an interrupt that masks RX may have preempted.              *)
MaskKept ==
  /\ pc["xmit"] = "write" => tmp["xmit"] = imsc
  /\ pc["task"] = "write" => tmp["task"] = imsc
  /\ pc["irq"] = "write" => tmp["irq"] = imsc
  /\ pc["poll"] = "write" => ("TX" \in tmp["poll"] <=> "TX" \in imsc)

(* What uartnet_stop has shut down, and uartnet_open not yet started.      *)
Down == pc["ctl"] = "idle" /\ ~running

ShutDown ==
  /\ Down \/ pc["ctl"] \in {"mask", "off", "cleanup", "cancel",
                            "request", "enable", "unmask", "napi"} =>
       napi = "off" /\ pc["poll"] = "idle"
  /\ Down \/ pc["ctl"] \in {"off", "cleanup", "cancel", "request", "enable", "unmask"} =>
       imsc = {} /\ pc["irq"] = "idle"
  /\ Down \/ pc["ctl"] \in {"request", "enable", "unmask"} =>
       ~work_pending /\ pc["task"] = "idle"

(* The receive interrupt is unmasked, or somebody is about to see to it.   *)
RxReady ==
  /\ pc["poll"] = "loop" => napi = "sched"
  /\ (running /\ pc["ctl"] = "idle") \/ pc["ctl"] \in {"napi", "start"} =>
       \/ early
       \/ "RX" \in imsc
       \/ napi = "sched"
       \/ pc["poll"] \in {"read", "write"}
       \/ pc["irq"] = "sched"

(* A frame in progress has its pointer and count set, its interrupt        *)
(* unmasked, and something that will go on with it.                        *)
TxReady ==
  /\ tx_left # 0 /\ pc["xmit"] # "prepare" => tx_current = "this"
  /\ running /\ tx_left # 0 /\ pc["xmit"] \in {"idle", "queue"} => "TX" \in imsc
  /\ pc["task"] \in {"read", "write"} => tx_left = 0
  /\ pc["task"] = "unlock" /\ tx_left # 0 =>
       "TX" \in ris \/ tx_fifo > FifoDepth \div 2
  /\ running /\ tx_left # 0 =>
       \/ pc["xmit"] # "idle"
       \/ work_pending
       \/ pc["task"] # "idle"
       \/ pc["irq"] \in {"txcheck", "txqueue"}
       \/ "TX" \in ris
       \/ tx_fifo > FifoDepth \div 2

OneCpuInv == OneAtATime /\ MaskKept /\ ShutDown /\ RxReady /\ TxReady
-----------------------------------------------------------------------------
(* What each step of each context finds and does. *)

(* The effect of XmitEnter. *)
LEMMA XmitEnterFx ==
  ASSUME PcFun, XmitEnter
  PROVE  /\ pc["xmit"] = "idle" /\ CanRun("xmit")
         /\ pc'["xmit"] = "check"
         /\ pc'["task"] = pc["task"] /\ pc'["poll"] = pc["poll"]
         /\ pc'["irq"] = pc["irq"] /\ pc'["ctl"] = pc["ctl"]
         /\ running
         /\ queue_stopped' = TRUE
         /\ UNCHANGED <<tmp, imsc, ris, uart_on, tx_fifo, rx_fifo, rx_todo,
                        status, work_done, tx_left, tx_current, tx_skb,
                        running, napi, napi_missed, work_pending, handlers,
                        opens, early, dropped, late>>
BY GotoFacts DEF XmitEnter, At, Step, hw, tx, kern, loc, Ctx

(* The effect of XmitCheck. *)
LEMMA XmitCheckFx ==
  ASSUME PcFun, TxInv, XmitCheck
  PROVE  /\ pc["xmit"] = "check" /\ CanRun("xmit")
         /\ pc'["xmit"] = "prepare"
         /\ pc'["task"] = pc["task"] /\ pc'["poll"] = pc["poll"]
         /\ pc'["irq"] = pc["irq"] /\ pc'["ctl"] = pc["ctl"]
         /\ tx_left' = FrameBytes
         /\ tx_skb' = TRUE
         /\ UNCHANGED <<tmp, imsc, ris, uart_on, tx_fifo, rx_fifo, rx_todo,
                        status, work_done, tx_current, queue_stopped, running,
                        napi, napi_missed, work_pending, handlers, opens,
                        early, dropped, late>>
<1>1. pc["xmit"] = "check" /\ tx_left = 0
  BY DEF XmitCheck, At, TxInv, NoFrame
<1>2. QED
  BY <1>1, GotoFacts DEF XmitCheck, At, Step, hw, tx, kern, loc, Ctx

(* The effect of XmitPrepare. *)
LEMMA XmitPrepareFx ==
  ASSUME PcFun, XmitPrepare
  PROVE  /\ pc["xmit"] = "prepare" /\ CanRun("xmit")
         /\ pc'["xmit"] = "read"
         /\ pc'["task"] = pc["task"] /\ pc'["poll"] = pc["poll"]
         /\ pc'["irq"] = pc["irq"] /\ pc'["ctl"] = pc["ctl"]
         /\ tx_current' = "this"
         /\ UNCHANGED <<tmp, imsc, ris, uart_on, tx_fifo, rx_fifo, rx_todo,
                        status, work_done, tx_left, tx_skb, queue_stopped,
                        running, napi, napi_missed, work_pending, handlers,
                        opens, early, dropped, late>>
BY GotoFacts DEF XmitPrepare, At, Step, hw, tx, kern, loc, Ctx

(* The effect of XmitReadIMSC. *)
LEMMA XmitReadIMSCFx ==
  ASSUME PcFun, XmitReadIMSC
  PROVE  /\ pc["xmit"] = "read" /\ CanRun("xmit")
         /\ pc'["xmit"] = "write"
         /\ pc'["task"] = pc["task"] /\ pc'["poll"] = pc["poll"]
         /\ pc'["irq"] = pc["irq"] /\ pc'["ctl"] = pc["ctl"]
         /\ tmp' = [tmp EXCEPT !["xmit"] = imsc]
         /\ UNCHANGED <<imsc, ris, uart_on, tx_fifo, rx_fifo, rx_todo, status,
                        work_done, tx_left, tx_current, tx_skb, queue_stopped,
                        running, napi, napi_missed, work_pending, handlers,
                        opens, early, dropped, late>>
BY GotoFacts DEF XmitReadIMSC, At, Step, hw, tx, kern, loc, ReadIMSC, WriteIMSC, Ctx

(* The effect of XmitWriteIMSC. *)
LEMMA XmitWriteIMSCFx ==
  ASSUME PcFun, XmitWriteIMSC
  PROVE  /\ pc["xmit"] = "write" /\ CanRun("xmit")
         /\ pc'["xmit"] = "queue"
         /\ pc'["task"] = pc["task"] /\ pc'["poll"] = pc["poll"]
         /\ pc'["irq"] = pc["irq"] /\ pc'["ctl"] = pc["ctl"]
         /\ imsc' = tmp["xmit"] \cup {"TX"}
         /\ tmp' = [tmp EXCEPT !["xmit"] = {}]
         /\ UNCHANGED <<ris, uart_on, tx_fifo, rx_fifo, rx_todo, status,
                        work_done, tx_left, tx_current, tx_skb, queue_stopped,
                        running, napi, napi_missed, work_pending, handlers,
                        opens, early, dropped, late>>
BY GotoFacts DEF XmitWriteIMSC, At, Step, hw, tx, kern, loc, ReadIMSC, WriteIMSC, Ctx

(* The effect of XmitQueueWork. *)
LEMMA XmitQueueWorkFx ==
  ASSUME PcFun, XmitQueueWork
  PROVE  /\ pc["xmit"] = "queue" /\ CanRun("xmit")
         /\ pc'["xmit"] = "idle"
         /\ pc'["task"] = pc["task"] /\ pc'["poll"] = pc["poll"]
         /\ pc'["irq"] = pc["irq"] /\ pc'["ctl"] = pc["ctl"]
         /\ work_pending' = TRUE
         /\ UNCHANGED <<tmp, imsc, ris, uart_on, tx_fifo, rx_fifo, rx_todo,
                        status, work_done, tx_left, tx_current, tx_skb,
                        queue_stopped, running, napi, napi_missed, handlers,
                        opens, early, dropped, late>>
BY GotoFacts DEF XmitQueueWork, At, Step, hw, tx, kern, loc, Ctx

(* The effect of TaskStart. *)
LEMMA TaskStartFx ==
  ASSUME PcFun, TaskStart
  PROVE  /\ pc["task"] = "idle" /\ CanRun("task")
         /\ pc'["task"] = "loop"
         /\ pc'["xmit"] = pc["xmit"] /\ pc'["poll"] = pc["poll"]
         /\ pc'["irq"] = pc["irq"] /\ pc'["ctl"] = pc["ctl"]
         /\ work_pending
         /\ work_pending' = FALSE
         /\ UNCHANGED <<tmp, imsc, ris, uart_on, tx_fifo, rx_fifo, rx_todo,
                        status, work_done, tx_left, tx_current, tx_skb,
                        queue_stopped, running, napi, napi_missed, handlers,
                        opens, early, dropped, late>>
BY GotoFacts DEF TaskStart, At, Step, hw, tx, kern, loc, Ctx

(* The effect of TaskLeave. *)
LEMMA TaskLeaveFx ==
  ASSUME PcFun, TaskLeave
  PROVE  /\ pc["task"] = "loop" /\ CanRun("task")
         /\ pc'["task"] = "unlock"
         /\ pc'["xmit"] = pc["xmit"] /\ pc'["poll"] = pc["poll"]
         /\ pc'["irq"] = pc["irq"] /\ pc'["ctl"] = pc["ctl"]
         /\ TxFull \/ tx_left = 0
         /\ UNCHANGED <<tmp, imsc, ris, uart_on, tx_fifo, rx_fifo, rx_todo,
                        status, work_done, tx_left, tx_current, tx_skb,
                        queue_stopped, running, napi, napi_missed,
                        work_pending, handlers, opens, early, dropped, late>>
BY GotoFacts DEF TaskLeave, At, Step, hw, tx, kern, loc, TxFull, Ctx

(* The effect of TaskByte. *)
LEMMA TaskByteFx ==
  ASSUME PcFun, TaskByte
  PROVE  /\ pc["task"] = "loop" /\ CanRun("task") /\ UNCHANGED pc
         /\ tx_fifo # FifoDepth
         /\ tx_left > 1
         /\ tx_fifo' = tx_fifo + 1
         /\ tx_left' = tx_left - 1
         /\ UNCHANGED <<tmp, imsc, ris, uart_on, rx_fifo, rx_todo, status,
                        work_done, tx_current, tx_skb, queue_stopped, running,
                        napi, napi_missed, work_pending, handlers, opens,
                        early, dropped, late>>
BY DEF TaskByte, At, Step, hw, tx, kern, loc, TxFull

(* The effect of TaskFooter. *)
LEMMA TaskFooterFx ==
  ASSUME PcFun, TaskFooter
  PROVE  /\ pc["task"] = "loop" /\ CanRun("task")
         /\ pc'["task"] = "wake"
         /\ pc'["xmit"] = pc["xmit"] /\ pc'["poll"] = pc["poll"]
         /\ pc'["irq"] = pc["irq"] /\ pc'["ctl"] = pc["ctl"]
         /\ tx_fifo # FifoDepth
         /\ tx_fifo' = tx_fifo + 1
         /\ tx_left' = 0
         /\ tx_skb' = FALSE
         /\ tx_current' = "none"
         /\ UNCHANGED <<tmp, imsc, ris, uart_on, rx_fifo, rx_todo, status,
                        work_done, queue_stopped, running, napi, napi_missed,
                        work_pending, handlers, opens, early, dropped, late>>
BY GotoFacts DEF TaskFooter, At, Step, hw, tx, kern, loc, TxFull, Ctx

(* The effect of TaskWake. *)
LEMMA TaskWakeFx ==
  ASSUME PcFun, TaskWake
  PROVE  /\ pc["task"] = "wake" /\ CanRun("task")
         /\ pc'["task"] = "unlock"
         /\ pc'["xmit"] = pc["xmit"] /\ pc'["poll"] = pc["poll"]
         /\ pc'["irq"] = pc["irq"] /\ pc'["ctl"] = pc["ctl"]
         /\ queue_stopped' = FALSE
         /\ UNCHANGED <<tmp, imsc, ris, uart_on, tx_fifo, rx_fifo, rx_todo,
                        status, work_done, tx_left, tx_current, tx_skb,
                        running, napi, napi_missed, work_pending, handlers,
                        opens, early, dropped, late>>
BY GotoFacts DEF TaskWake, At, Step, hw, tx, kern, loc, Ctx

(* The effect of TaskUnlock. *)
LEMMA TaskUnlockFx ==
  ASSUME PcFun, TaskUnlock
  PROVE  /\ pc["task"] = "unlock" /\ CanRun("task")
         /\ pc'["task"] \in {"read", "idle"}
         /\ pc'["xmit"] = pc["xmit"] /\ pc'["poll"] = pc["poll"]
         /\ pc'["irq"] = pc["irq"] /\ pc'["ctl"] = pc["ctl"]
         /\ pc'["task"] = "read" <=> tx_left = 0
         /\ UNCHANGED <<tmp, imsc, ris, uart_on, tx_fifo, rx_fifo, rx_todo,
                        status, work_done, tx_left, tx_current, tx_skb,
                        queue_stopped, running, napi, napi_missed,
                        work_pending, handlers, opens, early, dropped, late>>
BY GotoFacts DEF TaskUnlock, At, Step, hw, tx, kern, loc, Ctx

(* The effect of TaskReadIMSC. *)
LEMMA TaskReadIMSCFx ==
  ASSUME PcFun, TaskReadIMSC
  PROVE  /\ pc["task"] = "read" /\ CanRun("task")
         /\ pc'["task"] = "write"
         /\ pc'["xmit"] = pc["xmit"] /\ pc'["poll"] = pc["poll"]
         /\ pc'["irq"] = pc["irq"] /\ pc'["ctl"] = pc["ctl"]
         /\ tmp' = [tmp EXCEPT !["task"] = imsc]
         /\ UNCHANGED <<imsc, ris, uart_on, tx_fifo, rx_fifo, rx_todo, status,
                        work_done, tx_left, tx_current, tx_skb, queue_stopped,
                        running, napi, napi_missed, work_pending, handlers,
                        opens, early, dropped, late>>
BY GotoFacts DEF TaskReadIMSC, At, Step, hw, tx, kern, loc, ReadIMSC, WriteIMSC, Ctx

(* The effect of TaskWriteIMSC. *)
LEMMA TaskWriteIMSCFx ==
  ASSUME PcFun, TaskWriteIMSC
  PROVE  /\ pc["task"] = "write" /\ CanRun("task")
         /\ pc'["task"] = "idle"
         /\ pc'["xmit"] = pc["xmit"] /\ pc'["poll"] = pc["poll"]
         /\ pc'["irq"] = pc["irq"] /\ pc'["ctl"] = pc["ctl"]
         /\ imsc' = tmp["task"] \ {"TX"}
         /\ tmp' = [tmp EXCEPT !["task"] = {}]
         /\ UNCHANGED <<ris, uart_on, tx_fifo, rx_fifo, rx_todo, status,
                        work_done, tx_left, tx_current, tx_skb, queue_stopped,
                        running, napi, napi_missed, work_pending, handlers,
                        opens, early, dropped, late>>
BY GotoFacts DEF TaskWriteIMSC, At, Step, hw, tx, kern, loc, ReadIMSC, WriteIMSC, Ctx

(* The effect of PollStart. *)
LEMMA PollStartFx ==
  ASSUME PcFun, PollStart
  PROVE  /\ pc["poll"] = "idle" /\ CanRun("poll")
         /\ pc'["poll"] = "loop"
         /\ pc'["xmit"] = pc["xmit"] /\ pc'["task"] = pc["task"]
         /\ pc'["irq"] = pc["irq"] /\ pc'["ctl"] = pc["ctl"]
         /\ napi = "sched"
         /\ work_done' = 0
         /\ UNCHANGED <<tmp, imsc, ris, uart_on, tx_fifo, rx_fifo, rx_todo,
                        status, tx_left, tx_current, tx_skb, queue_stopped,
                        running, napi, napi_missed, work_pending, handlers,
                        opens, early, dropped, late>>
BY GotoFacts DEF PollStart, At, Step, hw, tx, kern, loc, Ctx

(* The effect of PollByte. *)
LEMMA PollByteFx ==
  ASSUME PcFun, PollByte
  PROVE  /\ pc["poll"] = "loop" /\ CanRun("poll") /\ UNCHANGED pc
         /\ rx_fifo > 0
         /\ work_done < Budget
         /\ rx_fifo' = rx_fifo - 1
         /\ work_done' \in {work_done, work_done + 1}
         /\ UNCHANGED <<tmp, imsc, ris, uart_on, tx_fifo, rx_todo, status,
                        tx_left, tx_current, tx_skb, queue_stopped, running,
                        napi, napi_missed, work_pending, handlers, opens,
                        early, dropped, late>>
BY DEF PollByte, At, Step, hw, tx, kern, loc

(* The effect of PollAgain. *)
LEMMA PollAgainFx ==
  ASSUME PcFun, PollAgain
  PROVE  /\ pc["poll"] = "loop" /\ CanRun("poll")
         /\ pc'["poll"] = "idle"
         /\ pc'["xmit"] = pc["xmit"] /\ pc'["task"] = pc["task"]
         /\ pc'["irq"] = pc["irq"] /\ pc'["ctl"] = pc["ctl"]
         /\ work_done' = 0
         /\ UNCHANGED <<tmp, imsc, ris, uart_on, tx_fifo, rx_fifo, rx_todo,
                        status, tx_left, tx_current, tx_skb,
                        queue_stopped, running, napi, napi_missed,
                        work_pending, handlers, opens, early, dropped, late>>
BY GotoFacts DEF PollAgain, At, Step, hw, tx, kern, loc, Ctx

(* The effect of PollComplete. *)
LEMMA PollCompleteFx ==
  ASSUME PcFun, PollComplete
  PROVE  /\ pc["poll"] = "loop" /\ CanRun("poll")
         /\ pc'["poll"] = "read"
         /\ pc'["xmit"] = pc["xmit"] /\ pc'["task"] = pc["task"]
         /\ pc'["irq"] = pc["irq"] /\ pc'["ctl"] = pc["ctl"]
         /\ napi' = IF napi_missed THEN "sched" ELSE "idle"
         /\ napi_missed' = FALSE
         /\ work_done' = 0
         /\ UNCHANGED <<tmp, imsc, ris, uart_on, tx_fifo, rx_fifo, rx_todo,
                        status, tx_left, tx_current, tx_skb,
                        queue_stopped, running, work_pending, handlers, opens,
                        early, dropped, late>>
BY GotoFacts DEF PollComplete, At, Step, hw, tx, kern, loc, Ctx

(* The effect of PollReadIMSC. *)
LEMMA PollReadIMSCFx ==
  ASSUME PcFun, PollReadIMSC
  PROVE  /\ pc["poll"] = "read" /\ CanRun("poll")
         /\ pc'["poll"] = "write"
         /\ pc'["xmit"] = pc["xmit"] /\ pc'["task"] = pc["task"]
         /\ pc'["irq"] = pc["irq"] /\ pc'["ctl"] = pc["ctl"]
         /\ tmp' = [tmp EXCEPT !["poll"] = imsc]
         /\ UNCHANGED <<imsc, ris, uart_on, tx_fifo, rx_fifo, rx_todo, status,
                        work_done, tx_left, tx_current, tx_skb, queue_stopped,
                        running, napi, napi_missed, work_pending, handlers,
                        opens, early, dropped, late>>
BY GotoFacts DEF PollReadIMSC, At, Step, hw, tx, kern, loc, ReadIMSC, WriteIMSC, Ctx

(* The effect of PollWriteIMSC. *)
LEMMA PollWriteIMSCFx ==
  ASSUME PcFun, PollWriteIMSC
  PROVE  /\ pc["poll"] = "write" /\ CanRun("poll")
         /\ pc'["poll"] = "idle"
         /\ pc'["xmit"] = pc["xmit"] /\ pc'["task"] = pc["task"]
         /\ pc'["irq"] = pc["irq"] /\ pc'["ctl"] = pc["ctl"]
         /\ imsc' = tmp["poll"] \cup {"RX"}
         /\ tmp' = [tmp EXCEPT !["poll"] = {}]
         /\ UNCHANGED <<ris, uart_on, tx_fifo, rx_fifo, rx_todo, status,
                        work_done, tx_left, tx_current, tx_skb, queue_stopped,
                        running, napi, napi_missed, work_pending, handlers,
                        opens, early, dropped, late>>
BY GotoFacts DEF PollWriteIMSC, At, Step, hw, tx, kern, loc, ReadIMSC, WriteIMSC, Ctx

(* The effect of IrqEnter. *)
LEMMA IrqEnterFx ==
  ASSUME PcFun, IrqEnter
  PROVE  /\ pc["irq"] = "idle" /\ CanRun("irq")
         /\ pc'["irq"] \in {"rxack", "txack"}
         /\ pc'["xmit"] = pc["xmit"] /\ pc'["task"] = pc["task"]
         /\ pc'["poll"] = pc["poll"] /\ pc'["ctl"] = pc["ctl"]
         /\ imsc \cap ris # {}
         /\ status' = imsc \cap ris
         /\ pc'["irq"] = IF "RX" \in imsc \cap ris THEN "rxack" ELSE "txack"
         /\ UNCHANGED <<tmp, imsc, ris, uart_on, tx_fifo, rx_fifo, rx_todo,
                        work_done, tx_left, tx_current, tx_skb, queue_stopped,
                        running, napi, napi_missed, work_pending, handlers,
                        opens, early, dropped, late>>
BY GotoFacts DEF IrqEnter, At, Step, hw, tx, kern, loc, Ctx

(* The effect of IrqAckRx. *)
LEMMA IrqAckRxFx ==
  ASSUME PcFun, IrqAckRx
  PROVE  /\ pc["irq"] = "rxack" /\ CanRun("irq")
         /\ pc'["irq"] = "read"
         /\ pc'["xmit"] = pc["xmit"] /\ pc'["task"] = pc["task"]
         /\ pc'["poll"] = pc["poll"] /\ pc'["ctl"] = pc["ctl"]
         /\ ris' = ris \ {"RX"}
         /\ UNCHANGED <<tmp, imsc, uart_on, tx_fifo, rx_fifo, rx_todo, status,
                        work_done, tx_left, tx_current, tx_skb, queue_stopped,
                        running, napi, napi_missed, work_pending, handlers,
                        opens, early, dropped, late>>
BY GotoFacts DEF IrqAckRx, At, Step, hw, tx, kern, loc, Ctx

(* The effect of IrqReadIMSC. *)
LEMMA IrqReadIMSCFx ==
  ASSUME PcFun, IrqReadIMSC
  PROVE  /\ pc["irq"] = "read" /\ CanRun("irq")
         /\ pc'["irq"] = "write"
         /\ pc'["xmit"] = pc["xmit"] /\ pc'["task"] = pc["task"]
         /\ pc'["poll"] = pc["poll"] /\ pc'["ctl"] = pc["ctl"]
         /\ tmp' = [tmp EXCEPT !["irq"] = imsc]
         /\ UNCHANGED <<imsc, ris, uart_on, tx_fifo, rx_fifo, rx_todo, status,
                        work_done, tx_left, tx_current, tx_skb, queue_stopped,
                        running, napi, napi_missed, work_pending, handlers,
                        opens, early, dropped, late>>
BY GotoFacts DEF IrqReadIMSC, At, Step, hw, tx, kern, loc, ReadIMSC, WriteIMSC, Ctx

(* The effect of IrqWriteIMSC. *)
LEMMA IrqWriteIMSCFx ==
  ASSUME PcFun, IrqWriteIMSC
  PROVE  /\ pc["irq"] = "write" /\ CanRun("irq")
         /\ pc'["irq"] = "sched"
         /\ pc'["xmit"] = pc["xmit"] /\ pc'["task"] = pc["task"]
         /\ pc'["poll"] = pc["poll"] /\ pc'["ctl"] = pc["ctl"]
         /\ imsc' = tmp["irq"] \ {"RX"}
         /\ tmp' = [tmp EXCEPT !["irq"] = {}]
         /\ UNCHANGED <<ris, uart_on, tx_fifo, rx_fifo, rx_todo, status,
                        work_done, tx_left, tx_current, tx_skb, queue_stopped,
                        running, napi, napi_missed, work_pending, handlers,
                        opens, early, dropped, late>>
BY GotoFacts DEF IrqWriteIMSC, At, Step, hw, tx, kern, loc, ReadIMSC, WriteIMSC, Ctx

(* The effect of IrqSchedule. *)
LEMMA IrqScheduleFx ==
  ASSUME PcFun, TypeOK, IrqSchedule
  PROVE  /\ pc["irq"] = "sched" /\ CanRun("irq")
         /\ pc'["irq"] \in {"txack", "idle"}
         /\ pc'["xmit"] = pc["xmit"] /\ pc'["task"] = pc["task"]
         /\ pc'["poll"] = pc["poll"] /\ pc'["ctl"] = pc["ctl"]
         /\ napi' = IF pc["ctl"] # "disable" /\ napi = "idle" THEN "sched" ELSE napi
         /\ napi_missed' \in BOOLEAN
         /\ early' = (early \/ napi = "off")
         /\ pc'["irq"] = "txack" <=> "TX" \in status
         /\ status' = status \ {"RX"}
         /\ UNCHANGED <<tmp, imsc, ris, uart_on, tx_fifo, rx_fifo, rx_todo,
                        work_done, tx_left, tx_current, tx_skb,
                        queue_stopped, running, work_pending, handlers, opens,
                        dropped, late>>
BY GotoFacts DEF IrqSchedule, At, Step, hw, tx, kern, loc, TypeOK, Ctx

(* The effect of IrqAckTx. *)
LEMMA IrqAckTxFx ==
  ASSUME PcFun, IrqAckTx
  PROVE  /\ pc["irq"] = "txack" /\ CanRun("irq")
         /\ pc'["irq"] = "txcheck"
         /\ pc'["xmit"] = pc["xmit"] /\ pc'["task"] = pc["task"]
         /\ pc'["poll"] = pc["poll"] /\ pc'["ctl"] = pc["ctl"]
         /\ ris' = ris \ {"TX"}
         /\ status' = status \ {"TX"}
         /\ UNCHANGED <<tmp, imsc, uart_on, tx_fifo, rx_fifo, rx_todo, work_done, tx_left, tx_current, tx_skb, queue_stopped,
                        running, napi, napi_missed, work_pending, handlers,
                        opens, early, dropped, late>>
BY GotoFacts DEF IrqAckTx, At, Step, hw, tx, kern, loc, Ctx

(* The effect of IrqCheckTx. *)
LEMMA IrqCheckTxFx ==
  ASSUME PcFun, IrqCheckTx
  PROVE  /\ pc["irq"] = "txcheck" /\ CanRun("irq")
         /\ pc'["irq"] \in {"txqueue", "idle"}
         /\ pc'["xmit"] = pc["xmit"] /\ pc'["task"] = pc["task"]
         /\ pc'["poll"] = pc["poll"] /\ pc'["ctl"] = pc["ctl"]
         /\ pc'["irq"] = "txqueue" <=> tx_left # 0
         /\ UNCHANGED <<tmp, imsc, ris, uart_on, tx_fifo, rx_fifo, rx_todo,
                        status, work_done, tx_left, tx_current, tx_skb,
                        queue_stopped, running, napi, napi_missed,
                        work_pending, handlers, opens, early, dropped, late>>
BY GotoFacts DEF IrqCheckTx, At, Step, hw, tx, kern, loc, Ctx

(* The effect of IrqQueueWork. *)
LEMMA IrqQueueWorkFx ==
  ASSUME PcFun, IrqQueueWork
  PROVE  /\ pc["irq"] = "txqueue" /\ CanRun("irq")
         /\ pc'["irq"] = "idle"
         /\ pc'["xmit"] = pc["xmit"] /\ pc'["task"] = pc["task"]
         /\ pc'["poll"] = pc["poll"] /\ pc'["ctl"] = pc["ctl"]
         /\ work_pending' = TRUE
         /\ UNCHANGED <<tmp, imsc, ris, uart_on, tx_fifo, rx_fifo, rx_todo,
                        status, work_done, tx_left, tx_current, tx_skb,
                        queue_stopped, running, napi, napi_missed, handlers,
                        opens, early, dropped, late>>
BY GotoFacts DEF IrqQueueWork, At, Step, hw, tx, kern, loc, Ctx

(* The effect of OpenReset. *)
LEMMA OpenResetFx ==
  ASSUME PcFun, OpenReset
  PROVE  /\ pc["ctl"] = "idle" /\ CanRun("ctl")
         /\ pc'["ctl"] = "request"
         /\ pc'["xmit"] = pc["xmit"] /\ pc'["task"] = pc["task"]
         /\ pc'["poll"] = pc["poll"] /\ pc'["irq"] = pc["irq"]
         /\ ~running
         /\ opens < MaxOpens
         /\ opens' = opens + 1
         /\ early' = FALSE
         /\ tx_left' = 0
         /\ tx_skb' = FALSE
         /\ tx_current' = CutOff
         /\ UNCHANGED <<tmp, imsc, ris, uart_on, tx_fifo, rx_fifo, rx_todo,
                        status, work_done, queue_stopped, running, napi,
                        napi_missed, work_pending, handlers, dropped, late>>
BY GotoFacts DEF OpenReset, At, Step, hw, tx, kern, loc, Ctx

(* The effect of OpenRequestIrq. *)
LEMMA OpenRequestIrqFx ==
  ASSUME PcFun, OpenRequestIrq
  PROVE  /\ pc["ctl"] = "request" /\ CanRun("ctl")
         /\ pc'["ctl"] \in {"enable", "idle"}
         /\ pc'["xmit"] = pc["xmit"] /\ pc'["task"] = pc["task"]
         /\ pc'["poll"] = pc["poll"] /\ pc'["irq"] = pc["irq"]
         /\ handlers' = IF pc'["ctl"] = "enable" THEN handlers + 1 ELSE handlers
         /\ UNCHANGED <<tmp, imsc, ris, uart_on, tx_fifo, rx_fifo, rx_todo,
                        status, work_done, tx_left, tx_current, tx_skb,
                        queue_stopped, running, napi, napi_missed,
                        work_pending, opens, early, dropped, late>>
BY GotoFacts DEF OpenRequestIrq, At, Step, hw, tx, kern, loc, Ctx

(* The effect of OpenEnableUart. *)
LEMMA OpenEnableUartFx ==
  ASSUME PcFun, OpenEnableUart
  PROVE  /\ pc["ctl"] = "enable" /\ CanRun("ctl")
         /\ pc'["ctl"] = "unmask"
         /\ pc'["xmit"] = pc["xmit"] /\ pc'["task"] = pc["task"]
         /\ pc'["poll"] = pc["poll"] /\ pc'["irq"] = pc["irq"]
         /\ uart_on' = TRUE
         /\ UNCHANGED <<tmp, imsc, ris, tx_fifo, rx_fifo, rx_todo, status,
                        work_done, tx_left, tx_current, tx_skb, queue_stopped,
                        running, napi, napi_missed, work_pending, handlers,
                        opens, early, dropped, late>>
BY GotoFacts DEF OpenEnableUart, At, Step, hw, tx, kern, loc, Ctx

(* The effect of OpenUnmask. *)
LEMMA OpenUnmaskFx ==
  ASSUME PcFun, OpenUnmask
  PROVE  /\ pc["ctl"] = "unmask" /\ CanRun("ctl")
         /\ pc'["ctl"] = "napi"
         /\ pc'["xmit"] = pc["xmit"] /\ pc'["task"] = pc["task"]
         /\ pc'["poll"] = pc["poll"] /\ pc'["irq"] = pc["irq"]
         /\ imsc' = {"RX"}
         /\ tmp' = [tmp EXCEPT !["ctl"] = {}]
         /\ UNCHANGED <<ris, uart_on, tx_fifo, rx_fifo, rx_todo, status,
                        work_done, tx_left, tx_current, tx_skb, queue_stopped,
                        running, napi, napi_missed, work_pending, handlers,
                        opens, early, dropped, late>>
BY GotoFacts DEF OpenUnmask, At, Step, hw, tx, kern, loc, ReadIMSC, WriteIMSC, Ctx

(* The effect of OpenNapi. *)
LEMMA OpenNapiFx ==
  ASSUME PcFun, OpenNapi
  PROVE  /\ pc["ctl"] = "napi" /\ CanRun("ctl")
         /\ pc'["ctl"] = "start"
         /\ pc'["xmit"] = pc["xmit"] /\ pc'["task"] = pc["task"]
         /\ pc'["poll"] = pc["poll"] /\ pc'["irq"] = pc["irq"]
         /\ napi' = "idle"
         /\ UNCHANGED <<tmp, imsc, ris, uart_on, tx_fifo, rx_fifo, rx_todo,
                        status, work_done, tx_left, tx_current, tx_skb,
                        queue_stopped, running, napi_missed, work_pending,
                        handlers, opens, early, dropped, late>>
BY GotoFacts DEF OpenNapi, At, Step, hw, tx, kern, loc, Ctx

(* The effect of OpenStart. *)
LEMMA OpenStartFx ==
  ASSUME PcFun, OpenStart
  PROVE  /\ pc["ctl"] = "start" /\ CanRun("ctl")
         /\ pc'["ctl"] = "idle"
         /\ pc'["xmit"] = pc["xmit"] /\ pc'["task"] = pc["task"]
         /\ pc'["poll"] = pc["poll"] /\ pc'["irq"] = pc["irq"]
         /\ queue_stopped' = FALSE
         /\ running' = TRUE
         /\ UNCHANGED <<tmp, imsc, ris, uart_on, tx_fifo, rx_fifo, rx_todo,
                        status, work_done, tx_left, tx_current, tx_skb, napi,
                        napi_missed, work_pending, handlers, opens, early,
                        dropped, late>>
BY GotoFacts DEF OpenStart, At, Step, hw, tx, kern, loc, Ctx

(* The effect of StopEnter. *)
LEMMA StopEnterFx ==
  ASSUME PcFun, StopEnter
  PROVE  /\ pc["ctl"] = "idle" /\ CanRun("ctl")
         /\ pc'["ctl"] = "disable"
         /\ pc'["xmit"] = pc["xmit"] /\ pc'["task"] = pc["task"]
         /\ pc'["poll"] = pc["poll"] /\ pc'["irq"] = pc["irq"]
         /\ running
         /\ running' = FALSE
         /\ queue_stopped' = TRUE
         /\ UNCHANGED <<tmp, imsc, ris, uart_on, tx_fifo, rx_fifo, rx_todo,
                        status, work_done, tx_left, tx_current, tx_skb, napi,
                        napi_missed, work_pending, handlers, opens, early,
                        dropped, late>>
BY GotoFacts DEF StopEnter, At, Step, hw, tx, kern, loc, Ctx

(* The effect of StopNapi. *)
LEMMA StopNapiFx ==
  ASSUME PcFun, StopNapi
  PROVE  /\ pc["ctl"] = "disable" /\ CanRun("ctl")
         /\ pc'["ctl"] = "mask"
         /\ pc'["xmit"] = pc["xmit"] /\ pc'["task"] = pc["task"]
         /\ pc'["poll"] = pc["poll"] /\ pc'["irq"] = pc["irq"]
         /\ napi' = "off"
         /\ UNCHANGED <<tmp, imsc, ris, uart_on, tx_fifo, rx_fifo, rx_todo,
                        status, work_done, tx_left, tx_current, tx_skb,
                        queue_stopped, running, napi_missed, work_pending,
                        handlers, opens, early, dropped, late>>
BY GotoFacts DEF StopNapi, At, Step, hw, tx, kern, loc, Ctx

(* The effect of StopMask. *)
LEMMA StopMaskFx ==
  ASSUME PcFun, StopMask
  PROVE  /\ pc["ctl"] = "mask" /\ CanRun("ctl")
         /\ pc'["ctl"] = "off"
         /\ pc'["xmit"] = pc["xmit"] /\ pc'["task"] = pc["task"]
         /\ pc'["poll"] = pc["poll"] /\ pc'["irq"] = pc["irq"]
         /\ imsc' = {}
         /\ late' = (pc["irq"] # "idle" \/ pc["poll"] # "idle")
         /\ UNCHANGED <<tmp, ris, uart_on, tx_fifo, rx_fifo, rx_todo, status,
                        work_done, tx_left, tx_current, tx_skb, queue_stopped,
                        running, napi, napi_missed, work_pending, handlers,
                        opens, early, dropped>>
BY GotoFacts DEF StopMask, At, Step, hw, tx, kern, loc, Active, Ctx

(* The effect of StopUart. *)
LEMMA StopUartFx ==
  ASSUME PcFun, StopUart
  PROVE  /\ pc["ctl"] = "off" /\ CanRun("ctl")
         /\ pc'["ctl"] = "cleanup"
         /\ pc'["xmit"] = pc["xmit"] /\ pc'["task"] = pc["task"]
         /\ pc'["poll"] = pc["poll"] /\ pc'["irq"] = pc["irq"]
         /\ uart_on' = FALSE
         /\ UNCHANGED <<tmp, imsc, ris, tx_fifo, rx_fifo, rx_todo, status,
                        work_done, tx_left, tx_current, tx_skb, queue_stopped,
                        running, napi, napi_missed, work_pending, handlers,
                        opens, early, dropped, late>>
BY GotoFacts DEF StopUart, At, Step, hw, tx, kern, loc, Ctx

(* The effect of StopCleanup. *)
LEMMA StopCleanupFx ==
  ASSUME PcFun, StopCleanup
  PROVE  /\ pc["ctl"] = "cleanup" /\ CanRun("ctl")
         /\ pc'["ctl"] = "cancel"
         /\ pc'["xmit"] = pc["xmit"] /\ pc'["task"] = pc["task"]
         /\ pc'["poll"] = pc["poll"] /\ pc'["irq"] = pc["irq"]
         /\ tx_left' = 0
         /\ tx_skb' = FALSE
         /\ tx_current' = CutOff
         /\ UNCHANGED <<tmp, imsc, ris, uart_on, tx_fifo, rx_fifo, rx_todo,
                        status, work_done, queue_stopped, running, napi,
                        napi_missed, work_pending, handlers, opens, early,
                        dropped, late>>
BY GotoFacts DEF StopCleanup, At, Step, hw, tx, kern, loc, Ctx

(* The effect of StopCancel. *)
LEMMA StopCancelFx ==
  ASSUME PcFun, StopCancel
  PROVE  /\ pc["ctl"] = "cancel" /\ CanRun("ctl") /\ pc["task"] = "idle"
         /\ pc'["ctl"] = "idle"
         /\ pc'["xmit"] = pc["xmit"] /\ pc'["task"] = pc["task"]
         /\ pc'["poll"] = pc["poll"] /\ pc'["irq"] = pc["irq"]
         /\ work_pending' = FALSE
         /\ UNCHANGED <<tmp, imsc, ris, uart_on, tx_fifo, rx_fifo, rx_todo,
                        status, work_done, tx_left, tx_current, tx_skb,
                        queue_stopped, running, napi, napi_missed, handlers,
                        opens, early, dropped, late>>
BY GotoFacts DEF StopCancel, At, Step, Active, hw, tx, kern, loc, Ctx
-----------------------------------------------------------------------------
(* A context at one of its labels goes on to one of its labels. *)
LEMMA LabelsKept ==
  ASSUME DOMAIN pc = Ctx, \A c \in Ctx : pc[c] \in Labels[c], PcFun,
         \/ UNCHANGED pc
         \/ \E c \in Ctx : \E to \in Labels[c] : Goto(c, to)
  PROVE  DOMAIN pc' = Ctx /\ \A c \in Ctx : pc'[c] \in Labels[c]
<1>1. CASE UNCHANGED pc
  BY <1>1
<1>2. ASSUME NEW c \in Ctx, NEW to \in Labels[c], Goto(c, to)
      PROVE  DOMAIN pc' = Ctx /\ \A d \in Ctx : pc'[d] \in Labels[d]
  <2>1. PcFun' /\ pc'[c] = to /\ \A d \in Ctx : d # c => pc'[d] = pc[d]
    BY <1>2, GotoFacts
  <2>2. DOMAIN pc' = Ctx
    BY <2>1 DEF PcFun
  <2>3. QED
    BY <1>2, <2>1, <2>2
<1>3. QED
  BY <1>1, <1>2

(* What a context has read of IMSC is a set of interrupts. *)
LEMMA TmpType ==
  ASSUME tmp \in [Ctx -> SUBSET Bits], imsc \in SUBSET Bits,
         NEW c \in Ctx, tmp' = [tmp EXCEPT ![c] = imsc] \/ tmp' = [tmp EXCEPT ![c] = {}]
  PROVE  tmp' \in [Ctx -> SUBSET Bits]
  OBVIOUS

(* The types, at every step on any number of CPUs.                         *)
LEMMA TypeStep == TypeInv /\ TxInv /\ [Next]_vars => TypeInv'
<1> SUFFICES ASSUME TypeInv, TxInv, [Next]_vars PROVE TypeInv'
  OBVIOUS
<1> USE NetAssumption DEF TypeInv, TypeOK
<1>1. PcFun
  BY DEF TxInv
<1>2. CASE XmitEnter
  <2>1. Goto("xmit", "check")
    BY <1>2 DEF XmitEnter, Step
  <2>2. DOMAIN pc' = Ctx /\ \A c \in Ctx : pc'[c] \in Labels[c]
    BY <1>1, <2>1, LabelsKept DEF Ctx, Labels
  <2>3. QED
    BY <1>1, <1>2, <2>2, XmitEnterFx
<1>3. CASE XmitCheck
  <2>1. Goto("xmit", "prepare") \/ Goto("xmit", "idle")
    BY <1>3 DEF XmitCheck, Step
  <2>2. DOMAIN pc' = Ctx /\ \A c \in Ctx : pc'[c] \in Labels[c]
    BY <1>1, <2>1, LabelsKept DEF Ctx, Labels
  <2>3. QED
    BY <1>1, <1>3, <2>2, XmitCheckFx
<1>4. CASE XmitPrepare
  <2>1. Goto("xmit", "read")
    BY <1>4 DEF XmitPrepare, Step
  <2>2. DOMAIN pc' = Ctx /\ \A c \in Ctx : pc'[c] \in Labels[c]
    BY <1>1, <2>1, LabelsKept DEF Ctx, Labels
  <2>3. QED
    BY <1>1, <1>4, <2>2, XmitPrepareFx
<1>5. CASE XmitReadIMSC
  <2>1. Goto("xmit", "write")
    BY <1>5 DEF XmitReadIMSC, Step, ReadIMSC, WriteIMSC
  <2>2. DOMAIN pc' = Ctx /\ \A c \in Ctx : pc'[c] \in Labels[c]
    BY <1>1, <2>1, LabelsKept DEF Ctx, Labels
  <2>3. tmp' = [tmp EXCEPT !["xmit"] = imsc]
    BY <1>1, <1>5, XmitReadIMSCFx
  <2>4. tmp' \in [Ctx -> SUBSET Bits]
    BY <2>3, TmpType DEF Ctx
  <2>5. QED
    BY <1>1, <1>5, <2>2, <2>4, XmitReadIMSCFx
<1>6. CASE XmitWriteIMSC
  <2>1. Goto("xmit", "queue")
    BY <1>6 DEF XmitWriteIMSC, Step, ReadIMSC, WriteIMSC
  <2>2. DOMAIN pc' = Ctx /\ \A c \in Ctx : pc'[c] \in Labels[c]
    BY <1>1, <2>1, LabelsKept DEF Ctx, Labels
  <2>3. tmp' = [tmp EXCEPT !["xmit"] = {}]
    BY <1>1, <1>6, XmitWriteIMSCFx
  <2>4. tmp' \in [Ctx -> SUBSET Bits]
    BY <2>3, TmpType DEF Ctx
  <2>5. imsc' = tmp["xmit"] \cup {"TX"}
    BY <1>1, <1>6, XmitWriteIMSCFx
  <2>6. imsc' \in SUBSET Bits
    BY <2>5 DEF Bits, Ctx
  <2>7. QED
    BY <1>1, <1>6, <2>2, <2>4, <2>6, XmitWriteIMSCFx
<1>7. CASE XmitQueueWork
  <2>1. Goto("xmit", "idle")
    BY <1>7 DEF XmitQueueWork, Step
  <2>2. DOMAIN pc' = Ctx /\ \A c \in Ctx : pc'[c] \in Labels[c]
    BY <1>1, <2>1, LabelsKept DEF Ctx, Labels
  <2>3. QED
    BY <1>1, <1>7, <2>2, XmitQueueWorkFx
<1>8. CASE TaskStart
  <2>1. Goto("task", "loop")
    BY <1>8 DEF TaskStart, Step
  <2>2. DOMAIN pc' = Ctx /\ \A c \in Ctx : pc'[c] \in Labels[c]
    BY <1>1, <2>1, LabelsKept DEF Ctx, Labels
  <2>3. QED
    BY <1>1, <1>8, <2>2, TaskStartFx
<1>9. CASE TaskLeave
  <2>1. Goto("task", "unlock")
    BY <1>9 DEF TaskLeave, Step
  <2>2. DOMAIN pc' = Ctx /\ \A c \in Ctx : pc'[c] \in Labels[c]
    BY <1>1, <2>1, LabelsKept DEF Ctx, Labels
  <2>3. QED
    BY <1>1, <1>9, <2>2, TaskLeaveFx
<1>10. CASE TaskByte
  <2>1. UNCHANGED pc
    BY <1>1, <1>10, TaskByteFx
  <2>2. DOMAIN pc' = Ctx /\ \A c \in Ctx : pc'[c] \in Labels[c]
    BY <2>1
  <2>3. QED
    BY <1>1, <1>10, <2>2, TaskByteFx
<1>11. CASE TaskFooter
  <2>1. Goto("task", "wake")
    BY <1>11 DEF TaskFooter, Step
  <2>2. DOMAIN pc' = Ctx /\ \A c \in Ctx : pc'[c] \in Labels[c]
    BY <1>1, <2>1, LabelsKept DEF Ctx, Labels
  <2>3. QED
    BY <1>1, <1>11, <2>2, TaskFooterFx
<1>12. CASE TaskWake
  <2>1. Goto("task", "unlock")
    BY <1>12 DEF TaskWake, Step
  <2>2. DOMAIN pc' = Ctx /\ \A c \in Ctx : pc'[c] \in Labels[c]
    BY <1>1, <2>1, LabelsKept DEF Ctx, Labels
  <2>3. QED
    BY <1>1, <1>12, <2>2, TaskWakeFx
<1>13. CASE TaskUnlock
  <2>1. \E to \in {"read", "idle"} : Goto("task", to)
    BY <1>13 DEF TaskUnlock, Step
  <2>2. DOMAIN pc' = Ctx /\ \A c \in Ctx : pc'[c] \in Labels[c]
    BY <1>1, <2>1, LabelsKept DEF Ctx, Labels
  <2>3. QED
    BY <1>1, <1>13, <2>2, TaskUnlockFx
<1>14. CASE TaskReadIMSC
  <2>1. Goto("task", "write")
    BY <1>14 DEF TaskReadIMSC, Step, ReadIMSC, WriteIMSC
  <2>2. DOMAIN pc' = Ctx /\ \A c \in Ctx : pc'[c] \in Labels[c]
    BY <1>1, <2>1, LabelsKept DEF Ctx, Labels
  <2>3. tmp' = [tmp EXCEPT !["task"] = imsc]
    BY <1>1, <1>14, TaskReadIMSCFx
  <2>4. tmp' \in [Ctx -> SUBSET Bits]
    BY <2>3, TmpType DEF Ctx
  <2>5. QED
    BY <1>1, <1>14, <2>2, <2>4, TaskReadIMSCFx
<1>15. CASE TaskWriteIMSC
  <2>1. Goto("task", "idle")
    BY <1>15 DEF TaskWriteIMSC, Step, ReadIMSC, WriteIMSC
  <2>2. DOMAIN pc' = Ctx /\ \A c \in Ctx : pc'[c] \in Labels[c]
    BY <1>1, <2>1, LabelsKept DEF Ctx, Labels
  <2>3. tmp' = [tmp EXCEPT !["task"] = {}]
    BY <1>1, <1>15, TaskWriteIMSCFx
  <2>4. tmp' \in [Ctx -> SUBSET Bits]
    BY <2>3, TmpType DEF Ctx
  <2>5. imsc' = tmp["task"] \ {"TX"}
    BY <1>1, <1>15, TaskWriteIMSCFx
  <2>6. imsc' \in SUBSET Bits
    BY <2>5 DEF Bits, Ctx
  <2>7. QED
    BY <1>1, <1>15, <2>2, <2>4, <2>6, TaskWriteIMSCFx
<1>16. CASE PollStart
  <2>1. Goto("poll", "loop")
    BY <1>16 DEF PollStart, Step
  <2>2. DOMAIN pc' = Ctx /\ \A c \in Ctx : pc'[c] \in Labels[c]
    BY <1>1, <2>1, LabelsKept DEF Ctx, Labels
  <2>3. QED
    BY <1>1, <1>16, <2>2, PollStartFx
<1>17. CASE PollByte
  <2>1. UNCHANGED pc
    BY <1>1, <1>17, PollByteFx
  <2>2. DOMAIN pc' = Ctx /\ \A c \in Ctx : pc'[c] \in Labels[c]
    BY <2>1
  <2>3. QED
    BY <1>1, <1>17, <2>2, PollByteFx
<1>18. CASE PollAgain
  <2>1. Goto("poll", "idle")
    BY <1>18 DEF PollAgain, Step
  <2>2. DOMAIN pc' = Ctx /\ \A c \in Ctx : pc'[c] \in Labels[c]
    BY <1>1, <2>1, LabelsKept DEF Ctx, Labels
  <2>3. QED
    BY <1>1, <1>18, <2>2, PollAgainFx
<1>19. CASE PollComplete
  <2>1. Goto("poll", "read")
    BY <1>19 DEF PollComplete, Step
  <2>2. DOMAIN pc' = Ctx /\ \A c \in Ctx : pc'[c] \in Labels[c]
    BY <1>1, <2>1, LabelsKept DEF Ctx, Labels
  <2>3. QED
    BY <1>1, <1>19, <2>2, PollCompleteFx
<1>20. CASE PollReadIMSC
  <2>1. Goto("poll", "write")
    BY <1>20 DEF PollReadIMSC, Step, ReadIMSC, WriteIMSC
  <2>2. DOMAIN pc' = Ctx /\ \A c \in Ctx : pc'[c] \in Labels[c]
    BY <1>1, <2>1, LabelsKept DEF Ctx, Labels
  <2>3. tmp' = [tmp EXCEPT !["poll"] = imsc]
    BY <1>1, <1>20, PollReadIMSCFx
  <2>4. tmp' \in [Ctx -> SUBSET Bits]
    BY <2>3, TmpType DEF Ctx
  <2>5. QED
    BY <1>1, <1>20, <2>2, <2>4, PollReadIMSCFx
<1>21. CASE PollWriteIMSC
  <2>1. Goto("poll", "idle")
    BY <1>21 DEF PollWriteIMSC, Step, ReadIMSC, WriteIMSC
  <2>2. DOMAIN pc' = Ctx /\ \A c \in Ctx : pc'[c] \in Labels[c]
    BY <1>1, <2>1, LabelsKept DEF Ctx, Labels
  <2>3. tmp' = [tmp EXCEPT !["poll"] = {}]
    BY <1>1, <1>21, PollWriteIMSCFx
  <2>4. tmp' \in [Ctx -> SUBSET Bits]
    BY <2>3, TmpType DEF Ctx
  <2>5. imsc' = tmp["poll"] \cup {"RX"}
    BY <1>1, <1>21, PollWriteIMSCFx
  <2>6. imsc' \in SUBSET Bits
    BY <2>5 DEF Bits, Ctx
  <2>7. QED
    BY <1>1, <1>21, <2>2, <2>4, <2>6, PollWriteIMSCFx
<1>22. CASE IrqEnter
  <2>1. \E to \in {"rxack", "txack"} : Goto("irq", to)
    BY <1>22 DEF IrqEnter, Step
  <2>2. DOMAIN pc' = Ctx /\ \A c \in Ctx : pc'[c] \in Labels[c]
    BY <1>1, <2>1, LabelsKept DEF Ctx, Labels
  <2>3. QED
    BY <1>1, <1>22, <2>2, IrqEnterFx
<1>23. CASE IrqAckRx
  <2>1. Goto("irq", "read")
    BY <1>23 DEF IrqAckRx, Step
  <2>2. DOMAIN pc' = Ctx /\ \A c \in Ctx : pc'[c] \in Labels[c]
    BY <1>1, <2>1, LabelsKept DEF Ctx, Labels
  <2>3. ris' = ris \ {"RX"}
    BY <1>1, <1>23, IrqAckRxFx
  <2>4. ris' \in SUBSET Bits
    BY <2>3 DEF Bits, Ctx
  <2>5. QED
    BY <1>1, <1>23, <2>2, <2>4, IrqAckRxFx
<1>24. CASE IrqReadIMSC
  <2>1. Goto("irq", "write")
    BY <1>24 DEF IrqReadIMSC, Step, ReadIMSC, WriteIMSC
  <2>2. DOMAIN pc' = Ctx /\ \A c \in Ctx : pc'[c] \in Labels[c]
    BY <1>1, <2>1, LabelsKept DEF Ctx, Labels
  <2>3. tmp' = [tmp EXCEPT !["irq"] = imsc]
    BY <1>1, <1>24, IrqReadIMSCFx
  <2>4. tmp' \in [Ctx -> SUBSET Bits]
    BY <2>3, TmpType DEF Ctx
  <2>5. QED
    BY <1>1, <1>24, <2>2, <2>4, IrqReadIMSCFx
<1>25. CASE IrqWriteIMSC
  <2>1. Goto("irq", "sched")
    BY <1>25 DEF IrqWriteIMSC, Step, ReadIMSC, WriteIMSC
  <2>2. DOMAIN pc' = Ctx /\ \A c \in Ctx : pc'[c] \in Labels[c]
    BY <1>1, <2>1, LabelsKept DEF Ctx, Labels
  <2>3. tmp' = [tmp EXCEPT !["irq"] = {}]
    BY <1>1, <1>25, IrqWriteIMSCFx
  <2>4. tmp' \in [Ctx -> SUBSET Bits]
    BY <2>3, TmpType DEF Ctx
  <2>5. imsc' = tmp["irq"] \ {"RX"}
    BY <1>1, <1>25, IrqWriteIMSCFx
  <2>6. imsc' \in SUBSET Bits
    BY <2>5 DEF Bits, Ctx
  <2>7. QED
    BY <1>1, <1>25, <2>2, <2>4, <2>6, IrqWriteIMSCFx
<1>26. CASE IrqSchedule
  <2>1. \E to \in {"txack", "idle"} : Goto("irq", to)
    BY <1>26 DEF IrqSchedule, Step
  <2>2. DOMAIN pc' = Ctx /\ \A c \in Ctx : pc'[c] \in Labels[c]
    BY <1>1, <2>1, LabelsKept DEF Ctx, Labels
  <2>3. early' = (early \/ napi = "off")
    BY <1>1, <1>26, IrqScheduleFx
  <2>4. early' \in BOOLEAN
    BY <2>3
  <2>5. napi' = IF pc["ctl"] # "disable" /\ napi = "idle" THEN "sched" ELSE napi
    BY <1>1, <1>26, IrqScheduleFx
  <2>6. napi' \in {"off", "idle", "sched"}
    BY <2>5
  <2>7. status' \in SUBSET Bits
    BY <1>1, <1>26, IrqScheduleFx
  <2>8. QED
    BY <1>1, <1>26, <2>2, <2>4, <2>6, <2>7, IrqScheduleFx
<1>27. CASE IrqAckTx
  <2>1. Goto("irq", "txcheck")
    BY <1>27 DEF IrqAckTx, Step
  <2>2. DOMAIN pc' = Ctx /\ \A c \in Ctx : pc'[c] \in Labels[c]
    BY <1>1, <2>1, LabelsKept DEF Ctx, Labels
  <2>3. ris' = ris \ {"TX"}
    BY <1>1, <1>27, IrqAckTxFx
  <2>4. ris' \in SUBSET Bits
    BY <2>3 DEF Bits, Ctx
  <2>5. status' \in SUBSET Bits
    BY <1>1, <1>27, IrqAckTxFx
  <2>6. QED
    BY <1>1, <1>27, <2>2, <2>4, <2>5, IrqAckTxFx
<1>28. CASE IrqCheckTx
  <2>1. \E to \in {"txqueue", "idle"} : Goto("irq", to)
    BY <1>28 DEF IrqCheckTx, Step
  <2>2. DOMAIN pc' = Ctx /\ \A c \in Ctx : pc'[c] \in Labels[c]
    BY <1>1, <2>1, LabelsKept DEF Ctx, Labels
  <2>3. QED
    BY <1>1, <1>28, <2>2, IrqCheckTxFx
<1>29. CASE IrqQueueWork
  <2>1. Goto("irq", "idle")
    BY <1>29 DEF IrqQueueWork, Step
  <2>2. DOMAIN pc' = Ctx /\ \A c \in Ctx : pc'[c] \in Labels[c]
    BY <1>1, <2>1, LabelsKept DEF Ctx, Labels
  <2>3. QED
    BY <1>1, <1>29, <2>2, IrqQueueWorkFx
<1>30. CASE OpenReset
  <2>1. Goto("ctl", "request")
    BY <1>30 DEF OpenReset, Step
  <2>2. DOMAIN pc' = Ctx /\ \A c \in Ctx : pc'[c] \in Labels[c]
    BY <1>1, <2>1, LabelsKept DEF Ctx, Labels
  <2>3. QED
    BY <1>1, <1>30, <2>2, OpenResetFx DEF CutOff
<1>31. CASE OpenRequestIrq
  <2>1. \E to \in {"enable", "idle"} : Goto("ctl", to)
    BY <1>31 DEF OpenRequestIrq, Step
  <2>2. DOMAIN pc' = Ctx /\ \A c \in Ctx : pc'[c] \in Labels[c]
    BY <1>1, <2>1, LabelsKept DEF Ctx, Labels
  <2>3. QED
    BY <1>1, <1>31, <2>2, OpenRequestIrqFx
<1>32. CASE OpenEnableUart
  <2>1. Goto("ctl", "unmask")
    BY <1>32 DEF OpenEnableUart, Step
  <2>2. DOMAIN pc' = Ctx /\ \A c \in Ctx : pc'[c] \in Labels[c]
    BY <1>1, <2>1, LabelsKept DEF Ctx, Labels
  <2>3. QED
    BY <1>1, <1>32, <2>2, OpenEnableUartFx
<1>33. CASE OpenUnmask
  <2>1. Goto("ctl", "napi")
    BY <1>33 DEF OpenUnmask, Step, ReadIMSC, WriteIMSC
  <2>2. DOMAIN pc' = Ctx /\ \A c \in Ctx : pc'[c] \in Labels[c]
    BY <1>1, <2>1, LabelsKept DEF Ctx, Labels
  <2>3. tmp' = [tmp EXCEPT !["ctl"] = {}]
    BY <1>1, <1>33, OpenUnmaskFx
  <2>4. tmp' \in [Ctx -> SUBSET Bits]
    BY <2>3, TmpType DEF Ctx
  <2>5. imsc' = {"RX"}
    BY <1>1, <1>33, OpenUnmaskFx
  <2>6. imsc' \in SUBSET Bits
    BY <2>5 DEF Bits, Ctx
  <2>7. QED
    BY <1>1, <1>33, <2>2, <2>4, <2>6, OpenUnmaskFx
<1>34. CASE OpenNapi
  <2>1. Goto("ctl", "start")
    BY <1>34 DEF OpenNapi, Step
  <2>2. DOMAIN pc' = Ctx /\ \A c \in Ctx : pc'[c] \in Labels[c]
    BY <1>1, <2>1, LabelsKept DEF Ctx, Labels
  <2>3. QED
    BY <1>1, <1>34, <2>2, OpenNapiFx
<1>35. CASE OpenStart
  <2>1. Goto("ctl", "idle")
    BY <1>35 DEF OpenStart, Step
  <2>2. DOMAIN pc' = Ctx /\ \A c \in Ctx : pc'[c] \in Labels[c]
    BY <1>1, <2>1, LabelsKept DEF Ctx, Labels
  <2>3. QED
    BY <1>1, <1>35, <2>2, OpenStartFx
<1>36. CASE StopEnter
  <2>1. Goto("ctl", "disable")
    BY <1>36 DEF StopEnter, Step
  <2>2. DOMAIN pc' = Ctx /\ \A c \in Ctx : pc'[c] \in Labels[c]
    BY <1>1, <2>1, LabelsKept DEF Ctx, Labels
  <2>3. QED
    BY <1>1, <1>36, <2>2, StopEnterFx
<1>37. CASE StopNapi
  <2>1. Goto("ctl", "mask")
    BY <1>37 DEF StopNapi, Step
  <2>2. DOMAIN pc' = Ctx /\ \A c \in Ctx : pc'[c] \in Labels[c]
    BY <1>1, <2>1, LabelsKept DEF Ctx, Labels
  <2>3. QED
    BY <1>1, <1>37, <2>2, StopNapiFx
<1>38. CASE StopMask
  <2>1. Goto("ctl", "off")
    BY <1>38 DEF StopMask, Step
  <2>2. DOMAIN pc' = Ctx /\ \A c \in Ctx : pc'[c] \in Labels[c]
    BY <1>1, <2>1, LabelsKept DEF Ctx, Labels
  <2>3. late' \in BOOLEAN
    BY <1>1, <1>38, StopMaskFx
  <2>4. imsc' \in SUBSET Bits
    BY <1>1, <1>38, StopMaskFx
  <2>5. QED
    BY <1>1, <1>38, <2>2, <2>3, <2>4, StopMaskFx
<1>39. CASE StopUart
  <2>1. Goto("ctl", "cleanup")
    BY <1>39 DEF StopUart, Step
  <2>2. DOMAIN pc' = Ctx /\ \A c \in Ctx : pc'[c] \in Labels[c]
    BY <1>1, <2>1, LabelsKept DEF Ctx, Labels
  <2>3. QED
    BY <1>1, <1>39, <2>2, StopUartFx
<1>40. CASE StopCleanup
  <2>1. Goto("ctl", "cancel")
    BY <1>40 DEF StopCleanup, Step
  <2>2. DOMAIN pc' = Ctx /\ \A c \in Ctx : pc'[c] \in Labels[c]
    BY <1>1, <2>1, LabelsKept DEF Ctx, Labels
  <2>3. QED
    BY <1>1, <1>40, <2>2, StopCleanupFx DEF CutOff
<1>41. CASE StopCancel
  <2>1. Goto("ctl", "idle")
    BY <1>41 DEF StopCancel, Step
  <2>2. DOMAIN pc' = Ctx /\ \A c \in Ctx : pc'[c] \in Labels[c]
    BY <1>1, <2>1, LabelsKept DEF Ctx, Labels
  <2>3. QED
    BY <1>1, <1>41, <2>2, StopCancelFx
<1>42. CASE Hardware
  <2>1. UNCHANGED pc
    BY <1>42 DEF Hardware, UartDrain, UartArrive, UartRaiseRx
  <2>2. DOMAIN pc' = Ctx /\ \A c \in Ctx : pc'[c] \in Labels[c]
    BY <2>1
  <2>3. CASE UartDrain
    BY <2>1, <2>2, <2>3 DEF UartDrain, tx, kern, loc, Bits
  <2>4. CASE UartArrive
    BY <2>1, <2>2, <2>4 DEF UartArrive, tx, kern, loc
  <2>5. CASE UartRaiseRx
    BY <2>1, <2>2, <2>5 DEF UartRaiseRx, tx, kern, loc, Bits
  <2>6. QED
    BY <1>42, <2>3, <2>4, <2>5 DEF Hardware
<1>43. CASE UNCHANGED vars
  BY <1>43 DEF vars, hw, tx, kern, loc
<1>44. QED
  BY <1>2, <1>3, <1>4, <1>5, <1>6, <1>7, <1>8, <1>9, <1>10, <1>11, <1>12, <1>13,
     <1>14, <1>15, <1>16, <1>17, <1>18, <1>19, <1>20, <1>21, <1>22, <1>23, <1>24, <1>25,
     <1>26, <1>27, <1>28, <1>29, <1>30, <1>31, <1>32, <1>33, <1>34, <1>35, <1>36, <1>37,
     <1>38, <1>39, <1>40, <1>41, <1>42, <1>43
  DEF Next, uartnet_start_xmit, uartnet_tx_task, uartnet_poll, uartnet_interrupt,
      uartnet_open, uartnet_stop

(* The types hold at first. *)
LEMMA TypeInit == Init => TypeInv
<1> SUFFICES ASSUME Init PROVE TypeInv
  OBVIOUS
<1>1. /\ DOMAIN pc = Ctx /\ \A c \in Ctx : pc[c] = "idle"
      /\ \A c \in Ctx : pc[c] \in Labels[c]
      /\ pc["ctl"] = "idle"
  BY DEF Init, Ctx, Labels
<1>2. tmp \in [Ctx -> SUBSET Bits]
  BY DEF Init
<1>3. /\ imsc = {} /\ ris = {} /\ status = {} /\ uart_on = FALSE
      /\ tx_fifo = 0 /\ rx_fifo = 0 /\ rx_todo = MaxRx /\ work_done = 0
      /\ tx_left = 0 /\ tx_current = "none" /\ tx_skb = FALSE
      /\ queue_stopped = TRUE /\ dropped = FALSE /\ running = FALSE
      /\ napi = "off" /\ napi_missed = FALSE /\ work_pending = FALSE
      /\ handlers = 0 /\ opens = 0 /\ early = FALSE /\ late = FALSE
  BY DEF Init
<1>4. imsc \in SUBSET Bits /\ ris \in SUBSET Bits /\ status \in SUBSET Bits
  BY <1>3
<1>5. /\ tx_fifo \in 0..FifoDepth /\ rx_fifo \in 0..FifoDepth
      /\ rx_todo \in 0..MaxRx /\ work_done \in 0..Budget
      /\ tx_left \in 0..FrameBytes
      /\ handlers \in 0..MaxOpens /\ opens \in 0..MaxOpens /\ handlers <= opens
  BY <1>3, NetAssumption
<1>6. TypeOK
  BY <1>1, <1>2, <1>3, <1>4, <1>5 DEF TypeOK
<1>7. QED
  BY <1>1, <1>5, <1>6 DEF TypeInv

(* Each context keeps its type on any number of CPUs. *)
THEOREM NetTypeOK == Spec => []TypeOK
<1>1. TypeInv => TypeOK
  BY DEF TypeInv
<1>2. QED
  BY <1>1, TypeInit, TypeStep, TxInvariance, PTL DEF Spec
-----------------------------------------------------------------------------
(* One CPU: the contexts that are idle when one of them takes a step. *)
LEMMA AloneXmit ==
  ASSUME ~SMP, CanRun("xmit")
  PROVE  pc["task"] = "idle" /\ pc["irq"] = "idle" /\ pc["poll"] \in {"idle", "loop"}
  BY DEF CanRun, Preempts, Active, Ctx

LEMMA AloneTask ==
  ASSUME ~SMP, CanRun("task")
  PROVE  pc["xmit"] = "idle" /\ pc["poll"] = "idle" /\ pc["irq"] = "idle"
  BY DEF CanRun, Preempts, Active, Ctx

LEMMA AlonePoll ==
  ASSUME ~SMP, CanRun("poll")
  PROVE  pc["xmit"] = "idle" /\ pc["task"] = "idle" /\ pc["irq"] = "idle"
  BY DEF CanRun, Preempts, Active, Ctx

LEMMA AloneIrq ==
  ASSUME ~SMP, CanRun("irq")
  PROVE  pc["xmit"] = "idle" /\ pc["task"] = "idle"
  BY DEF CanRun, Preempts, Active, Ctx

LEMMA AloneCtl ==
  ASSUME ~SMP, CanRun("ctl")
  PROVE  /\ pc["xmit"] = "idle" /\ pc["task"] = "idle"
         /\ pc["poll"] = "idle" /\ pc["irq"] = "idle"
  BY DEF CanRun, Preempts, Active, Ctx

(* A context that is suspended in a read-modify-write keeps what it read.  *)
LEMMA TmpFacts ==
  ASSUME tmp \in [Ctx -> SUBSET Bits], NEW c \in Ctx, NEW v,
         tmp' = [tmp EXCEPT ![c] = v]
  PROVE  tmp'[c] = v /\ \A d \in Ctx : d # c => tmp'[d] = tmp[d]
  OBVIOUS

(* One CPU: every step keeps OneCpuInv.                                    *)
LEMMA OneCpuStep ==
  ASSUME ~SMP, TypeInv, TxInv, TxInv', OneCpuInv, [Next]_vars
  PROVE  OneCpuInv'
<1>1. /\ PcFun /\ TypeOK
      /\ tmp \in [Ctx -> SUBSET Bits] /\ imsc \in SUBSET Bits /\ ris \in SUBSET Bits
      /\ tx_left \in Nat /\ tx_fifo \in 0..FifoDepth
      /\ FifoDepth \in Nat \ {0} /\ FifoDepth \div 2 < FifoDepth
      /\ FifoDepth \div 2 \in Nat
  BY NetAssumption DEF TypeInv, TypeOK, TxInv
<1>2. CASE XmitEnter
  <2>1. OneAtATime'
    BY <1>1, <1>2, XmitEnterFx, AloneXmit DEF OneCpuInv, OneAtATime
  <2>2. MaskKept'
    BY <1>1, <1>2, XmitEnterFx, AloneXmit DEF OneCpuInv, MaskKept
  <2>3. ShutDown'
    BY <1>1, <1>2, XmitEnterFx, AloneXmit DEF OneCpuInv, ShutDown, Down
  <2>4. RxReady'
    BY <1>1, <1>2, XmitEnterFx, AloneXmit DEF OneCpuInv, RxReady
  <2>5. TxReady'
    BY <1>1, <1>2, XmitEnterFx, AloneXmit DEF OneCpuInv, TxReady
  <2>6. QED
    BY <2>1, <2>2, <2>3, <2>4, <2>5 DEF OneCpuInv
<1>3. CASE XmitCheck
  <2>1. OneAtATime'
    BY <1>1, <1>3, XmitCheckFx, AloneXmit DEF OneCpuInv, OneAtATime
  <2>2. MaskKept'
    BY <1>1, <1>3, XmitCheckFx, AloneXmit DEF OneCpuInv, MaskKept
  <2>3. ShutDown'
    BY <1>1, <1>3, XmitCheckFx, AloneXmit DEF OneCpuInv, ShutDown, Down
  <2>4. RxReady'
    BY <1>1, <1>3, XmitCheckFx, AloneXmit DEF OneCpuInv, RxReady
  <2>5. TxReady'
    BY <1>1, <1>3, XmitCheckFx, AloneXmit DEF OneCpuInv, TxReady
  <2>6. QED
    BY <2>1, <2>2, <2>3, <2>4, <2>5 DEF OneCpuInv
<1>4. CASE XmitPrepare
  <2>1. OneAtATime'
    BY <1>1, <1>4, XmitPrepareFx, AloneXmit DEF OneCpuInv, OneAtATime
  <2>2. MaskKept'
    BY <1>1, <1>4, XmitPrepareFx, AloneXmit DEF OneCpuInv, MaskKept
  <2>3. ShutDown'
    BY <1>1, <1>4, XmitPrepareFx, AloneXmit DEF OneCpuInv, ShutDown, Down
  <2>4. RxReady'
    BY <1>1, <1>4, XmitPrepareFx, AloneXmit DEF OneCpuInv, RxReady
  <2>5. TxReady'
    BY <1>1, <1>4, XmitPrepareFx, AloneXmit DEF OneCpuInv, TxReady
  <2>6. QED
    BY <2>1, <2>2, <2>3, <2>4, <2>5 DEF OneCpuInv
<1>5. CASE XmitReadIMSC
  <2>1. tmp' = [tmp EXCEPT !["xmit"] = imsc]
    BY <1>1, <1>5, XmitReadIMSCFx
  <2>2. /\ tmp'["xmit"] = imsc
        /\ tmp'["task"] = tmp["task"]
        /\ tmp'["poll"] = tmp["poll"]
        /\ tmp'["irq"] = tmp["irq"]
    BY <1>1, <2>1, TmpFacts DEF Ctx
  <2>3. OneAtATime'
    BY <1>1, <1>5, XmitReadIMSCFx, AloneXmit, <2>2 DEF OneCpuInv, OneAtATime
  <2>4. MaskKept'
    BY <1>1, <1>5, XmitReadIMSCFx, AloneXmit, <2>2 DEF OneCpuInv, MaskKept
  <2>5. ShutDown'
    BY <1>1, <1>5, XmitReadIMSCFx, AloneXmit, <2>2 DEF OneCpuInv, ShutDown, Down
  <2>6. RxReady'
    BY <1>1, <1>5, XmitReadIMSCFx, AloneXmit, <2>2 DEF OneCpuInv, RxReady
  <2>7. TxReady'
    BY <1>1, <1>5, XmitReadIMSCFx, AloneXmit, <2>2 DEF OneCpuInv, TxReady
  <2>8. QED
    BY <2>3, <2>4, <2>5, <2>6, <2>7 DEF OneCpuInv
<1>6. CASE XmitWriteIMSC
  <2>1. tmp' = [tmp EXCEPT !["xmit"] = {}]
    BY <1>1, <1>6, XmitWriteIMSCFx
  <2>2. /\ tmp'["xmit"] = {}
        /\ tmp'["task"] = tmp["task"]
        /\ tmp'["poll"] = tmp["poll"]
        /\ tmp'["irq"] = tmp["irq"]
    BY <1>1, <2>1, TmpFacts DEF Ctx
  <2>3. OneAtATime'
    BY <1>1, <1>6, XmitWriteIMSCFx, AloneXmit, <2>2 DEF OneCpuInv, OneAtATime
  <2>4. MaskKept'
    BY <1>1, <1>6, XmitWriteIMSCFx, AloneXmit, <2>2 DEF OneCpuInv, MaskKept
  <2>5. ShutDown'
    BY <1>1, <1>6, XmitWriteIMSCFx, AloneXmit, <2>2
    DEF OneCpuInv, ShutDown, Down, TxInv, RunningInv
  <2>6. RxReady'
    BY <1>1, <1>6, XmitWriteIMSCFx, AloneXmit, <2>2 DEF OneCpuInv, RxReady, MaskKept
  <2>7. TxReady'
    BY <1>1, <1>6, XmitWriteIMSCFx, AloneXmit, <2>2 DEF OneCpuInv, TxReady
  <2>8. QED
    BY <2>3, <2>4, <2>5, <2>6, <2>7 DEF OneCpuInv
<1>7. CASE XmitQueueWork
  <2>1. OneAtATime'
    BY <1>1, <1>7, XmitQueueWorkFx, AloneXmit DEF OneCpuInv, OneAtATime
  <2>2. MaskKept'
    BY <1>1, <1>7, XmitQueueWorkFx, AloneXmit DEF OneCpuInv, MaskKept
  <2>3. ShutDown'
    BY <1>1, <1>7, XmitQueueWorkFx, AloneXmit
    DEF OneCpuInv, ShutDown, Down, TxInv, RunningInv
  <2>4. RxReady'
    BY <1>1, <1>7, XmitQueueWorkFx, AloneXmit DEF OneCpuInv, RxReady
  <2>5. TxReady'
    BY <1>1, <1>7, XmitQueueWorkFx, AloneXmit DEF OneCpuInv, TxReady
  <2>6. QED
    BY <2>1, <2>2, <2>3, <2>4, <2>5 DEF OneCpuInv
<1>8. CASE TaskStart
  <2>1. OneAtATime'
    BY <1>1, <1>8, TaskStartFx, AloneTask DEF OneCpuInv, OneAtATime
  <2>2. MaskKept'
    BY <1>1, <1>8, TaskStartFx, AloneTask DEF OneCpuInv, MaskKept
  <2>3. ShutDown'
    BY <1>1, <1>8, TaskStartFx, AloneTask DEF OneCpuInv, ShutDown, Down
  <2>4. RxReady'
    BY <1>1, <1>8, TaskStartFx, AloneTask DEF OneCpuInv, RxReady
  <2>5. TxReady'
    BY <1>1, <1>8, TaskStartFx, AloneTask DEF OneCpuInv, TxReady
  <2>6. QED
    BY <2>1, <2>2, <2>3, <2>4, <2>5 DEF OneCpuInv
<1>9. CASE TaskLeave
  <2>1. OneAtATime'
    BY <1>1, <1>9, TaskLeaveFx, AloneTask DEF OneCpuInv, OneAtATime
  <2>2. MaskKept'
    BY <1>1, <1>9, TaskLeaveFx, AloneTask DEF OneCpuInv, MaskKept
  <2>3. ShutDown'
    BY <1>1, <1>9, TaskLeaveFx, AloneTask DEF OneCpuInv, ShutDown, Down
  <2>4. RxReady'
    BY <1>1, <1>9, TaskLeaveFx, AloneTask DEF OneCpuInv, RxReady
  <2>5. TxReady'
    BY <1>1, <1>9, TaskLeaveFx, AloneTask DEF OneCpuInv, TxReady, TxFull
  <2>6. QED
    BY <2>1, <2>2, <2>3, <2>4, <2>5 DEF OneCpuInv
<1>10. CASE TaskByte
  <2>1. OneAtATime'
    BY <1>1, <1>10, TaskByteFx, AloneTask DEF OneCpuInv, OneAtATime
  <2>2. MaskKept'
    BY <1>1, <1>10, TaskByteFx, AloneTask DEF OneCpuInv, MaskKept
  <2>3. ShutDown'
    BY <1>1, <1>10, TaskByteFx, AloneTask DEF OneCpuInv, ShutDown, Down
  <2>4. RxReady'
    BY <1>1, <1>10, TaskByteFx, AloneTask DEF OneCpuInv, RxReady
  <2>5. TxReady'
    BY <1>1, <1>10, TaskByteFx, AloneTask DEF OneCpuInv, TxReady
  <2>6. QED
    BY <2>1, <2>2, <2>3, <2>4, <2>5 DEF OneCpuInv
<1>11. CASE TaskFooter
  <2>1. OneAtATime'
    BY <1>1, <1>11, TaskFooterFx, AloneTask DEF OneCpuInv, OneAtATime
  <2>2. MaskKept'
    BY <1>1, <1>11, TaskFooterFx, AloneTask DEF OneCpuInv, MaskKept
  <2>3. ShutDown'
    BY <1>1, <1>11, TaskFooterFx, AloneTask DEF OneCpuInv, ShutDown, Down
  <2>4. RxReady'
    BY <1>1, <1>11, TaskFooterFx, AloneTask DEF OneCpuInv, RxReady
  <2>5. TxReady'
    BY <1>1, <1>11, TaskFooterFx, AloneTask DEF OneCpuInv, TxReady
  <2>6. QED
    BY <2>1, <2>2, <2>3, <2>4, <2>5 DEF OneCpuInv
<1>12. CASE TaskWake
  <2>1. OneAtATime'
    BY <1>1, <1>12, TaskWakeFx, AloneTask DEF OneCpuInv, OneAtATime
  <2>2. MaskKept'
    BY <1>1, <1>12, TaskWakeFx, AloneTask DEF OneCpuInv, MaskKept
  <2>3. ShutDown'
    BY <1>1, <1>12, TaskWakeFx, AloneTask DEF OneCpuInv, ShutDown, Down
  <2>4. RxReady'
    BY <1>1, <1>12, TaskWakeFx, AloneTask DEF OneCpuInv, RxReady
  <2>5. TxReady'
    BY <1>1, <1>12, TaskWakeFx, AloneTask DEF OneCpuInv, TxReady, TxInv, NoFrame
  <2>6. QED
    BY <2>1, <2>2, <2>3, <2>4, <2>5 DEF OneCpuInv
<1>13. CASE TaskUnlock
  <2>1. OneAtATime'
    BY <1>1, <1>13, TaskUnlockFx, AloneTask DEF OneCpuInv, OneAtATime
  <2>2. MaskKept'
    BY <1>1, <1>13, TaskUnlockFx, AloneTask DEF OneCpuInv, MaskKept
  <2>3. ShutDown'
    BY <1>1, <1>13, TaskUnlockFx, AloneTask DEF OneCpuInv, ShutDown, Down
  <2>4. RxReady'
    BY <1>1, <1>13, TaskUnlockFx, AloneTask DEF OneCpuInv, RxReady
  <2>5. TxReady'
    BY <1>1, <1>13, TaskUnlockFx, AloneTask DEF OneCpuInv, TxReady
  <2>6. QED
    BY <2>1, <2>2, <2>3, <2>4, <2>5 DEF OneCpuInv
<1>14. CASE TaskReadIMSC
  <2>1. tmp' = [tmp EXCEPT !["task"] = imsc]
    BY <1>1, <1>14, TaskReadIMSCFx
  <2>2. /\ tmp'["task"] = imsc
        /\ tmp'["xmit"] = tmp["xmit"]
        /\ tmp'["poll"] = tmp["poll"]
        /\ tmp'["irq"] = tmp["irq"]
    BY <1>1, <2>1, TmpFacts DEF Ctx
  <2>3. OneAtATime'
    BY <1>1, <1>14, TaskReadIMSCFx, AloneTask, <2>2 DEF OneCpuInv, OneAtATime
  <2>4. MaskKept'
    BY <1>1, <1>14, TaskReadIMSCFx, AloneTask, <2>2 DEF OneCpuInv, MaskKept
  <2>5. ShutDown'
    BY <1>1, <1>14, TaskReadIMSCFx, AloneTask, <2>2 DEF OneCpuInv, ShutDown, Down
  <2>6. RxReady'
    BY <1>1, <1>14, TaskReadIMSCFx, AloneTask, <2>2 DEF OneCpuInv, RxReady
  <2>7. TxReady'
    BY <1>1, <1>14, TaskReadIMSCFx, AloneTask, <2>2 DEF OneCpuInv, TxReady
  <2>8. QED
    BY <2>3, <2>4, <2>5, <2>6, <2>7 DEF OneCpuInv
<1>15. CASE TaskWriteIMSC
  <2>1. tmp' = [tmp EXCEPT !["task"] = {}]
    BY <1>1, <1>15, TaskWriteIMSCFx
  <2>2. /\ tmp'["task"] = {}
        /\ tmp'["xmit"] = tmp["xmit"]
        /\ tmp'["poll"] = tmp["poll"]
        /\ tmp'["irq"] = tmp["irq"]
    BY <1>1, <2>1, TmpFacts DEF Ctx
  <2>3. OneAtATime'
    BY <1>1, <1>15, TaskWriteIMSCFx, AloneTask, <2>2 DEF OneCpuInv, OneAtATime
  <2>4. MaskKept'
    BY <1>1, <1>15, TaskWriteIMSCFx, AloneTask, <2>2 DEF OneCpuInv, MaskKept
  <2>5. ShutDown'
    BY <1>1, <1>15, TaskWriteIMSCFx, AloneTask, <2>2
    DEF OneCpuInv, ShutDown, Down, MaskKept
  <2>6. RxReady'
    BY <1>1, <1>15, TaskWriteIMSCFx, AloneTask, <2>2 DEF OneCpuInv, RxReady, MaskKept
  <2>7. TxReady'
    BY <1>1, <1>15, TaskWriteIMSCFx, AloneTask, <2>2 DEF OneCpuInv, TxReady
  <2>8. QED
    BY <2>3, <2>4, <2>5, <2>6, <2>7 DEF OneCpuInv
<1>16. CASE PollStart
  <2>1. OneAtATime'
    BY <1>1, <1>16, PollStartFx, AlonePoll DEF OneCpuInv, OneAtATime
  <2>2. MaskKept'
    BY <1>1, <1>16, PollStartFx, AlonePoll DEF OneCpuInv, MaskKept
  <2>3. ShutDown'
    BY <1>1, <1>16, PollStartFx, AlonePoll DEF OneCpuInv, ShutDown, Down
  <2>4. RxReady'
    BY <1>1, <1>16, PollStartFx, AlonePoll DEF OneCpuInv, RxReady
  <2>5. TxReady'
    BY <1>1, <1>16, PollStartFx, AlonePoll DEF OneCpuInv, TxReady
  <2>6. QED
    BY <2>1, <2>2, <2>3, <2>4, <2>5 DEF OneCpuInv
<1>17. CASE PollByte
  <2>1. OneAtATime'
    BY <1>1, <1>17, PollByteFx, AlonePoll DEF OneCpuInv, OneAtATime
  <2>2. MaskKept'
    BY <1>1, <1>17, PollByteFx, AlonePoll DEF OneCpuInv, MaskKept
  <2>3. ShutDown'
    BY <1>1, <1>17, PollByteFx, AlonePoll DEF OneCpuInv, ShutDown, Down
  <2>4. RxReady'
    BY <1>1, <1>17, PollByteFx, AlonePoll DEF OneCpuInv, RxReady
  <2>5. TxReady'
    BY <1>1, <1>17, PollByteFx, AlonePoll DEF OneCpuInv, TxReady
  <2>6. QED
    BY <2>1, <2>2, <2>3, <2>4, <2>5 DEF OneCpuInv
<1>18. CASE PollAgain
  <2>1. OneAtATime'
    BY <1>1, <1>18, PollAgainFx, AlonePoll DEF OneCpuInv, OneAtATime
  <2>2. MaskKept'
    BY <1>1, <1>18, PollAgainFx, AlonePoll DEF OneCpuInv, MaskKept
  <2>3. ShutDown'
    BY <1>1, <1>18, PollAgainFx, AlonePoll DEF OneCpuInv, ShutDown, Down
  <2>4. RxReady'
    BY <1>1, <1>18, PollAgainFx, AlonePoll DEF OneCpuInv, RxReady
  <2>5. TxReady'
    BY <1>1, <1>18, PollAgainFx, AlonePoll DEF OneCpuInv, TxReady
  <2>6. QED
    BY <2>1, <2>2, <2>3, <2>4, <2>5 DEF OneCpuInv
<1>19. CASE PollComplete
  <2>1. OneAtATime'
    BY <1>1, <1>19, PollCompleteFx, AlonePoll DEF OneCpuInv, OneAtATime
  <2>2. MaskKept'
    BY <1>1, <1>19, PollCompleteFx, AlonePoll DEF OneCpuInv, MaskKept
  <2>3. ShutDown'
    BY <1>1, <1>19, PollCompleteFx, AlonePoll DEF OneCpuInv, ShutDown, Down
  <2>4. RxReady'
    BY <1>1, <1>19, PollCompleteFx, AlonePoll DEF OneCpuInv, RxReady
  <2>5. TxReady'
    BY <1>1, <1>19, PollCompleteFx, AlonePoll DEF OneCpuInv, TxReady
  <2>6. QED
    BY <2>1, <2>2, <2>3, <2>4, <2>5 DEF OneCpuInv
<1>20. CASE PollReadIMSC
  <2>1. tmp' = [tmp EXCEPT !["poll"] = imsc]
    BY <1>1, <1>20, PollReadIMSCFx
  <2>2. /\ tmp'["poll"] = imsc
        /\ tmp'["xmit"] = tmp["xmit"]
        /\ tmp'["task"] = tmp["task"]
        /\ tmp'["irq"] = tmp["irq"]
    BY <1>1, <2>1, TmpFacts DEF Ctx
  <2>3. OneAtATime'
    BY <1>1, <1>20, PollReadIMSCFx, AlonePoll, <2>2 DEF OneCpuInv, OneAtATime
  <2>4. MaskKept'
    BY <1>1, <1>20, PollReadIMSCFx, AlonePoll, <2>2 DEF OneCpuInv, MaskKept
  <2>5. ShutDown'
    BY <1>1, <1>20, PollReadIMSCFx, AlonePoll, <2>2 DEF OneCpuInv, ShutDown, Down
  <2>6. RxReady'
    BY <1>1, <1>20, PollReadIMSCFx, AlonePoll, <2>2 DEF OneCpuInv, RxReady
  <2>7. TxReady'
    BY <1>1, <1>20, PollReadIMSCFx, AlonePoll, <2>2 DEF OneCpuInv, TxReady
  <2>8. QED
    BY <2>3, <2>4, <2>5, <2>6, <2>7 DEF OneCpuInv
<1>21. CASE PollWriteIMSC
  <2>1. tmp' = [tmp EXCEPT !["poll"] = {}]
    BY <1>1, <1>21, PollWriteIMSCFx
  <2>2. /\ tmp'["poll"] = {}
        /\ tmp'["xmit"] = tmp["xmit"]
        /\ tmp'["task"] = tmp["task"]
        /\ tmp'["irq"] = tmp["irq"]
    BY <1>1, <2>1, TmpFacts DEF Ctx
  <2>3. OneAtATime'
    BY <1>1, <1>21, PollWriteIMSCFx, AlonePoll, <2>2 DEF OneCpuInv, OneAtATime
  <2>4. MaskKept'
    BY <1>1, <1>21, PollWriteIMSCFx, AlonePoll, <2>2 DEF OneCpuInv, MaskKept
  <2>5. ShutDown'
    BY <1>1, <1>21, PollWriteIMSCFx, AlonePoll, <2>2 DEF OneCpuInv, ShutDown, Down
  <2>6. RxReady'
    BY <1>1, <1>21, PollWriteIMSCFx, AlonePoll, <2>2 DEF OneCpuInv, RxReady
  <2>7. TxReady'
    BY <1>1, <1>21, PollWriteIMSCFx, AlonePoll, <2>2 DEF OneCpuInv, TxReady, MaskKept
  <2>8. QED
    BY <2>3, <2>4, <2>5, <2>6, <2>7 DEF OneCpuInv
<1>22. CASE IrqEnter
  <2>1. OneAtATime'
    BY <1>1, <1>22, IrqEnterFx, AloneIrq DEF OneCpuInv, OneAtATime
  <2>2. MaskKept'
    BY <1>1, <1>22, IrqEnterFx, AloneIrq DEF OneCpuInv, MaskKept
  <2>3. ShutDown'
    BY <1>1, <1>22, IrqEnterFx, AloneIrq DEF OneCpuInv, ShutDown, Down
  <2>4. RxReady'
    BY <1>1, <1>22, IrqEnterFx, AloneIrq DEF OneCpuInv, RxReady
  <2>5. TxReady'
    BY <1>1, <1>22, IrqEnterFx, AloneIrq DEF OneCpuInv, TxReady
  <2>6. QED
    BY <2>1, <2>2, <2>3, <2>4, <2>5 DEF OneCpuInv
<1>23. CASE IrqAckRx
  <2>1. OneAtATime'
    BY <1>1, <1>23, IrqAckRxFx, AloneIrq DEF OneCpuInv, OneAtATime
  <2>2. MaskKept'
    BY <1>1, <1>23, IrqAckRxFx, AloneIrq DEF OneCpuInv, MaskKept
  <2>3. ShutDown'
    BY <1>1, <1>23, IrqAckRxFx, AloneIrq DEF OneCpuInv, ShutDown, Down
  <2>4. RxReady'
    BY <1>1, <1>23, IrqAckRxFx, AloneIrq DEF OneCpuInv, RxReady
  <2>5. TxReady'
    BY <1>1, <1>23, IrqAckRxFx, AloneIrq DEF OneCpuInv, TxReady
  <2>6. QED
    BY <2>1, <2>2, <2>3, <2>4, <2>5 DEF OneCpuInv
<1>24. CASE IrqReadIMSC
  <2>1. tmp' = [tmp EXCEPT !["irq"] = imsc]
    BY <1>1, <1>24, IrqReadIMSCFx
  <2>2. /\ tmp'["irq"] = imsc
        /\ tmp'["xmit"] = tmp["xmit"]
        /\ tmp'["task"] = tmp["task"]
        /\ tmp'["poll"] = tmp["poll"]
    BY <1>1, <2>1, TmpFacts DEF Ctx
  <2>3. OneAtATime'
    BY <1>1, <1>24, IrqReadIMSCFx, AloneIrq, <2>2 DEF OneCpuInv, OneAtATime
  <2>4. MaskKept'
    BY <1>1, <1>24, IrqReadIMSCFx, AloneIrq, <2>2 DEF OneCpuInv, MaskKept
  <2>5. ShutDown'
    BY <1>1, <1>24, IrqReadIMSCFx, AloneIrq, <2>2 DEF OneCpuInv, ShutDown, Down
  <2>6. RxReady'
    BY <1>1, <1>24, IrqReadIMSCFx, AloneIrq, <2>2 DEF OneCpuInv, RxReady
  <2>7. TxReady'
    BY <1>1, <1>24, IrqReadIMSCFx, AloneIrq, <2>2 DEF OneCpuInv, TxReady
  <2>8. QED
    BY <2>3, <2>4, <2>5, <2>6, <2>7 DEF OneCpuInv
<1>25. CASE IrqWriteIMSC
  <2>1. tmp' = [tmp EXCEPT !["irq"] = {}]
    BY <1>1, <1>25, IrqWriteIMSCFx
  <2>2. /\ tmp'["irq"] = {}
        /\ tmp'["xmit"] = tmp["xmit"]
        /\ tmp'["task"] = tmp["task"]
        /\ tmp'["poll"] = tmp["poll"]
    BY <1>1, <2>1, TmpFacts DEF Ctx
  <2>3. OneAtATime'
    BY <1>1, <1>25, IrqWriteIMSCFx, AloneIrq, <2>2 DEF OneCpuInv, OneAtATime
  <2>4. MaskKept'
    BY <1>1, <1>25, IrqWriteIMSCFx, AloneIrq, <2>2 DEF OneCpuInv, MaskKept
  <2>5. ShutDown'
    BY <1>1, <1>25, IrqWriteIMSCFx, AloneIrq, <2>2 DEF OneCpuInv, ShutDown, Down
  <2>6. RxReady'
    BY <1>1, <1>25, IrqWriteIMSCFx, AloneIrq, <2>2 DEF OneCpuInv, RxReady
  <2>7. TxReady'
    BY <1>1, <1>25, IrqWriteIMSCFx, AloneIrq, <2>2 DEF OneCpuInv, TxReady, MaskKept
  <2>8. QED
    BY <2>3, <2>4, <2>5, <2>6, <2>7 DEF OneCpuInv
<1>26. CASE IrqSchedule
  <2>1. OneAtATime'
    BY <1>1, <1>26, IrqScheduleFx, AloneIrq DEF OneCpuInv, OneAtATime
  <2>2. MaskKept'
    BY <1>1, <1>26, IrqScheduleFx, AloneIrq DEF OneCpuInv, MaskKept
  <2>3. ShutDown'
    BY <1>1, <1>26, IrqScheduleFx, AloneIrq DEF OneCpuInv, ShutDown, Down
  <2>4. napi' = "sched" \/ pc["ctl"] = "disable" \/ napi = "off"
    BY <1>1, <1>26, IrqScheduleFx DEF TypeOK
  <2>5. napi = "off" => early' = TRUE
    BY <1>1, <1>26, IrqScheduleFx
  <2>6. RxReady'
    BY <1>1, <1>26, IrqScheduleFx, AloneIrq, <2>4, <2>5 DEF OneCpuInv, RxReady
  <2>7. TxReady'
    BY <1>1, <1>26, IrqScheduleFx, AloneIrq DEF OneCpuInv, TxReady
  <2>8. QED
    BY <2>1, <2>2, <2>3, <2>6, <2>7 DEF OneCpuInv
<1>27. CASE IrqAckTx
  <2>1. OneAtATime'
    BY <1>1, <1>27, IrqAckTxFx, AloneIrq DEF OneCpuInv, OneAtATime
  <2>2. MaskKept'
    BY <1>1, <1>27, IrqAckTxFx, AloneIrq DEF OneCpuInv, MaskKept
  <2>3. ShutDown'
    BY <1>1, <1>27, IrqAckTxFx, AloneIrq DEF OneCpuInv, ShutDown, Down
  <2>4. RxReady'
    BY <1>1, <1>27, IrqAckTxFx, AloneIrq DEF OneCpuInv, RxReady
  <2>5. TxReady'
    BY <1>1, <1>27, IrqAckTxFx, AloneIrq DEF OneCpuInv, TxReady
  <2>6. QED
    BY <2>1, <2>2, <2>3, <2>4, <2>5 DEF OneCpuInv
<1>28. CASE IrqCheckTx
  <2>1. OneAtATime'
    BY <1>1, <1>28, IrqCheckTxFx, AloneIrq DEF OneCpuInv, OneAtATime
  <2>2. MaskKept'
    BY <1>1, <1>28, IrqCheckTxFx, AloneIrq DEF OneCpuInv, MaskKept
  <2>3. ShutDown'
    BY <1>1, <1>28, IrqCheckTxFx, AloneIrq DEF OneCpuInv, ShutDown, Down
  <2>4. RxReady'
    BY <1>1, <1>28, IrqCheckTxFx, AloneIrq DEF OneCpuInv, RxReady
  <2>5. TxReady'
    BY <1>1, <1>28, IrqCheckTxFx, AloneIrq DEF OneCpuInv, TxReady
  <2>6. QED
    BY <2>1, <2>2, <2>3, <2>4, <2>5 DEF OneCpuInv
<1>29. CASE IrqQueueWork
  <2>1. OneAtATime'
    BY <1>1, <1>29, IrqQueueWorkFx, AloneIrq DEF OneCpuInv, OneAtATime
  <2>2. MaskKept'
    BY <1>1, <1>29, IrqQueueWorkFx, AloneIrq DEF OneCpuInv, MaskKept
  <2>3. ShutDown'
    BY <1>1, <1>29, IrqQueueWorkFx, AloneIrq DEF OneCpuInv, ShutDown, Down
  <2>4. RxReady'
    BY <1>1, <1>29, IrqQueueWorkFx, AloneIrq DEF OneCpuInv, RxReady
  <2>5. TxReady'
    BY <1>1, <1>29, IrqQueueWorkFx, AloneIrq DEF OneCpuInv, TxReady
  <2>6. QED
    BY <2>1, <2>2, <2>3, <2>4, <2>5 DEF OneCpuInv
<1>30. CASE OpenReset
  <2>1. OneAtATime'
    BY <1>1, <1>30, OpenResetFx, AloneCtl DEF OneCpuInv, OneAtATime
  <2>2. MaskKept'
    BY <1>1, <1>30, OpenResetFx, AloneCtl DEF OneCpuInv, MaskKept
  <2>3. ShutDown'
    BY <1>1, <1>30, OpenResetFx, AloneCtl DEF OneCpuInv, ShutDown, Down
  <2>4. RxReady'
    BY <1>1, <1>30, OpenResetFx, AloneCtl DEF OneCpuInv, RxReady
  <2>5. TxReady'
    BY <1>1, <1>30, OpenResetFx, AloneCtl DEF OneCpuInv, TxReady, CutOff
  <2>6. QED
    BY <2>1, <2>2, <2>3, <2>4, <2>5 DEF OneCpuInv
<1>31. CASE OpenRequestIrq
  <2>1. OneAtATime'
    BY <1>1, <1>31, OpenRequestIrqFx, AloneCtl DEF OneCpuInv, OneAtATime
  <2>2. MaskKept'
    BY <1>1, <1>31, OpenRequestIrqFx, AloneCtl DEF OneCpuInv, MaskKept
  <2>3. ShutDown'
    BY <1>1, <1>31, OpenRequestIrqFx, AloneCtl DEF OneCpuInv, ShutDown, Down
  <2>4. RxReady'
    BY <1>1, <1>31, OpenRequestIrqFx, AloneCtl DEF OneCpuInv, RxReady, TxInv, RunningInv
  <2>5. TxReady'
    BY <1>1, <1>31, OpenRequestIrqFx, AloneCtl DEF OneCpuInv, TxReady
  <2>6. QED
    BY <2>1, <2>2, <2>3, <2>4, <2>5 DEF OneCpuInv
<1>32. CASE OpenEnableUart
  <2>1. OneAtATime'
    BY <1>1, <1>32, OpenEnableUartFx, AloneCtl DEF OneCpuInv, OneAtATime
  <2>2. MaskKept'
    BY <1>1, <1>32, OpenEnableUartFx, AloneCtl DEF OneCpuInv, MaskKept
  <2>3. ShutDown'
    BY <1>1, <1>32, OpenEnableUartFx, AloneCtl DEF OneCpuInv, ShutDown, Down
  <2>4. RxReady'
    BY <1>1, <1>32, OpenEnableUartFx, AloneCtl DEF OneCpuInv, RxReady
  <2>5. TxReady'
    BY <1>1, <1>32, OpenEnableUartFx, AloneCtl DEF OneCpuInv, TxReady
  <2>6. QED
    BY <2>1, <2>2, <2>3, <2>4, <2>5 DEF OneCpuInv
<1>33. CASE OpenUnmask
  <2>1. tmp' = [tmp EXCEPT !["ctl"] = {}]
    BY <1>1, <1>33, OpenUnmaskFx
  <2>2. /\ tmp'["ctl"] = {}
        /\ tmp'["xmit"] = tmp["xmit"]
        /\ tmp'["task"] = tmp["task"]
        /\ tmp'["poll"] = tmp["poll"]
        /\ tmp'["irq"] = tmp["irq"]
    BY <1>1, <2>1, TmpFacts DEF Ctx
  <2>3. OneAtATime'
    BY <1>1, <1>33, OpenUnmaskFx, AloneCtl, <2>2 DEF OneCpuInv, OneAtATime
  <2>4. MaskKept'
    BY <1>1, <1>33, OpenUnmaskFx, AloneCtl, <2>2 DEF OneCpuInv, MaskKept
  <2>5. ShutDown'
    BY <1>1, <1>33, OpenUnmaskFx, AloneCtl, <2>2 DEF OneCpuInv, ShutDown, Down
  <2>6. RxReady'
    BY <1>1, <1>33, OpenUnmaskFx, AloneCtl, <2>2 DEF OneCpuInv, RxReady
  <2>7. TxReady'
    BY <1>1, <1>33, OpenUnmaskFx, AloneCtl, <2>2
    DEF OneCpuInv, TxReady, TxInv, RunningInv
  <2>8. QED
    BY <2>3, <2>4, <2>5, <2>6, <2>7 DEF OneCpuInv
<1>34. CASE OpenNapi
  <2>1. OneAtATime'
    BY <1>1, <1>34, OpenNapiFx, AloneCtl DEF OneCpuInv, OneAtATime
  <2>2. MaskKept'
    BY <1>1, <1>34, OpenNapiFx, AloneCtl DEF OneCpuInv, MaskKept
  <2>3. ShutDown'
    BY <1>1, <1>34, OpenNapiFx, AloneCtl DEF OneCpuInv, ShutDown, Down
  <2>4. RxReady'
    BY <1>1, <1>34, OpenNapiFx, AloneCtl DEF OneCpuInv, RxReady, ShutDown
  <2>5. TxReady'
    BY <1>1, <1>34, OpenNapiFx, AloneCtl DEF OneCpuInv, TxReady
  <2>6. QED
    BY <2>1, <2>2, <2>3, <2>4, <2>5 DEF OneCpuInv
<1>35. CASE OpenStart
  <2>1. OneAtATime'
    BY <1>1, <1>35, OpenStartFx, AloneCtl DEF OneCpuInv, OneAtATime
  <2>2. MaskKept'
    BY <1>1, <1>35, OpenStartFx, AloneCtl DEF OneCpuInv, MaskKept
  <2>3. ShutDown'
    BY <1>1, <1>35, OpenStartFx, AloneCtl DEF OneCpuInv, ShutDown, Down
  <2>4. RxReady'
    BY <1>1, <1>35, OpenStartFx, AloneCtl DEF OneCpuInv, RxReady
  <2>5. TxReady'
    BY <1>1, <1>35, OpenStartFx, AloneCtl DEF OneCpuInv, TxReady, TxInv,
       NoFrame, AfterReset
  <2>6. QED
    BY <2>1, <2>2, <2>3, <2>4, <2>5 DEF OneCpuInv
<1>36. CASE StopEnter
  <2>1. OneAtATime'
    BY <1>1, <1>36, StopEnterFx, AloneCtl DEF OneCpuInv, OneAtATime
  <2>2. MaskKept'
    BY <1>1, <1>36, StopEnterFx, AloneCtl DEF OneCpuInv, MaskKept
  <2>3. ShutDown'
    BY <1>1, <1>36, StopEnterFx, AloneCtl DEF OneCpuInv, ShutDown, Down
  <2>4. RxReady'
    BY <1>1, <1>36, StopEnterFx, AloneCtl DEF OneCpuInv, RxReady
  <2>5. TxReady'
    BY <1>1, <1>36, StopEnterFx, AloneCtl DEF OneCpuInv, TxReady
  <2>6. QED
    BY <2>1, <2>2, <2>3, <2>4, <2>5 DEF OneCpuInv
<1>37. CASE StopNapi
  <2>1. OneAtATime'
    BY <1>1, <1>37, StopNapiFx, AloneCtl DEF OneCpuInv, OneAtATime
  <2>2. MaskKept'
    BY <1>1, <1>37, StopNapiFx, AloneCtl DEF OneCpuInv, MaskKept
  <2>3. ShutDown'
    BY <1>1, <1>37, StopNapiFx, AloneCtl DEF OneCpuInv, ShutDown, Down
  <2>4. RxReady'
    BY <1>1, <1>37, StopNapiFx, AloneCtl DEF OneCpuInv, RxReady
  <2>5. TxReady'
    BY <1>1, <1>37, StopNapiFx, AloneCtl DEF OneCpuInv, TxReady
  <2>6. QED
    BY <2>1, <2>2, <2>3, <2>4, <2>5 DEF OneCpuInv
<1>38. CASE StopMask
  <2>1. OneAtATime'
    BY <1>1, <1>38, StopMaskFx, AloneCtl DEF OneCpuInv, OneAtATime
  <2>2. MaskKept'
    BY <1>1, <1>38, StopMaskFx, AloneCtl DEF OneCpuInv, MaskKept
  <2>3. ShutDown'
    BY <1>1, <1>38, StopMaskFx, AloneCtl DEF OneCpuInv, ShutDown, Down
  <2>4. RxReady'
    BY <1>1, <1>38, StopMaskFx, AloneCtl DEF OneCpuInv, RxReady
  <2>5. TxReady'
    BY <1>1, <1>38, StopMaskFx, AloneCtl DEF OneCpuInv, TxReady, TxInv, RunningInv
  <2>6. QED
    BY <2>1, <2>2, <2>3, <2>4, <2>5 DEF OneCpuInv
<1>39. CASE StopUart
  <2>1. OneAtATime'
    BY <1>1, <1>39, StopUartFx, AloneCtl DEF OneCpuInv, OneAtATime
  <2>2. MaskKept'
    BY <1>1, <1>39, StopUartFx, AloneCtl DEF OneCpuInv, MaskKept
  <2>3. ShutDown'
    BY <1>1, <1>39, StopUartFx, AloneCtl DEF OneCpuInv, ShutDown, Down
  <2>4. RxReady'
    BY <1>1, <1>39, StopUartFx, AloneCtl DEF OneCpuInv, RxReady
  <2>5. TxReady'
    BY <1>1, <1>39, StopUartFx, AloneCtl DEF OneCpuInv, TxReady
  <2>6. QED
    BY <2>1, <2>2, <2>3, <2>4, <2>5 DEF OneCpuInv
<1>40. CASE StopCleanup
  <2>1. OneAtATime'
    BY <1>1, <1>40, StopCleanupFx, AloneCtl DEF OneCpuInv, OneAtATime
  <2>2. MaskKept'
    BY <1>1, <1>40, StopCleanupFx, AloneCtl DEF OneCpuInv, MaskKept
  <2>3. ShutDown'
    BY <1>1, <1>40, StopCleanupFx, AloneCtl DEF OneCpuInv, ShutDown, Down
  <2>4. RxReady'
    BY <1>1, <1>40, StopCleanupFx, AloneCtl DEF OneCpuInv, RxReady
  <2>5. TxReady'
    BY <1>1, <1>40, StopCleanupFx, AloneCtl DEF OneCpuInv, TxReady, CutOff
  <2>6. QED
    BY <2>1, <2>2, <2>3, <2>4, <2>5 DEF OneCpuInv
<1>41. CASE StopCancel
  <2>1. OneAtATime'
    BY <1>1, <1>41, StopCancelFx, AloneCtl DEF OneCpuInv, OneAtATime
  <2>2. MaskKept'
    BY <1>1, <1>41, StopCancelFx, AloneCtl DEF OneCpuInv, MaskKept
  <2>3. ShutDown'
    BY <1>1, <1>41, StopCancelFx, AloneCtl DEF OneCpuInv, ShutDown, Down
  <2>4. RxReady'
    BY <1>1, <1>41, StopCancelFx, AloneCtl DEF OneCpuInv, RxReady, TxInv, RunningInv
  <2>5. TxReady'
    BY <1>1, <1>41, StopCancelFx, AloneCtl DEF OneCpuInv, TxReady, TxInv, RunningInv
  <2>6. QED
    BY <2>1, <2>2, <2>3, <2>4, <2>5 DEF OneCpuInv
<1>42. CASE Hardware
  <2>1. UNCHANGED <<pc, tmp, imsc, tx_left, tx_current, running, napi, work_pending, early>>
    BY <1>42 DEF Hardware, UartDrain, UartArrive, UartRaiseRx, tx, kern
  <2>2. \/ UNCHANGED tx_fifo /\ (UNCHANGED ris \/ ris' = ris \cup {"RX"})
        \/ /\ tx_fifo > 0 /\ tx_fifo' = tx_fifo - 1
           /\ ris' = IF tx_fifo' = FifoDepth \div 2 THEN ris \cup {"TX"} ELSE ris
    BY <1>42 DEF Hardware, UartDrain, UartArrive, UartRaiseRx
  <2>3. OneAtATime' /\ MaskKept' /\ ShutDown' /\ RxReady'
    BY <2>1 DEF OneCpuInv, OneAtATime, MaskKept, ShutDown, Down, RxReady
  <2>4. TxReady'
    BY <1>1, <2>1, <2>2 DEF OneCpuInv, TxReady
  <2>5. QED
    BY <2>3, <2>4 DEF OneCpuInv
<1>43. CASE UNCHANGED vars
  BY <1>43 DEF vars, hw, tx, kern, loc, OneCpuInv, OneAtATime, MaskKept, ShutDown,
              Down, RxReady, TxReady
<1>44. QED
  BY <1>2, <1>3, <1>4, <1>5, <1>6, <1>7, <1>8, <1>9, <1>10, <1>11, <1>12, <1>13,
     <1>14, <1>15, <1>16, <1>17, <1>18, <1>19, <1>20, <1>21, <1>22, <1>23, <1>24, <1>25,
     <1>26, <1>27, <1>28, <1>29, <1>30, <1>31, <1>32, <1>33, <1>34, <1>35, <1>36, <1>37,
     <1>38, <1>39, <1>40, <1>41, <1>42, <1>43
  DEF Next, uartnet_start_xmit, uartnet_tx_task, uartnet_poll, uartnet_interrupt,
      uartnet_open, uartnet_stop

(* One CPU: the inductive invariant holds in every reachable state. *)
THEOREM OneCpuInvariance ==
  ASSUME ~SMP
  PROVE  Spec => [](TypeInv /\ TxInv /\ OneCpuInv)
<1>1. ASSUME Init PROVE OneCpuInv
  <2>1. /\ pc["xmit"] = "idle" /\ pc["task"] = "idle" /\ pc["poll"] = "idle"
        /\ pc["irq"] = "idle" /\ pc["ctl"] = "idle"
    BY <1>1 DEF Init, Ctx
  <2>2. /\ imsc = {} /\ tx_left = 0 /\ running = FALSE /\ napi = "off"
        /\ work_pending = FALSE
    BY <1>1 DEF Init
  <2>3. QED
    BY <2>1, <2>2 DEF OneCpuInv, OneAtATime, MaskKept, ShutDown, Down, RxReady, TxReady
<1>2. TypeInv /\ TxInv /\ OneCpuInv /\ [Next]_vars => (TypeInv /\ TxInv /\ OneCpuInv)'
  BY OneCpuStep, TypeStep, TxNextInv
<1>3. QED
  BY <1>1, <1>2, TypeInit, TxInitInv, PTL DEF Spec

(* One CPU: after uartnet_stop nothing of the driver moves. *)
THEOREM NetQuiescentWhenDown ==
  ASSUME ~SMP
  PROVE  Spec => []QuiescentWhenDown
<1>1. TxInv /\ OneCpuInv => QuiescentWhenDown
  BY DEF TxInv, RunningInv, NoFrame, AfterReset, OneCpuInv, ShutDown, Down,
         QuiescentWhenDown, Active, Ctx
<1>2. QED
  BY <1>1, OneCpuInvariance, PTL

(* One CPU: while the interface is up the receive interrupt is unmasked,   *)
(* or a poll that will unmask it is due, unless it was lost in the window  *)
(* of uartnet_open.                                                        *)
THEOREM NetRxRearmedUnlessEarly ==
  ASSUME ~SMP
  PROVE  Spec => []RxRearmedUnlessEarly
<1>1. OneCpuInv => RxRearmedUnlessEarly
  BY DEF OneCpuInv, RxReady, RxRearmedUnlessEarly, RxRearmed, Active
<1>2. QED
  BY <1>1, OneCpuInvariance, PTL

(* One CPU: a frame in progress is never forgotten. *)
THEOREM NetTxArmed ==
  ASSUME ~SMP
  PROVE  Spec => []TxArmed
<1>1. OneCpuInv => TxArmed
  BY DEF OneCpuInv, TxReady, TxArmed, Active
<1>2. QED
  BY <1>1, OneCpuInvariance, PTL
-----------------------------------------------------------------------------
(* Nothing about the transmitter can reach uartnet_tx_task: its interrupt  *)
(* is masked, nobody is about to write back a mask in which it is not, and *)
(* the handler is not handling it.                                         *)
TxSilent ==
  /\ "TX" \notin imsc
  /\ "TX" \notin tmp["poll"] /\ "TX" \notin tmp["irq"]
  /\ pc["irq"] \notin {"txack", "txcheck", "txqueue"}
  /\ pc["irq"] # "idle" => "TX" \notin status

(* Any number of CPUs.  The pointer and the count of a frame are its own   *)
(* except between line 208 and line 213 of uartnet_start_xmit.  After a    *)
(* stop that no handler and no poll outlived, the transmitter stays silent *)
(* until a frame replaces the one that was cut off, and once the stop has  *)
(* returned no uartnet_tx_task runs before that.                           *)
CutOffInv ==
  /\ tx_left # 0 => tx_current = "this" \/ pc["xmit"] = "prepare"
  /\ pc["poll"] # "write" => tmp["poll"] = {}
  /\ pc["irq"] # "write" => tmp["irq"] = {}
  /\ ~late /\ (pc["ctl"] \in {"off", "cleanup", "cancel"} \/ tx_current = "old") => TxSilent
  /\ ~late /\ tx_current = "old" =>
       /\ work_pending \/ pc["task"] # "idle" => pc["ctl"] \in {"off", "cleanup", "cancel"}
       /\ pc["xmit"] \in {"idle", "check", "prepare"}
  /\ ~SMP /\ pc["task"] # "idle" => pc["xmit"] = "idle"

(* Any number of CPUs: every step keeps CutOffInv.                         *)
LEMMA CutOffStep ==
  ASSUME TypeInv, TxInv, CutOffInv, [Next]_vars
  PROVE  CutOffInv'
<1>1. /\ PcFun /\ TypeOK
      /\ tmp \in [Ctx -> SUBSET Bits] /\ imsc \in SUBSET Bits
      /\ tx_left \in Nat
      /\ FrameBytes \in Nat /\ FrameBytes # 0
  BY NetAssumption DEF TypeInv, TypeOK, TxInv
<1>2. CASE XmitEnter
  BY <1>1, <1>2, XmitEnterFx, AloneXmit DEF CutOffInv, TxSilent, TxInv, RunningInv
<1>3. CASE XmitCheck
  BY <1>1, <1>3, XmitCheckFx DEF CutOffInv, TxSilent
<1>4. CASE XmitPrepare
  BY <1>1, <1>4, XmitPrepareFx DEF CutOffInv, TxSilent
<1>5. CASE XmitReadIMSC
  <2>1. tmp' = [tmp EXCEPT !["xmit"] = imsc]
    BY <1>1, <1>5, XmitReadIMSCFx
  <2>2. /\ tmp'["poll"] = tmp["poll"]
        /\ tmp'["irq"] = tmp["irq"]
    BY <1>1, <2>1, TmpFacts DEF Ctx
  <2>3. QED
    BY <1>1, <1>5, <2>2, XmitReadIMSCFx DEF CutOffInv, TxSilent, TxInv, RunningInv
<1>6. CASE XmitWriteIMSC
  <2>1. tmp' = [tmp EXCEPT !["xmit"] = {}]
    BY <1>1, <1>6, XmitWriteIMSCFx
  <2>2. /\ tmp'["poll"] = tmp["poll"]
        /\ tmp'["irq"] = tmp["irq"]
    BY <1>1, <2>1, TmpFacts DEF Ctx
  <2>3. QED
    BY <1>1, <1>6, <2>2, XmitWriteIMSCFx DEF CutOffInv, TxSilent, TxInv, RunningInv
<1>7. CASE XmitQueueWork
  BY <1>1, <1>7, XmitQueueWorkFx DEF CutOffInv, TxSilent
<1>8. CASE TaskStart
  BY <1>1, <1>8, TaskStartFx, AloneTask DEF CutOffInv, TxSilent
<1>9. CASE TaskLeave
  BY <1>1, <1>9, TaskLeaveFx DEF CutOffInv, TxSilent
<1>10. CASE TaskByte
  BY <1>1, <1>10, TaskByteFx DEF CutOffInv, TxSilent
<1>11. CASE TaskFooter
  BY <1>1, <1>11, TaskFooterFx DEF CutOffInv, TxSilent
<1>12. CASE TaskWake
  BY <1>1, <1>12, TaskWakeFx DEF CutOffInv, TxSilent
<1>13. CASE TaskUnlock
  BY <1>1, <1>13, TaskUnlockFx DEF CutOffInv, TxSilent
<1>14. CASE TaskReadIMSC
  <2>1. tmp' = [tmp EXCEPT !["task"] = imsc]
    BY <1>1, <1>14, TaskReadIMSCFx
  <2>2. /\ tmp'["poll"] = tmp["poll"]
        /\ tmp'["irq"] = tmp["irq"]
    BY <1>1, <2>1, TmpFacts DEF Ctx
  <2>3. QED
    BY <1>1, <1>14, <2>2, TaskReadIMSCFx DEF CutOffInv, TxSilent, TxInv, RunningInv
<1>15. CASE TaskWriteIMSC
  <2>1. tmp' = [tmp EXCEPT !["task"] = {}]
    BY <1>1, <1>15, TaskWriteIMSCFx
  <2>2. /\ tmp'["poll"] = tmp["poll"]
        /\ tmp'["irq"] = tmp["irq"]
    BY <1>1, <2>1, TmpFacts DEF Ctx
  <2>3. QED
    BY <1>1, <1>15, <2>2, TaskWriteIMSCFx DEF CutOffInv, TxSilent, TxInv, RunningInv
<1>16. CASE PollStart
  BY <1>1, <1>16, PollStartFx DEF CutOffInv, TxSilent
<1>17. CASE PollByte
  BY <1>1, <1>17, PollByteFx DEF CutOffInv, TxSilent
<1>18. CASE PollAgain
  BY <1>1, <1>18, PollAgainFx DEF CutOffInv, TxSilent
<1>19. CASE PollComplete
  BY <1>1, <1>19, PollCompleteFx DEF CutOffInv, TxSilent
<1>20. CASE PollReadIMSC
  <2>1. tmp' = [tmp EXCEPT !["poll"] = imsc]
    BY <1>1, <1>20, PollReadIMSCFx
  <2>2. /\ tmp'["poll"] = imsc
        /\ tmp'["irq"] = tmp["irq"]
    BY <1>1, <2>1, TmpFacts DEF Ctx
  <2>3. QED
    BY <1>1, <1>20, <2>2, PollReadIMSCFx DEF CutOffInv, TxSilent, TxInv, RunningInv
<1>21. CASE PollWriteIMSC
  <2>1. tmp' = [tmp EXCEPT !["poll"] = {}]
    BY <1>1, <1>21, PollWriteIMSCFx
  <2>2. /\ tmp'["poll"] = {}
        /\ tmp'["irq"] = tmp["irq"]
    BY <1>1, <2>1, TmpFacts DEF Ctx
  <2>3. QED
    BY <1>1, <1>21, <2>2, PollWriteIMSCFx DEF CutOffInv, TxSilent, TxInv, RunningInv
<1>22. CASE IrqEnter
  <2>1. "TX" \notin imsc => "RX" \in imsc \cap ris
    BY <1>1, <1>22, IrqEnterFx DEF Bits
  <2>2. QED
    BY <1>1, <1>22, <2>1, IrqEnterFx DEF CutOffInv, TxSilent
<1>23. CASE IrqAckRx
  BY <1>1, <1>23, IrqAckRxFx DEF CutOffInv, TxSilent
<1>24. CASE IrqReadIMSC
  <2>1. tmp' = [tmp EXCEPT !["irq"] = imsc]
    BY <1>1, <1>24, IrqReadIMSCFx
  <2>2. /\ tmp'["poll"] = tmp["poll"]
        /\ tmp'["irq"] = imsc
    BY <1>1, <2>1, TmpFacts DEF Ctx
  <2>3. QED
    BY <1>1, <1>24, <2>2, IrqReadIMSCFx DEF CutOffInv, TxSilent, TxInv, RunningInv
<1>25. CASE IrqWriteIMSC
  <2>1. tmp' = [tmp EXCEPT !["irq"] = {}]
    BY <1>1, <1>25, IrqWriteIMSCFx
  <2>2. /\ tmp'["poll"] = tmp["poll"]
        /\ tmp'["irq"] = {}
    BY <1>1, <2>1, TmpFacts DEF Ctx
  <2>3. QED
    BY <1>1, <1>25, <2>2, IrqWriteIMSCFx DEF CutOffInv, TxSilent, TxInv, RunningInv
<1>26. CASE IrqSchedule
  BY <1>1, <1>26, IrqScheduleFx DEF CutOffInv, TxSilent
<1>27. CASE IrqAckTx
  BY <1>1, <1>27, IrqAckTxFx DEF CutOffInv, TxSilent
<1>28. CASE IrqCheckTx
  BY <1>1, <1>28, IrqCheckTxFx DEF CutOffInv, TxSilent
<1>29. CASE IrqQueueWork
  BY <1>1, <1>29, IrqQueueWorkFx DEF CutOffInv, TxSilent
<1>30. CASE OpenReset
  BY <1>1, <1>30, OpenResetFx DEF CutOffInv, TxSilent, CutOff, TxInv, RunningInv, NoFrame, AfterReset
<1>31. CASE OpenRequestIrq
  BY <1>1, <1>31, OpenRequestIrqFx DEF CutOffInv, TxSilent
<1>32. CASE OpenEnableUart
  BY <1>1, <1>32, OpenEnableUartFx DEF CutOffInv, TxSilent
<1>33. CASE OpenUnmask
  <2>1. tmp' = [tmp EXCEPT !["ctl"] = {}]
    BY <1>1, <1>33, OpenUnmaskFx
  <2>2. /\ tmp'["poll"] = tmp["poll"]
        /\ tmp'["irq"] = tmp["irq"]
    BY <1>1, <2>1, TmpFacts DEF Ctx
  <2>3. QED
    BY <1>1, <1>33, <2>2, OpenUnmaskFx DEF CutOffInv, TxSilent, TxInv, RunningInv
<1>34. CASE OpenNapi
  BY <1>1, <1>34, OpenNapiFx DEF CutOffInv, TxSilent
<1>35. CASE OpenStart
  BY <1>1, <1>35, OpenStartFx DEF CutOffInv, TxSilent, TxInv, RunningInv
<1>36. CASE StopEnter
  BY <1>1, <1>36, StopEnterFx DEF CutOffInv, TxSilent, TxInv, RunningInv
<1>37. CASE StopNapi
  BY <1>1, <1>37, StopNapiFx DEF CutOffInv, TxSilent, TxInv, RunningInv
<1>38. CASE StopMask
  BY <1>1, <1>38, StopMaskFx DEF CutOffInv, TxSilent, TxInv, RunningInv
<1>39. CASE StopUart
  BY <1>1, <1>39, StopUartFx DEF CutOffInv, TxSilent, TxInv, RunningInv
<1>40. CASE StopCleanup
  BY <1>1, <1>40, StopCleanupFx DEF CutOffInv, TxSilent, CutOff, TxInv, RunningInv
<1>41. CASE StopCancel
  BY <1>1, <1>41, StopCancelFx DEF CutOffInv, TxSilent, TxInv, RunningInv
<1>42. CASE Hardware
  <2>1. /\ UNCHANGED <<pc, tmp, imsc, status, tx_left, tx_current, work_pending, late>>
    BY <1>42 DEF Hardware, UartDrain, UartArrive, UartRaiseRx, tx, kern, loc
  <2>2. QED
    BY <2>1 DEF CutOffInv, TxSilent
<1>43. CASE UNCHANGED vars
  BY <1>43 DEF vars, hw, tx, kern, loc, CutOffInv, TxSilent
<1>44. QED
  BY <1>2, <1>3, <1>4, <1>5, <1>6, <1>7, <1>8, <1>9, <1>10, <1>11, <1>12,
     <1>13, <1>14, <1>15, <1>16, <1>17, <1>18, <1>19, <1>20, <1>21, <1>22,
     <1>23, <1>24, <1>25, <1>26, <1>27, <1>28, <1>29, <1>30, <1>31, <1>32,
     <1>33, <1>34, <1>35, <1>36, <1>37, <1>38, <1>39, <1>40, <1>41, <1>42,
     <1>43
  DEF Next, uartnet_start_xmit, uartnet_tx_task, uartnet_poll, uartnet_interrupt,
      uartnet_open, uartnet_stop

(* Any number of CPUs: CutOffInv holds in every reachable state. *)
THEOREM CutOffInvariance == Spec => []CutOffInv
<1>1. ASSUME Init PROVE CutOffInv
  <2>1. /\ pc["xmit"] = "idle" /\ pc["task"] = "idle" /\ pc["poll"] = "idle"
        /\ pc["irq"] = "idle" /\ pc["ctl"] = "idle"
        /\ tmp["poll"] = {} /\ tmp["irq"] = {}
    BY <1>1 DEF Init, Ctx
  <2>2. tx_left = 0 /\ tx_current = "none"
    BY <1>1 DEF Init
  <2>3. QED
    BY <2>1, <2>2 DEF CutOffInv
<1>2. TypeInv /\ TxInv /\ CutOffInv /\ [Next]_vars => (TypeInv /\ TxInv /\ CutOffInv)'
  BY CutOffStep, TypeStep, TxNextInv
<1>3. QED
  BY <1>1, <1>2, TypeInit, TxInitInv, PTL DEF Spec

(* Any number of CPUs: uartnet_tx_task never goes past the header of a     *)
(* frame with the pointer and the count of an earlier one, although        *)
(* uartnet_start_xmit publishes the frame before it sets them, unless a    *)
(* handler or a poll outlived the masking in the last uartnet_stop.        *)
THEOREM NetTxPreparedBeforeUse == Spec => []TxPreparedBeforeUse
<1>1. TypeInv /\ TxInv /\ CutOffInv => TxPreparedBeforeUse
  <2> SUFFICES ASSUME TypeInv, TxInv, CutOffInv, pc["task"] = "loop",
                      tx_left # 0, tx_current # "this", ~late
               PROVE  SMP /\ tx_current = "none" /\ pc["xmit"] = "prepare"
    BY NetAssumption DEF TxPreparedBeforeUse
  <2>1. pc["xmit"] = "prepare" /\ SMP
    BY NetAssumption DEF CutOffInv
  <2>2. pc["ctl"] = "idle"
    BY <2>1 DEF TxInv, RunningInv
  <2>3. tx_current # "old"
    BY <2>2 DEF CutOffInv
  <2>4. QED
    BY <2>1, <2>3 DEF TypeInv, TypeOK
<1>2. QED
  BY <1>1, CutOffInvariance, TxInvariance, TypeInit, TypeStep, PTL DEF Spec
=============================================================================
