-------------------------- MODULE UartProbeProofs --------------------------
(***************************************************************************)
(* UartProbe keeps the driver core's view and the device in agreement, for *)
(* any number of probes.                                                   *)
(*                                                                         *)
(* Neither property is inductive: what remove may tear down, and what a    *)
(* failed step of probe must undo, depends on how far each of them got.    *)
(* Stage says for each value of pstep exactly what exists.                 *)
(***************************************************************************)
EXTENDS UartProbe, TLAPS

TypeInv ==
  /\ bound \in BOOLEAN /\ drvdata \in BOOLEAN /\ napi \in BOOLEAN /\ wq \in BOOLEAN
  /\ up \in BOOLEAN /\ imsc \in BOOLEAN /\ noirq \in BOOLEAN /\ uart_oops \in BOOLEAN
  /\ pstep \in {"idle", "resource", "irq", "workqueue", "register", "drvdata",
                "del_napi", "destroy_workqueue", "free_netdev"}

(* The net device is unregistered, so that nobody can open it. *)
Closed == ~up /\ ~imsc

Nothing == netdev = "none" /\ ~napi /\ ~wq /\ handlers = 0 /\ Closed

(* Between calls: bound with everything, bound by mistake, or nothing. *)
IdleStage ==
  pstep = "idle" =>
    /\ ~bound => Nothing /\ ~drvdata
    /\ bound /\ drvdata => netdev = "registered" /\ napi /\ wq
    /\ bound /\ ~drvdata => noirq /\ Nothing

(* uartnet_probe has allocated the net device; nobody else knows of it. *)
AllocStage ==
  pstep \in {"resource", "irq", "workqueue", "register"} =>
    /\ netdev = "alloc" /\ handlers = 0 /\ Closed /\ ~bound /\ ~drvdata
    /\ napi <=> pstep \in {"workqueue", "register"}
    /\ wq <=> pstep = "register"

(* The net device is registered and may be opened. *)
RegisteredStage ==
  pstep = "drvdata" =>
    netdev = "registered" /\ napi /\ wq /\ ~bound /\ ~drvdata

(* uartnet_remove has unregistered it and takes the rest away in turn. *)
RemoveStage ==
  pstep \in {"del_napi", "destroy_workqueue", "free_netdev"} =>
    /\ netdev = "alloc" /\ Closed /\ bound /\ drvdata
    /\ napi <=> pstep = "del_napi"
    /\ wq <=> pstep # "free_netdev"

ProbeInv ==
  /\ TypeInv
  /\ IdleStage /\ AllocStage /\ RegisteredStage /\ RemoveStage
  /\ uart_oops => noirq

(* Before the first probe. *)
LEMMA ProbeInvInit == UartProbeInit => ProbeInv
  BY DEF UartProbeInit, ProbeInv, TypeInv, IdleStage, AllocStage, RegisteredStage,
         RemoveStage, Nothing, Closed

(* uartnet_probe: one step per call that may fail. *)
LEMMA ProbeInvProbe == ProbeInv /\ uartnet_probe => ProbeInv'
<1> USE DEF ProbeInv, TypeInv, IdleStage, AllocStage, RegisteredStage,
         RemoveStage, Nothing, Closed, free_netdev, uartDev
<1> SUFFICES ASSUME ProbeInv, uartnet_probe PROVE ProbeInv'
  OBVIOUS
<1>1. CASE ProbeNetdev
  BY <1>1 DEF ProbeNetdev
<1>2. CASE ProbeResource
  <2>1. CASE pstep' = "irq"
    BY <1>2, <2>1 DEF ProbeResource
  <2>2. CASE pstep' = "idle"
    BY <1>2, <2>2 DEF ProbeResource
  <2> QED
    BY <1>2, <2>1, <2>2 DEF ProbeResource
<1>3. CASE ProbeIrq
  <2>1. CASE pstep' = "workqueue"
    BY <1>3, <2>1 DEF ProbeIrq
  <2>2. CASE pstep' = "idle"
    BY <1>3, <2>2 DEF ProbeIrq
  <2> QED
    BY <1>3, <2>1, <2>2 DEF ProbeIrq
<1>4. CASE ProbeWorkqueue
  <2>1. CASE pstep' = "register"
    BY <1>4, <2>1 DEF ProbeWorkqueue
  <2>2. CASE pstep' = "idle"
    <3>1. Nothing' /\ ~bound' /\ ~drvdata'
      BY <1>4, <2>2 DEF ProbeWorkqueue
    <3> QED
      BY <1>4, <2>2, <3>1 DEF ProbeWorkqueue
  <2> QED
    BY <1>4, <2>1, <2>2 DEF ProbeWorkqueue
<1>5. CASE ProbeRegister
  BY <1>5 DEF ProbeRegister
<1>6. CASE ProbeDrvdata
  BY <1>6 DEF ProbeDrvdata
<1> QED
  BY <1>1, <1>2, <1>3, <1>4, <1>5, <1>6 DEF uartnet_probe

(* uartnet_remove *)
LEMMA ProbeInvRemove == ProbeInv /\ uartnet_remove => ProbeInv'
<1> USE DEF ProbeInv, TypeInv, IdleStage, AllocStage, RegisteredStage,
         RemoveStage, Nothing, Closed, free_netdev, uartDev
<1> SUFFICES ASSUME ProbeInv, uartnet_remove PROVE ProbeInv'
  OBVIOUS
<1>1. CASE RemoveUnregister
  BY <1>1 DEF RemoveUnregister
<1>2. CASE RemoveNapi
  BY <1>2 DEF RemoveNapi
<1>3. CASE RemoveWorkqueue
  BY <1>3 DEF RemoveWorkqueue
<1>4. CASE RemoveFree
  BY <1>4 DEF RemoveFree
<1> QED
  BY <1>1, <1>2, <1>3, <1>4 DEF uartnet_remove

(* Users open and stop the interface. *)
LEMMA ProbeInvUsers == ProbeInv /\ (NdoOpen \/ NdoStop) => ProbeInv'
<1> USE DEF ProbeInv, TypeInv, IdleStage, AllocStage, RegisteredStage,
         RemoveStage, Nothing, Closed
<1>1. ASSUME ProbeInv, NdoOpen PROVE ProbeInv'
  BY <1>1 DEF NdoOpen
<1>2. ASSUME ProbeInv, NdoStop PROVE ProbeInv'
  BY <1>2 DEF NdoStop
<1> QED
  BY <1>1, <1>2

(* Stuttering. *)
LEMMA ProbeInvStutter == ProbeInv /\ UNCHANGED uartProbeVars => ProbeInv'
  BY DEF ProbeInv, TypeInv, IdleStage, AllocStage, RegisteredStage,
         RemoveStage, Nothing, Closed, uartProbeVars, uartDev

(* ProbeInv is an invariant of the device. *)
LEMMA ProbeInvHolds == UartProbeSpec => []ProbeInv
<1>1. ProbeInv /\ [UartProbeStep]_uartProbeVars => ProbeInv'
  BY ProbeInvProbe, ProbeInvRemove, ProbeInvUsers, ProbeInvStutter DEF UartProbeStep
<1> QED
  BY <1>1, ProbeInvInit, PTL DEF UartProbeSpec

(* BoundOrNothing of uartnet_probe, its error paths and uartnet_remove,    *)
(* for any number of probes and opens.                                     *)
THEOREM ProbeBoundOrNothing == UartProbeSpec => []BoundOrNothing
<1>1. ProbeInv => BoundOrNothing
  BY DEF ProbeInv, TypeInv, IdleStage, Nothing, Closed, BoundOrNothing
<1> QED
  BY <1>1, ProbeInvHolds, PTL

(* HandlerFindsItsQueue: the handlers that uartnet_open registers and that *)
(* stay until free_netdev never run without NAPI and the work queue.       *)
THEOREM ProbeHandlerFindsItsQueue == UartProbeSpec => []HandlerFindsItsQueue
<1>1. ProbeInv => HandlerFindsItsQueue
  BY DEF ProbeInv, TypeInv, IdleStage, AllocStage, RegisteredStage,
         RemoveStage, Nothing, Closed, HandlerFindsItsQueue
<1> QED
  BY <1>1, ProbeInvHolds, PTL
=============================================================================
