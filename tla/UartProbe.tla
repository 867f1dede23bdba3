----------------------------- MODULE UartProbe -----------------------------
(***************************************************************************)
(* The life of the uart_net device: uartnet_probe with its error paths,    *)
(* opening and stopping by users as soon as the net device is registered,  *)
(* and uartnet_remove.  What happens inside open, stop and the interrupt   *)
(* handler is the subject of UartNet; here open and stop are one step each *)
(* and the handler may run whenever imsc says so.                          *)
(***************************************************************************)
EXTENDS Integers

CONSTANT MaxProbes   \* bound: times the driver is bound

ASSUME ProbeAssumption == MaxProbes \in Nat

VARIABLES
  pstep,      \* where probe or remove is; "idle" between them
  bound,      \* the driver core has the device bound to the driver
  drvdata,    \* platform_set_drvdata was called
  netdev,     \* "none", "alloc" or "registered"
  napi, wq,   \* netif_napi_add, create_workqueue
  up,         \* uartnet_open returned 0 and uartnet_stop was not called
  handlers,   \* interrupt handlers, owned by the net device (devm)
  imsc,       \* an interrupt is unmasked
  probes,     \* history: calls of uartnet_probe
  noirq,      \* history: platform_get_irq failed
  uart_oops

uartDev == <<netdev, napi, wq, up, handlers, imsc>>
uartProbeVars == <<pstep, bound, drvdata, uartDev, probes, noirq, uart_oops>>

UartProbeInit ==
  /\ pstep = "idle" /\ bound = FALSE /\ drvdata = FALSE
  /\ netdev = "none" /\ napi = FALSE /\ wq = FALSE
  /\ up = FALSE /\ handlers = 0 /\ imsc = FALSE
  /\ probes = 0 /\ noirq = FALSE /\ uart_oops = FALSE

(* free_netdev: it also deletes the NAPI contexts that are left, and its   *)
(* last reference releases the managed handlers.                           *)
free_netdev == netdev' = "none" /\ napi' = FALSE /\ handlers' = 0

(* alloc_netdev, then the fields and locks of priv. *)
ProbeNetdev ==
  /\ pstep = "idle" /\ ~bound /\ probes < MaxProbes
  /\ probes' = probes + 1
  /\ \/ netdev' = "alloc" /\ pstep' = "resource"
     \/ UNCHANGED <<netdev, pstep>>
  /\ UNCHANGED <<bound, drvdata, napi, wq, up, handlers, imsc, noirq, uart_oops>>

(* platform_get_resource and devm_ioremap_resource *)
ProbeResource ==
  /\ pstep = "resource"
  /\ \/ pstep' = "irq" /\ UNCHANGED <<netdev, napi, handlers>>
     \/ free_netdev /\ pstep' = "idle"
  /\ UNCHANGED <<bound, drvdata, wq, up, imsc, probes, noirq, uart_oops>>

(* platform_get_irq.  Its error path returns priv->irq, which nothing has  *)
(* set and which lies outside what alloc_netdev(0, ...) asked for: if it   *)
(* reads as 0, the driver core takes the device for bound.                 *)
ProbeIrq ==
  /\ pstep = "irq"
  /\ \/ /\ pstep' = "workqueue" /\ napi' = TRUE
        /\ UNCHANGED <<bound, netdev, handlers, noirq>>
     \/ /\ free_netdev /\ pstep' = "idle"
        /\ bound' \in BOOLEAN /\ noirq' = TRUE
  /\ UNCHANGED <<drvdata, wq, up, imsc, probes, uart_oops>>

ProbeWorkqueue ==
  /\ pstep = "workqueue"
  /\ \/ pstep' = "register" /\ wq' = TRUE /\ UNCHANGED <<netdev, napi, handlers>>
     \/ free_netdev /\ pstep' = "idle" /\ UNCHANGED wq
  /\ UNCHANGED <<bound, drvdata, up, imsc, probes, noirq, uart_oops>>

(* Mutant: the work queue is left behind. *)
ProbeRegisterKeepsQueue ==
  /\ pstep = "register"
  /\ \/ pstep' = "drvdata" /\ netdev' = "registered" /\ UNCHANGED <<napi, handlers>>
     \/ free_netdev /\ pstep' = "idle"
  /\ UNCHANGED <<bound, drvdata, wq, up, imsc, probes, noirq, uart_oops>>

(* register_netdev; on failure the label cleanup_napi. *)
ProbeRegister ==
  /\ pstep = "register"
  /\ \/ pstep' = "drvdata" /\ netdev' = "registered" /\ UNCHANGED <<napi, wq, handlers>>
     \/ free_netdev /\ wq' = FALSE /\ pstep' = "idle"
  /\ UNCHANGED <<bound, drvdata, up, imsc, probes, noirq, uart_oops>>

(* Mutant: the net device is not remembered for uartnet_remove. *)
ProbeDrvdataForgotten ==
  /\ pstep = "drvdata"
  /\ pstep' = "idle" /\ bound' = TRUE
  /\ UNCHANGED <<drvdata, uartDev, probes, noirq, uart_oops>>

ProbeDrvdata ==
  /\ pstep = "drvdata"
  /\ pstep' = "idle" /\ bound' = TRUE /\ drvdata' = TRUE
  /\ UNCHANGED <<uartDev, probes, noirq, uart_oops>>

-----------------------------------------------------------------------------
(* A user takes the interface up, from register_netdev on; the handler may *)
(* be refused.  A handler is added each time and none is taken away.       *)
NdoOpen ==
  /\ netdev = "registered" /\ ~up /\ handlers < MaxProbes
  /\ \/ up' = TRUE /\ handlers' = handlers + 1 /\ imsc' = TRUE
     \/ UNCHANGED <<up, handlers, imsc>>
  /\ UNCHANGED <<pstep, bound, drvdata, netdev, napi, wq, probes, noirq, uart_oops>>

NdoStop ==
  /\ netdev = "registered" /\ up
  /\ up' = FALSE /\ imsc' = FALSE
  /\ UNCHANGED <<pstep, bound, drvdata, netdev, napi, wq, handlers, probes, noirq, uart_oops>>

-----------------------------------------------------------------------------
(* Mutant: the interface is not stopped. *)
RemoveUnregisterOpen ==
  /\ pstep = "idle" /\ bound
  /\ IF drvdata
       THEN /\ netdev' = "alloc" /\ pstep' = "del_napi"
            /\ UNCHANGED <<up, imsc, uart_oops>>
       ELSE uart_oops' = TRUE /\ UNCHANGED <<netdev, up, imsc, pstep>>
  /\ UNCHANGED <<bound, drvdata, napi, wq, handlers, probes, noirq>>

(* uartnet_remove: unregister_netdev, which stops an open interface.       *)
(* Without driver data it follows a NULL pointer.                          *)
RemoveUnregister ==
  /\ pstep = "idle" /\ bound
  /\ IF drvdata
       THEN /\ netdev' = "alloc" /\ up' = FALSE /\ imsc' = FALSE /\ pstep' = "del_napi"
            /\ UNCHANGED uart_oops
       ELSE uart_oops' = TRUE /\ UNCHANGED <<netdev, up, imsc, pstep>>
  /\ UNCHANGED <<bound, drvdata, napi, wq, handlers, probes, noirq>>

RemoveNapi ==
  /\ pstep = "del_napi"
  /\ napi' = FALSE /\ pstep' = "destroy_workqueue"
  /\ UNCHANGED <<bound, drvdata, netdev, wq, up, handlers, imsc, probes, noirq, uart_oops>>

RemoveWorkqueue ==
  /\ pstep = "destroy_workqueue"
  /\ wq' = FALSE /\ pstep' = "free_netdev"
  /\ UNCHANGED <<bound, drvdata, netdev, napi, up, handlers, imsc, probes, noirq, uart_oops>>

RemoveFree ==
  /\ pstep = "free_netdev"
  /\ free_netdev
  /\ bound' = FALSE /\ drvdata' = FALSE /\ pstep' = "idle"
  /\ UNCHANGED <<wq, up, imsc, probes, noirq, uart_oops>>

uartnet_probe ==
  ProbeNetdev \/ ProbeResource \/ ProbeIrq \/ ProbeWorkqueue \/ ProbeRegister \/ ProbeDrvdata
uartnet_remove == RemoveUnregister \/ RemoveNapi \/ RemoveWorkqueue \/ RemoveFree

UartProbeStep ==
  ~uart_oops /\ (uartnet_probe \/ uartnet_remove \/ NdoOpen \/ NdoStop)

UartProbeSpec == UartProbeInit /\ [][UartProbeStep]_uartProbeVars

-----------------------------------------------------------------------------
(* The driver core's view agrees with what exists.  Behind a bound device  *)
(* there is a registered net device, which uartnet_remove will find (only  *)
(* the error path of platform_get_irq breaks this); of one that is not     *)
(* bound nothing is left, however far uartnet_probe got and whoever opened *)
(* the interface in the meantime.                                          *)
BoundOrNothing ==
  pstep = "idle" =>
    IF bound
      THEN noirq \/ (drvdata /\ netdev = "registered" /\ napi /\ wq)
      ELSE netdev = "none" /\ ~napi /\ ~wq /\ ~up /\ ~imsc /\ handlers = 0

(* The handlers stay registered until free_netdev; an interrupt never      *)
(* reaches them once NAPI or the work queue is gone, and nothing else      *)
(* follows a stale pointer unless platform_get_irq failed.                 *)
HandlerFindsItsQueue ==
  /\ imsc => napi /\ wq
  /\ uart_oops => noirq
=============================================================================
