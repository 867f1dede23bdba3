------------------------------ MODULE Machine ------------------------------
(***************************************************************************)
(* The board and, once it runs, a guest that uses one of the drivers:      *)
(* uart_net on the second UART, pcie on the reserved window of RAM, or     *)
(* virt_temp.  The drivers share no state, so that they are looked at one  *)
(* at a time.                                                              *)
(***************************************************************************)
EXTENDS VirtBoard, UartProbe, PcieModule, VirtTemp

CONSTANT GuestOptions   \* bound: command lines whose guest is looked at

ASSUME GuestAssumption == GuestOptions \subseteq Options

VARIABLE guest   \* the driver the guest uses, or "none" yet

machineVars == <<boardVars, uartProbeVars, moduleVars, tempVars, guest>>

MachineInit == BoardInit /\ UartProbeInit /\ ModuleInit /\ TempInit /\ guest = "none"

(* Mutant: a window that RAM reaches into will do. *)
PcieWindowPartly ==
  \E r \in mapped : r.name = "ram" /\ r.base <= 16 * GiB /\ 16 * GiB <= r.base + r.size

(* pfn_to_page of pcie_init_phymem has a page structure for each page of   *)
(* the window, RESERVED_PHYS_ADDR (16 GiB) and the 8 GiB of PHY_SIZE from  *)
(* there, if all of it is RAM.                                             *)
PcieWindow ==
  \E r \in mapped : r.name = "ram" /\ r.base <= 16 * GiB /\ 24 * GiB <= r.base + r.size

BootStep ==
  machvirt_init /\ UNCHANGED <<uartProbeVars, moduleVars, tempVars, guest>>

StartGuest ==
  /\ step = "run" /\ guest = "none" /\ opts \in GuestOptions
  /\ guest' \in {"uart_net", "pcie", "virt_temp"}
  /\ UNCHANGED <<boardVars, uartProbeVars, moduleVars, tempVars>>

UartGuest ==
  /\ guest = "uart_net" /\ UartProbeStep
  /\ UNCHANGED <<boardVars, moduleVars, tempVars, guest>>

PcieGuest ==
  /\ guest = "pcie" /\ ModuleStep(PcieWindow)
  /\ UNCHANGED <<boardVars, uartProbeVars, tempVars, guest>>

TempGuest ==
  /\ guest = "virt_temp" /\ TempStep
  /\ UNCHANGED <<boardVars, uartProbeVars, moduleVars, guest>>

MachineNext == BootStep \/ StartGuest \/ UartGuest \/ PcieGuest \/ TempGuest

(* QEMU's main thread runs machvirt_init to its end. *)
MachineSpec ==
  MachineInit /\ [][MachineNext]_machineVars /\ WF_machineVars(BootStep)

-----------------------------------------------------------------------------
(* "Memory must be >= 23GB", otherwise setting up the descriptors fails    *)
(* (run.sh): with less the pcie driver never gets past pcie_mm_reset; with *)
(* as much, loading it, its programs and unloading it follow no bad        *)
(* pointer, unless the swap device could not be opened, which              *)
(* pciebase_init ignores, or an earlier load left its proc file behind.    *)
PcieNeeds23GiB ==
  /\ mod # "out" => opts.ram >= 23 * GiB
  /\ pcie_oops => noswap \/ excuse \/ opts.ram < 23 * GiB
=============================================================================
