----------------------------- MODULE PcieModule -----------------------------
(***************************************************************************)
(* Loading and unloading the pcie driver: pciebase_init and pciebase_exit  *)
(* (pcie_main.c), the swap device (pcie_swap.c), the proc file             *)
(* (pcie_proc.c) and the character device with its error unwinding         *)
(* (pcie_cdev.c), with programs that open the device and read the proc     *)
(* file.  Paging itself is the subject of PcieMm.                          *)
(***************************************************************************)
EXTENDS Integers, FiniteSets

CONSTANTS
  MaxLoads,   \* bound: insmod
  MaxFds      \* bound: open files

ASSUME ModuleAssumption == {MaxLoads, MaxFds} \subseteq Nat

VARIABLES
  mod,        \* "out", "live", or the next step of init or exit
  held,       \* of "region", "cdev", "class", "device": what is registered
  swap_bdev,  \* "null", "open" or "err": g_pcie_adap.swap_bdev
  swaps,      \* references to the block device that nobody will put
  proc,       \* "pcie_mm" and, under it or in the root, "total_swap"
  fds,        \* open files
  loads,      \* history: insmod so far
  excuse,     \* history: pciebase_cdev_init or proc_mkdir failed
  noswap,     \* history: the swap device could not be opened
  pcie_oops

moduleVars == <<mod, held, swap_bdev, swaps, proc, fds, loads, excuse, noswap, pcie_oops>>

(* An entry of /proc: of the loaded module, or of one that is gone. *)
ProcEntries == {"pcie_mm", "pcie_mm/total_swap", "total_swap"}
ProcStates == {"none", "live", "stale"}

ModuleInit ==
  /\ mod = "out" /\ held = {} /\ swap_bdev = "null" /\ swaps = 0
  /\ proc = [e \in ProcEntries |-> "none"]
  /\ fds = 0 /\ loads = 0
  /\ excuse = FALSE /\ noswap = FALSE /\ pcie_oops = FALSE

(* insmod: the variables of the module are fresh.  pcie_mm_reset touches   *)
(* the page structures of the reserved window, which exist for RAM only.   *)
InitReset(window) ==
  /\ mod = "out" /\ loads < MaxLoads
  /\ loads' = loads + 1
  /\ IF window THEN mod' = "swap" /\ UNCHANGED pcie_oops
               ELSE pcie_oops' = TRUE /\ UNCHANGED mod
  /\ swap_bdev' = "null"
  /\ UNCHANGED <<held, swaps, proc, fds, excuse, noswap>>

(* Its error is ignored; swap_bdev then holds an error number. *)
pciebase_swapdev_init ==
  /\ mod = "swap"
  /\ mod' = "proc"
  /\ \/ swap_bdev' = "open" /\ UNCHANGED noswap
     \/ swap_bdev' = "err" /\ noswap' = TRUE
  /\ UNCHANGED <<held, swaps, proc, fds, loads, excuse, pcie_oops>>

(* proc_mkdir fails for want of memory, or because the name exists; with   *)
(* NULL for the directory the file is created in the root of /proc, unless *)
(* that name exists.  proc_create_single may fail too: there is no file.   *)
MakeEntries(file) ==
  \/ /\ proc["pcie_mm"] = "none"
     /\ proc' = [proc EXCEPT !["pcie_mm"] = "live", !["pcie_mm/total_swap"] = file]
     /\ UNCHANGED excuse
  \/ /\ proc' = [proc EXCEPT !["total_swap"] = IF @ = "none" THEN file ELSE @]
     /\ excuse' = TRUE

proc_pcie_init ==
  /\ mod = "proc"
  /\ mod' = "region"
  /\ \E file \in {"live", "none"} : MakeEntries(file)
  /\ UNCHANGED <<held, swap_bdev, swaps, fds, loads, noswap, pcie_oops>>

(* pciebase_cdev_init: the steps in order, and the labels that undo them.  *)
(* Nobody undoes the swap device and the proc file: their code is gone     *)
(* with the module.                                                        *)
CdevNext == [region |-> "cdev", cdev |-> "class", class |-> "device", device |-> "live"]

(* Mutant: the label of class_create leaves the character device. *)
UndoneNotCdev ==
  [region |-> {}, cdev |-> {"region"}, class |-> {"region"},
   device |-> {"class", "cdev", "region"}]

Undone ==
  [region |-> {}, cdev |-> {"region"}, class |-> {"cdev", "region"},
   device |-> {"class", "cdev", "region"}]

CdevStep ==
  /\ mod \in {"region", "cdev", "class", "device"}
  /\ held' = held \cup {mod}
  /\ mod' = CdevNext[mod]
  /\ UNCHANGED <<swap_bdev, swaps, proc, fds, loads, excuse, noswap, pcie_oops>>

Stale == [e \in ProcEntries |-> IF proc[e] = "live" THEN "stale" ELSE proc[e]]

CdevFail ==
  /\ mod \in {"region", "cdev", "class", "device"}
  /\ held' = held \ Undone[mod]
  /\ mod' = "out" /\ excuse' = TRUE
  /\ swaps' = IF swap_bdev = "open" THEN swaps + 1 ELSE swaps
  /\ proc' = Stale
  /\ UNCHANGED <<swap_bdev, fds, loads, noswap, pcie_oops>>

-----------------------------------------------------------------------------
(* Programs.  An open file holds a reference to the module. *)
pcieBase_open ==
  /\ "device" \in held /\ mod = "live" /\ fds < MaxFds
  /\ fds' = fds + 1
  /\ UNCHANGED <<mod, held, swap_bdev, swaps, proc, loads, excuse, noswap, pcie_oops>>

pcieBase_close ==
  /\ fds > 0
  /\ fds' = fds - 1
  /\ UNCHANGED <<mod, held, swap_bdev, swaps, proc, loads, excuse, noswap, pcie_oops>>

(* A fault that evicts a chunk hands swap_bdev to the block layer. *)
SwapThroughError ==
  /\ fds > 0 /\ swap_bdev = "err"
  /\ pcie_oops' = TRUE
  /\ UNCHANGED <<mod, held, swap_bdev, swaps, proc, fds, loads, excuse, noswap>>

(* proc_pcie_show of a module that is gone; otherwise it changes nothing. *)
ReadStaleProc ==
  /\ proc["pcie_mm/total_swap"] = "stale" \/ proc["total_swap"] = "stale"
  /\ pcie_oops' = TRUE
  /\ UNCHANGED <<mod, held, swap_bdev, swaps, proc, fds, loads, excuse, noswap>>

-----------------------------------------------------------------------------
(* pciebase_exit, once no file is open: the proc entries (whoever made     *)
(* them), the character device in reverse order, the swap device.          *)
proc_pcie_clean ==
  /\ mod = "live" /\ fds = 0
  /\ proc' = [proc EXCEPT !["pcie_mm"] = "none", !["pcie_mm/total_swap"] = "none"]
  /\ mod' = "cdev_clean"
  /\ UNCHANGED <<held, swap_bdev, swaps, fds, loads, excuse, noswap, pcie_oops>>

pciebase_cdev_clean ==
  /\ mod = "cdev_clean"
  /\ held' = held \ {"device", "class", "cdev", "region"}
  /\ mod' = "swap_clean"
  /\ UNCHANGED <<swap_bdev, swaps, proc, fds, loads, excuse, noswap, pcie_oops>>

(* The test for NULL lets an error number through to blkdev_put. *)
pciebase_swapdev_clean ==
  /\ mod = "swap_clean"
  /\ IF swap_bdev = "err"
       THEN pcie_oops' = TRUE /\ UNCHANGED <<mod, swap_bdev, proc>>
       ELSE mod' = "out" /\ swap_bdev' = "null" /\ proc' = Stale /\ UNCHANGED pcie_oops
  /\ UNCHANGED <<held, swaps, fds, loads, excuse, noswap>>

pciebase_init(window) ==
  InitReset(window) \/ pciebase_swapdev_init \/ proc_pcie_init \/ CdevStep \/ CdevFail
pciebase_exit == proc_pcie_clean \/ pciebase_cdev_clean \/ pciebase_swapdev_clean

ModuleStep(window) ==
  /\ ~pcie_oops
  /\ \/ pciebase_init(window) \/ pciebase_exit
     \/ pcieBase_open \/ pcieBase_close \/ SwapThroughError \/ ReadStaleProc

ModuleSpec == ModuleInit /\ [][\E window \in BOOLEAN : ModuleStep(window)]_moduleVars

-----------------------------------------------------------------------------
(* However far pciebase_cdev_init got, an unloaded module has no character *)
(* device, class or device node left and no program has the device open;   *)
(* nor is there a proc entry or a reference to the swap device, unless     *)
(* pciebase_cdev_init failed, after which pciebase_init undoes neither, or *)
(* proc_mkdir did, which moves the file out of reach.                      *)
UnloadLeavesNothing ==
  mod = "out" =>
    /\ held = {} /\ fds = 0
    /\ ~excuse => swaps = 0 /\ \A e \in ProcEntries : proc[e] = "none"
=============================================================================
