-------------------------- MODULE PcieModuleProofs --------------------------
(***************************************************************************)
(* Unloading the pcie driver, or failing to load it, leaves nothing of its *)
(* character device, and nothing of its proc file and swap device unless   *)
(* the exceptions that UnloadLeavesNothing names occurred: for any number  *)
(* of loads and open files.                                                *)
(*                                                                         *)
(* The property speaks of an unloaded module only; to be inductive it has  *)
(* to say what is registered at each step of init and exit.                *)
(***************************************************************************)
EXTENDS PcieModule, TLAPS

All == {"region", "cdev", "class", "device"}

(* What is registered before each step. *)
HeldAt ==
  [out |-> {}, swap |-> {}, proc |-> {}, region |-> {}, cdev |-> {"region"},
   class |-> {"region", "cdev"}, device |-> {"region", "cdev", "class"},
   live |-> All, cdev_clean |-> All, swap_clean |-> {}]

Steps == {"out", "swap", "proc", "region", "cdev", "class", "device", "live",
          "cdev_clean", "swap_clean"}

HeldInv == mod \in Steps /\ held = HeldAt[mod]

(* Files are open only while the module is live, which keeps it loaded. *)
FdsInv == fds \in Nat /\ (mod # "live" => fds = 0)

(* Proc entries exist from proc_pcie_init to proc_pcie_clean. *)
ProcInv ==
  /\ proc \in [ProcEntries -> ProcStates]
  /\ ~excuse =>
       /\ proc["total_swap"] = "none"
       /\ mod \in {"out", "swap", "proc", "cdev_clean", "swap_clean"} =>
            proc["pcie_mm"] = "none" /\ proc["pcie_mm/total_swap"] = "none"

SwapInv == excuse \in BOOLEAN /\ (~excuse => swaps = 0)

ModuleInv == HeldInv /\ FdsInv /\ ProcInv /\ SwapInv

(* Before the first insmod. *)
LEMMA ModuleInvInit == ModuleInit => ModuleInv
<1> SUFFICES ASSUME ModuleInit PROVE ModuleInv
  OBVIOUS
<1>1. HeldInv /\ FdsInv /\ SwapInv
  BY DEF ModuleInit, HeldInv, FdsInv, SwapInv, HeldAt, Steps
<1>2. ProcInv
  BY DEF ModuleInit, ProcInv, ProcEntries, ProcStates
<1> QED
  BY <1>1, <1>2 DEF ModuleInv

(* Init of the module, step by step and failing. *)
LEMMA ModuleInvInitSteps ==
  ASSUME NEW window \in BOOLEAN, ModuleInv, pciebase_init(window)
  PROVE  ModuleInv'
<1> USE DEF ModuleInv
<1>1. CASE InitReset(window)
  BY <1>1 DEF InitReset, HeldInv, FdsInv, ProcInv, SwapInv, HeldAt, Steps
<1>2. CASE pciebase_swapdev_init
  BY <1>2 DEF pciebase_swapdev_init, HeldInv, FdsInv, ProcInv, SwapInv, HeldAt, Steps
<1>3. CASE proc_pcie_init
  <2>1. PICK file \in {"live", "none"} : MakeEntries(file)
    BY <1>3 DEF proc_pcie_init
  <2>2. excuse' \in BOOLEAN /\ (~excuse' => ~excuse)
    BY <2>1 DEF MakeEntries, SwapInv
  <2>3. HeldInv' /\ FdsInv' /\ SwapInv'
    BY <1>3, <2>2 DEF proc_pcie_init, HeldInv, FdsInv, SwapInv, HeldAt, Steps
  <2>4. ProcInv'
    BY <1>3, <2>1 DEF proc_pcie_init, MakeEntries, ProcInv, SwapInv, ProcEntries, ProcStates
  <2> QED
    BY <2>3, <2>4
<1>4. CASE CdevStep
  <2>1. HeldInv'
    BY <1>4 DEF CdevStep, CdevNext, HeldInv, HeldAt, Steps, All
  <2>2. FdsInv' /\ ProcInv' /\ SwapInv'
    BY <1>4 DEF CdevStep, CdevNext, FdsInv, ProcInv, SwapInv
  <2> QED
    BY <2>1, <2>2
<1>5. CASE CdevFail
  <2>1. HeldInv'
    BY <1>5 DEF CdevFail, Undone, HeldInv, HeldAt, Steps
  <2>2. FdsInv' /\ SwapInv'
    BY <1>5 DEF CdevFail, FdsInv, SwapInv
  <2>3. ProcInv'
    BY <1>5 DEF CdevFail, Stale, ProcInv, ProcEntries, ProcStates
  <2> QED
    BY <2>1, <2>2, <2>3
<1> QED
  BY <1>1, <1>2, <1>3, <1>4, <1>5 DEF pciebase_init

(* pciebase_exit *)
LEMMA ModuleInvExit == ModuleInv /\ pciebase_exit => ModuleInv'
<1> USE DEF ModuleInv
<1> SUFFICES ASSUME ModuleInv, pciebase_exit PROVE ModuleInv'
  OBVIOUS
<1>1. CASE proc_pcie_clean
  BY <1>1 DEF proc_pcie_clean, HeldInv, FdsInv, ProcInv, SwapInv, HeldAt, Steps,
              ProcEntries, ProcStates
<1>2. CASE pciebase_cdev_clean
  BY <1>2 DEF pciebase_cdev_clean, HeldInv, FdsInv, ProcInv, SwapInv, HeldAt, Steps, All
<1>3. CASE pciebase_swapdev_clean
  BY <1>3 DEF pciebase_swapdev_clean, Stale, HeldInv, FdsInv, ProcInv, SwapInv,
              HeldAt, Steps, ProcEntries, ProcStates
<1> QED
  BY <1>1, <1>2, <1>3 DEF pciebase_exit

(* Programs: open, close, a fault that swaps, a read of the proc file. *)
LEMMA ModuleInvPrograms ==
  ASSUME ModuleInv, pcieBase_open \/ pcieBase_close \/ SwapThroughError \/ ReadStaleProc
  PROVE  ModuleInv'
  BY DEF ModuleInv, pcieBase_open, pcieBase_close, SwapThroughError, ReadStaleProc,
         HeldInv, FdsInv, ProcInv, SwapInv, HeldAt

(* ModuleInv is an invariant of the module. *)
LEMMA ModuleInvHolds == ModuleSpec => []ModuleInv
<1>1. ModuleInv /\ [\E window \in BOOLEAN : ModuleStep(window)]_moduleVars => ModuleInv'
  <2>1. ASSUME ModuleInv, NEW window \in BOOLEAN, ModuleStep(window) PROVE ModuleInv'
    BY <2>1, ModuleInvInitSteps, ModuleInvExit, ModuleInvPrograms DEF ModuleStep
  <2>2. ModuleInv /\ UNCHANGED moduleVars => ModuleInv'
    BY DEF ModuleInv, HeldInv, FdsInv, ProcInv, SwapInv, moduleVars
  <2> QED
    BY <2>1, <2>2
<1> QED
  BY <1>1, ModuleInvInit, PTL DEF ModuleSpec

(* UnloadLeavesNothing of pciebase_init, with pciebase_cdev_init and its   *)
(* labels, and of pciebase_exit: for any number of loads and open files.   *)
THEOREM ModuleUnloadLeavesNothing == ModuleSpec => []UnloadLeavesNothing
<1>1. ModuleInv => UnloadLeavesNothing
  BY DEF ModuleInv, HeldInv, FdsInv, ProcInv, SwapInv, HeldAt, UnloadLeavesNothing, ProcEntries
<1> QED
  BY <1>1, ModuleInvHolds, PTL
=============================================================================
