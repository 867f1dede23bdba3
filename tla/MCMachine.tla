----------------------------- MODULE MCMachine -----------------------------
(* Command lines around the ones that the repository's scripts use, and    *)
(* the drivers' bounds, for TLC.  An address space of 4 TiB (2^26 units of *)
(* 64 KiB) stands for the 16 EiB of hwaddr.                                *)
EXTENDS Machine

MCAddrUnits == 4096 * GiB

(* 23 GiB of RAM, GICv3 and four emulated CPUs, as for the pcie driver,    *)
(* and two serial lines, as for uart_net.                                  *)
Script ==
  [ram |-> 23 * GiB, maxram |-> 23 * GiB, slots |-> 0, cpus |-> 4, max_cpus |-> 4,
   pa |-> MCAddrUnits, serials |-> 2, mux |-> FALSE, accel |-> "tcg", vgic |-> {"2", "3"}, gic |-> "3",
   secure |-> FALSE, virt |-> FALSE, mte |-> FALSE, tags |-> FALSE,
   highmem |-> TRUE, highmem_ecam |-> TRUE, its |-> TRUE, smmu |-> FALSE,
   cpu_valid |-> TRUE, aarch64 |-> TRUE, acpi |-> FALSE,
   bios |-> "none", pflash |-> "none", kernel_ok |-> TRUE,
   nvdimm |-> FALSE, steal_time |-> FALSE]

(* RAM up to, at and above the window and the legacy limit, unaligned, and *)
(* so much that the memory map passes the end of the address space; device *)
(* memory; too many slots.                                                 *)
Memories ==
  {[Script EXCEPT !.ram = r, !.maxram = r + d, !.slots = s] :
     r \in {GiB, 23 * GiB - 1, 255 * GiB, 300 * GiB + 1, 3300 * GiB, 3700 * GiB}, d \in {0, 5}, s \in {0, 2}}
  \cup {[Script EXCEPT !.maxram = 4095 * GiB, !.slots = 2], [Script EXCEPT !.slots = 257],
        [Script EXCEPT !.ram = 600 * GiB, !.maxram = 600 * GiB, !.pa = 1024 * GiB]}

Gics ==
  {[Script EXCEPT !.cpus = c, !.max_cpus = m, !.accel = a, !.vgic = v, !.gic = g] :
     c \in {8}, m \in {8, 9}, a \in {"tcg", "hvf", "kvm", "kvm-irqchip-off"},
     v \in SUBSET {"2", "3"}, g \in {"max", "host", "2", "3", "nosel"}}

ManyCpus ==
  {[Script EXCEPT !.cpus = c, !.max_cpus = 512] : c \in {123, 124, 512}}

Extras ==
  {[Script EXCEPT !.serials = n, !.secure = s, !.gic = g, !.virt = v, !.smmu = m, !.pflash = f,
                  !.acpi = (f = "fits")] :
     n \in 0..2, s \in BOOLEAN, g \in {"2", "3"}, v \in BOOLEAN, m \in BOOLEAN, f \in {"none", "fits"}}

(* Every combination of firmware images, and what decides their effect.    *)
Firmware ==
  {[Script EXCEPT !.bios = b, !.pflash = f, !.kernel_ok = k, !.acpi = c, !.secure = s, !.serials = 1] :
     b \in {"none", "loads", "missing", "unloadable"}, f \in {"none", "fits", "misfits"},
     k \in BOOLEAN, c \in BOOLEAN, s \in BOOLEAN}

Others ==
  {[Script EXCEPT !.cpu_valid = FALSE], [Script EXCEPT !.aarch64 = FALSE],
   [Script EXCEPT !.highmem = FALSE], [Script EXCEPT !.its = FALSE],
   [Script EXCEPT !.mte = TRUE], [Script EXCEPT !.mte = TRUE, !.tags = TRUE],
   [Script EXCEPT !.accel = "kvm", !.virt = TRUE], [Script EXCEPT !.accel = "kvm", !.mte = TRUE],
   [Script EXCEPT !.accel = "kvm", !.steal_time = TRUE, !.nvdimm = TRUE],
   [Script EXCEPT !.accel = "kvm", !.secure = TRUE, !.bios = "loads", !.serials = 1],
   [Script EXCEPT !.mux = TRUE], [Script EXCEPT !.mux = TRUE, !.secure = TRUE],
   [Script EXCEPT !.accel = "hvf", !.virt = TRUE], [Script EXCEPT !.accel = "hvf", !.mte = TRUE]}

(* The guests are started with RAM around what the pcie driver needs. *)
MCGuestOptions == {o \in Memories : o.ram <= 23 * GiB /\ o.maxram = o.ram /\ o.slots = 0} \cup {Script}

MCOptions == {Script} \cup Memories \cup Gics \cup ManyCpus \cup Extras \cup Firmware \cup Others
=============================================================================
