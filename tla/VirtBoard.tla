----------------------------- MODULE VirtBoard -----------------------------
(***************************************************************************)
(* QEMU's "virt" board (hw/arm/virt.c, include/hw/arm/virt.h) with the     *)
(* second UART that the repository adds: from the options of the command   *)
(* line, machvirt_init computes the memory map and creates the devices one *)
(* after the other, or QEMU exits.                                         *)
(*                                                                         *)
(* Addresses and sizes are in units of 64 KiB, the largest page a guest    *)
(* may use: \h0900 is the address 0x09000000.  A device smaller than that  *)
(* takes up one unit.  Device tree nodes, the wiring inside a CPU and      *)
(* memory hotplug are left out.                                            *)
(***************************************************************************)
EXTENDS Integers, FiniteSets

CONSTANTS
  Options,    \* command lines: see MachineOptions
  AddrUnits   \* units in the address space of hwaddr: 2^48

MiB == 16
GiB == 16384
NUM_IRQS == 256
NUM_VIRTIO_TRANSPORTS == 32
NUM_GICV2M_SPIS == 64
NUM_SMMU_IRQS == 4
GPEX_NUM_IRQS == 4
PLATFORM_BUS_NUM_IRQS == 64
ACPI_MAX_RAM_SLOTS == 256
GIC_NCPU == 8
GICV3_REDIST_SIZE == 2
PVTIME_CPUS_PER_UNIT == 1024
LEGACY_RAMLIMIT == 255 * GiB
CLASS_MAX_CPUS == 512

(* The options the board looks at.  pa: units the CPU (or KVM) can         *)
(* address; vgic: what kvm_arm_vgic_probe reports; serials: chardevs given *)
(* with -serial; mux: the second one is a multiplexer, which takes several *)
(* front ends; tags: the CPU has the property tag-memory; its: an ITS is   *)
(* wanted and there is a class for it; bios: the image of -bios; pflash:   *)
(* the image behind the first flash device, or "misfits" if one behind     *)
(* either has not the size of the device; kernel_ok: the kernel, initrd    *)
(* and device tree given, if any, are found and loaded.  The machine type  *)
(* is the newest.                                                          *)
MachineOptions ==
  [ram : Nat, maxram : Nat, slots : Nat, cpus : Nat, max_cpus : Nat, pa : Nat,
   serials : Nat, mux : BOOLEAN, accel : {"tcg", "hvf", "kvm", "kvm-irqchip-off"},
   vgic : SUBSET {"2", "3"}, gic : {"max", "host", "2", "3", "nosel"},
   secure : BOOLEAN, virt : BOOLEAN, mte : BOOLEAN, tags : BOOLEAN,
   highmem : BOOLEAN, highmem_ecam : BOOLEAN, its : BOOLEAN, smmu : BOOLEAN,
   cpu_valid : BOOLEAN, aarch64 : BOOLEAN, acpi : BOOLEAN,
   bios : {"none", "loads", "missing", "unloadable"},
   pflash : {"none", "fits", "misfits"}, kernel_ok : BOOLEAN,
   nvdimm : BOOLEAN, steal_time : BOOLEAN]

ASSUME BoardAssumption ==
  /\ Options \subseteq MachineOptions
  /\ AddrUnits \in Nat /\ AddrUnits > 0 /\ AddrUnits % (512 * GiB) = 0
  /\ \A o \in Options : /\ o.max_cpus <= CLASS_MAX_CPUS
                        /\ 0 < o.ram /\ o.ram <= o.maxram /\ o.maxram < AddrUnits
                        /\ 0 < o.cpus /\ o.cpus <= o.max_cpus

At64K(b, s) == [base |-> b, size |-> s]

base_memmap ==
  [VIRT_FLASH |-> At64K(0, \h0800),
   VIRT_GIC_DIST |-> At64K(\h0800, 1), VIRT_GIC_CPU |-> At64K(\h0801, 1),
   VIRT_GIC_V2M |-> At64K(\h0802, 1), VIRT_GIC_HYP |-> At64K(\h0803, 1),
   VIRT_GIC_VCPU |-> At64K(\h0804, 1), VIRT_GIC_ITS |-> At64K(\h0808, 2),
   VIRT_GIC_REDIST |-> At64K(\h080A, \h00F6),
   VIRT_UART |-> At64K(\h0900, 1), VIRT_UART2 |-> At64K(\h090C, 1),
   VIRT_RTC |-> At64K(\h0901, 1), VIRT_FW_CFG |-> At64K(\h0902, 1),
   VIRT_GPIO |-> At64K(\h0903, 1), VIRT_SECURE_UART |-> At64K(\h0904, 1),
   VIRT_SMMU |-> At64K(\h0905, 2), VIRT_PCDIMM_ACPI |-> At64K(\h0907, 1),
   VIRT_ACPI_GED |-> At64K(\h0908, 1), VIRT_NVDIMM_ACPI |-> At64K(\h0909, 1),
   VIRT_PVTIME |-> At64K(\h090A, 1), VIRT_SECURE_GPIO |-> At64K(\h090B, 1),
   VIRT_MMIO |-> At64K(\h0A00, 1), VIRT_PLATFORM_BUS |-> At64K(\h0C00, \h0200),
   VIRT_SECURE_MEM |-> At64K(\h0E00, \h0100),
   VIRT_PCIE_MMIO |-> At64K(\h1000, \h2EFF), VIRT_PCIE_PIO |-> At64K(\h3EFF, 1),
   VIRT_PCIE_ECAM |-> At64K(\h3F00, \h0100),
   VIRT_MEM |-> At64K(GiB, LEGACY_RAMLIMIT)]

(* The sizes of the regions that float above RAM. *)
extended_memmap ==
  [VIRT_HIGH_GIC_REDIST2 |-> 64 * MiB, VIRT_HIGH_PCIE_ECAM |-> 256 * MiB,
   VIRT_HIGH_PCIE_MMIO |-> 512 * GiB]

(* Mutant: one line too many. *)
FromOneMore(first, n) == first..(first + n)

From(first, n) == first..(first + n - 1)

(* The interrupt lines of a device; one that the table leaves out has 0. *)
a15irqmap(dev) ==
  CASE dev = "VIRT_UART" -> {1}  [] dev = "VIRT_UART2" -> {10}
    [] dev = "VIRT_RTC" -> {2}   [] dev = "VIRT_PCIE" -> From(3, GPEX_NUM_IRQS)
    [] dev = "VIRT_GPIO" -> {7}  [] dev = "VIRT_SECURE_UART" -> {8}
    [] dev = "VIRT_ACPI_GED" -> {9}
    [] dev = "VIRT_MMIO" -> From(16, NUM_VIRTIO_TRANSPORTS)
    [] dev = "VIRT_GIC_V2M" -> From(48, NUM_GICV2M_SPIS)
    [] dev = "VIRT_SMMU" -> From(74, NUM_SMMU_IRQS)
    [] dev = "VIRT_PLATFORM_BUS" -> From(112, PLATFORM_BUS_NUM_IRQS)
    [] OTHER -> {0}

VARIABLES
  opts,       \* the command line
  step,       \* the function machvirt_init calls next, "run" or "exit"
  memmap,     \* vms->memmap
  gic,        \* vms->gic_version
  mapped,     \* subregions of system ("sys") and secure ("sec") memory
  lines,      \* [dev, line]: connected interrupt lines of the GIC
  backend,    \* chardevs in use, and by whom
  redists,    \* CPUs that have a redistributor
  msi,        \* vms->msi_controller
  conduit,    \* vms->psci_conduit: how the guest starts secondary CPUs
  power       \* what powerdown requests go to: "none", "ged" or "gpio"

created == <<mapped, lines, backend, redists, msi, conduit, power>>
boardVars == <<opts, step, memmap, gic, created>>

BoardInit ==
  /\ opts \in Options
  /\ step = "virt_set_memmap"
  /\ memmap = base_memmap
  /\ gic = opts.gic
  /\ mapped = {} /\ lines = {} /\ backend = {}
  /\ redists = 0 /\ msi = "none" /\ conduit = "none" /\ power = "none"

-----------------------------------------------------------------------------
(* The memory map.  hwaddr arithmetic wraps around. *)
Add(a, b) == (a + b) % AddrUnits

ROUND_UP(n, d) == Add(n, d - 1) - (Add(n, d - 1) % d)

DeviceMemory ==
  [base |-> ROUND_UP(Add(base_memmap.VIRT_MEM.base, opts.ram), GiB),
   size |-> Add(opts.maxram - opts.ram, opts.slots * GiB)]
HighBase == Add(DeviceMemory.base, ROUND_UP(DeviceMemory.size, GiB))

(* Mutant: each region begins where the one before it does. *)
HighAfterNoAdvance(r, size) == At64K(ROUND_UP(r.base, size), size)

(* A floating region is aligned to its size and follows the one before. *)
HighAfter(r, size) == At64K(ROUND_UP(Add(r.base, r.size), size), size)

HighMap(start) ==
  LET redist == HighAfter(At64K(start, 0), extended_memmap.VIRT_HIGH_GIC_REDIST2)
      ecam == HighAfter(redist, extended_memmap.VIRT_HIGH_PCIE_ECAM)
  IN [VIRT_HIGH_GIC_REDIST2 |-> redist, VIRT_HIGH_PCIE_ECAM |-> ecam,
      VIRT_HIGH_PCIE_MMIO |-> HighAfter(ecam, extended_memmap.VIRT_HIGH_PCIE_MMIO)]

(* The last unit of a memory map, vms->highest_gpa. *)
highest_gpa(mm) == Add(mm.VIRT_HIGH_PCIE_MMIO.base, mm.VIRT_HIGH_PCIE_MMIO.size - 1)

Merge(f, g) == [x \in DOMAIN f \cup DOMAIN g |-> IF x \in DOMAIN g THEN g[x] ELSE f[x]]
Kvm == opts.accel \in {"kvm", "kvm-irqchip-off"}
Hvf == opts.accel = "hvf"

Exit == step' = "exit" /\ UNCHANGED <<opts, memmap, gic, created>>

(* virt_kvm_type: the host must be able to address the map. *)
virt_kvm_type(mm) == Kvm /\ highest_gpa(mm) >= opts.pa

(* virt_set_memmap, which KVM calls from virt_kvm_type *)
virt_set_memmap ==
  /\ step = "virt_set_memmap"
  /\ LET legacy == base_memmap.VIRT_MEM.base + LEGACY_RAMLIMIT
         new == Merge(memmap, HighMap(IF HighBase < legacy THEN legacy ELSE HighBase))
     IN IF \/ opts.slots > ACPI_MAX_RAM_SLOTS
           \/ HighBase < DeviceMemory.base
           \/ virt_kvm_type(new)
          THEN Exit
          ELSE memmap' = new /\ step' = "finalize_gic_version"
                 /\ UNCHANGED <<opts, gic, created>>

-----------------------------------------------------------------------------
(* Mutant: the default is version 2, whatever the host offers. *)
KvmGicVersionUnchecked(o) ==
  CASE o.vgic = {} -> "exit"
    [] o.vgic # {} /\ o.gic \in {"host", "max"} -> IF "3" \in o.vgic THEN "3" ELSE "2"
    [] o.vgic # {} /\ o.gic = "nosel" -> "2"
    [] OTHER -> IF o.gic \in o.vgic THEN o.gic ELSE "exit"

(* The version of an interrupt controller in the kernel, or "exit" *)
KvmGicVersion(o) ==
  CASE o.vgic = {} -> "exit"
    [] o.vgic # {} /\ o.gic \in {"host", "max"} -> IF "3" \in o.vgic THEN "3" ELSE "2"
    [] o.vgic # {} /\ o.gic = "nosel" ->
         IF "2" \in o.vgic /\ o.max_cpus <= GIC_NCPU THEN "2"
         ELSE IF "3" \in o.vgic THEN "3" ELSE "exit"
    [] OTHER -> IF o.gic \in o.vgic THEN o.gic ELSE "exit"

(* The version of any interrupt controller.  Without one in the kernel,    *)
(* gic-version=host is said to use v2, but stays "host".                   *)
GicVersion(o) ==
  CASE o.accel = "kvm-irqchip-off" ->
         CASE o.gic = "host" -> "host" [] o.gic = "3" -> "exit" [] OTHER -> "2"
    [] o.accel = "kvm" -> KvmGicVersion(o)
    [] o.accel \in {"tcg", "hvf"} ->
         CASE o.gic = "nosel" -> "2" [] o.gic = "max" -> "3"
           [] o.gic = "host" -> "exit" [] OTHER -> o.gic

finalize_gic_version ==
  /\ step = "finalize_gic_version"
  /\ IF GicVersion(opts) = "exit" THEN Exit
     ELSE gic' = GicVersion(opts) /\ step' = "virt_firmware_init"
            /\ UNCHANGED <<opts, memmap, created>>

Redist0 == memmap.VIRT_GIC_REDIST.size \div GICV3_REDIST_SIZE
Redist1 == memmap.VIRT_HIGH_GIC_REDIST2.size \div GICV3_REDIST_SIZE
virt_max_cpus == IF gic = "3" THEN Redist0 + Redist1 ELSE GIC_NCPU

(* Redistributors of a GICv3, over the regions that create_gic asks for *)
Redistributors ==
  IF opts.cpus <= Redist0 + Redist1 THEN opts.cpus ELSE Redist0 + Redist1

-----------------------------------------------------------------------------
(* memory_region_add_subregion, sysbus_mmio_map *)
Regions(as, names) ==
  {[as |-> as, name |-> n, base |-> memmap[n].base, size |-> memmap[n].size] : n \in names}
(* sysbus_connect_irq for each line of a device *)
Wires(devs) == UNION {{[dev |-> d, line |-> l] : l \in a15irqmap(d)} : d \in devs}
SecureSpace == IF opts.secure THEN "sec" ELSE "sys"

MapAndWire(names, devs) ==
  /\ mapped' = mapped \cup Regions("sys", names)
  /\ lines' = lines \cup Wires(devs)

cpu_type_valid == opts.cpu_valid

(* The two flash banks, of which the first is secure *)
virt_flash_map ==
  LET half == memmap.VIRT_FLASH.size \div 2
  IN {[as |-> SecureSpace, name |-> "flash0", base |-> 0, size |-> half],
      [as |-> "sys", name |-> "flash1", base |-> half, size |-> half]}

(* What virt_firmware_init returns: the guest starts in firmware. *)
firmware_loaded == opts.pflash # "none" \/ opts.bios # "none"

(* A flash image must have the size of the device, the first flash device  *)
(* takes its contents from -bios or from a drive but not from both, and    *)
(* the image of -bios must be found and loaded.                            *)
FirmwareRefused ==
  \/ opts.pflash = "misfits"
  \/ opts.bios # "none" /\ opts.pflash # "none"
  \/ opts.bios \in {"missing", "unloadable"}

psci_conduit ==
  IF opts.secure /\ firmware_loaded THEN "disabled" ELSE IF opts.virt THEN "smc" ELSE "hvc"

virt_firmware_init ==
  /\ step = "virt_firmware_init"
  /\ IF ~cpu_type_valid \/ FirmwareRefused THEN Exit
     ELSE /\ mapped' = mapped \cup virt_flash_map
          /\ conduit' = psci_conduit
          /\ step' = "create_cpus"
          /\ UNCHANGED <<opts, memmap, gic, lines, backend, redists, msi, power>>

(* Mutant: the last CPU that fits is refused. *)
CpusRefusedOffByOne ==
  \/ opts.max_cpus >= virt_max_cpus
  \/ (opts.virt \/ opts.mte) /\ (Kvm \/ Hvf)
  \/ opts.mte /\ ~opts.tags

CpusRefused ==
  \/ opts.max_cpus > virt_max_cpus
  \/ (opts.virt \/ opts.mte) /\ (Kvm \/ Hvf)
  \/ opts.mte /\ ~opts.tags

(* The checks on the CPUs, the CPUs, RAM and the device memory. *)
create_cpus ==
  /\ step = "create_cpus"
  /\ IF CpusRefused
       THEN Exit
       ELSE /\ mapped' = mapped
                 \cup {[as |-> "sys", name |-> "ram", base |-> memmap.VIRT_MEM.base, size |-> opts.ram]}
                 \cup (IF DeviceMemory.size > 0
                         THEN {[as |-> "sys", name |-> "device-memory",
                                base |-> DeviceMemory.base, size |-> DeviceMemory.size]}
                         ELSE {})
            /\ step' = "create_gic"
            /\ UNCHANGED <<opts, memmap, gic, lines, backend, redists, msi, conduit, power>>

If(cond, names) == IF cond THEN names ELSE {}

create_its == If(gic = "3" /\ opts.its, {"VIRT_GIC_ITS"})
create_v2m == If(gic = "2", {"VIRT_GIC_V2M"})
virt_gicv3_redist_region_count == IF opts.cpus > Redist0 THEN 2 ELSE 1

create_gic ==
  /\ step = "create_gic"
  /\ MapAndWire(
       {"VIRT_GIC_DIST"} \cup create_its \cup create_v2m
         \cup (IF gic = "3"
                 THEN {"VIRT_GIC_REDIST"}
                        \cup If(virt_gicv3_redist_region_count = 2, {"VIRT_HIGH_GIC_REDIST2"})
                 ELSE {"VIRT_GIC_CPU"} \cup If(opts.virt, {"VIRT_GIC_HYP", "VIRT_GIC_VCPU"})),
       create_v2m)
  /\ redists' = IF gic = "3" THEN Redistributors ELSE 0
  /\ msi' = IF create_its # {} THEN "its" ELSE IF create_v2m # {} THEN "gicv2m" ELSE msi
  /\ step' = "virt_cpu_post_init"
  /\ UNCHANGED <<opts, memmap, gic, backend, conduit, power>>

(* The steal-time records fit their region, and the memory map what an     *)
(* emulated CPU can address.                                               *)
virt_cpu_post_init ==
  /\ step = "virt_cpu_post_init"
  /\ IF \/ Kvm /\ opts.steal_time /\ opts.max_cpus > PVTIME_CPUS_PER_UNIT * memmap.VIRT_PVTIME.size
        \/ ~Kvm /\ opts.aarch64 /\ opts.highmem /\ highest_gpa(memmap) >= opts.pa
       THEN Exit
       ELSE /\ MapAndWire(If(Kvm /\ opts.steal_time, {"VIRT_PVTIME"}), {})
            /\ step' = "create_uart"
            /\ UNCHANGED <<opts, memmap, gic, backend, redists, msi, conduit, power>>

(* serial_hd(i), and the device property that takes it: a chardev that     *)
(* has a front end already is an error that ends QEMU, unless it is a      *)
(* multiplexer.                                                            *)
serial_hd(i) == IF i < opts.serials THEN {i} ELSE {}
Use(i, uart) == {[chr |-> c, dev |-> uart] : c \in serial_hd(i)}

(* Mutant: a second front end is accepted. *)
ChardevBusyIgnored(used, i) == FALSE

ChardevBusy(used, i) == ~opts.mux /\ \E u \in used : u.chr \in serial_hd(i)

create_secure_ram == If(opts.secure, Regions("sec", {"VIRT_SECURE_MEM"}))

(* The three calls of create_uart, and create_secure_ram between them. *)
create_uart ==
  /\ step = "create_uart"
  /\ LET first == Use(0, "VIRT_UART") \cup Use(1, "VIRT_UART2")
         secure == If(opts.secure, {"VIRT_SECURE_UART"})
     IN IF opts.secure /\ ChardevBusy(first, 1)
          THEN Exit
          ELSE /\ backend' = first \cup If(opts.secure, Use(1, "VIRT_SECURE_UART"))
               /\ mapped' = mapped \cup Regions("sys", {"VIRT_UART", "VIRT_UART2"})
                              \cup create_secure_ram \cup Regions("sec", secure)
               /\ lines' = lines \cup Wires({"VIRT_UART", "VIRT_UART2"} \cup secure)
               /\ step' = "create_pcie"
               /\ UNCHANGED <<opts, memmap, gic, redists, msi, conduit, power>>

create_rtc == {"VIRT_RTC"}
create_smmu == If(opts.smmu, {"VIRT_SMMU"})
highmem_ecam == opts.highmem_ecam /\ opts.highmem /\ (~firmware_loaded \/ opts.aarch64)

(* create_rtc and create_pcie, which calls create_smmu *)
create_pcie ==
  /\ step = "create_pcie"
  /\ MapAndWire(
       create_rtc \cup create_smmu \cup {"VIRT_PCIE_MMIO", "VIRT_PCIE_PIO"}
         \cup {IF highmem_ecam THEN "VIRT_HIGH_PCIE_ECAM" ELSE "VIRT_PCIE_ECAM"}
         \cup If(opts.highmem, {"VIRT_HIGH_PCIE_MMIO"}),
       create_rtc \cup create_smmu \cup {"VIRT_PCIE"})
  /\ step' = "create_gpio_devices"
  /\ UNCHANGED <<opts, memmap, gic, backend, redists, msi, conduit, power>>

HasGed == opts.aarch64 /\ firmware_loaded /\ opts.acpi

create_acpi_ged == {"VIRT_ACPI_GED", "VIRT_PCDIMM_ACPI"}
virt_powerdown_req == IF HasGed THEN "ged" ELSE "gpio"

(* create_acpi_ged or create_gpio_devices, then the secure GPIO *)
create_gpio_devices ==
  /\ step = "create_gpio_devices"
  /\ mapped' = mapped \cup Regions("sys", IF HasGed THEN create_acpi_ged ELSE {"VIRT_GPIO"})
                 \cup Regions("sec", If(opts.secure, {"VIRT_SECURE_GPIO"}))
  /\ lines' = lines \cup Wires({IF HasGed THEN "VIRT_ACPI_GED" ELSE "VIRT_GPIO"})
                \cup Wires(If(opts.secure, {"VIRT_SECURE_GPIO"}))
  /\ power' = virt_powerdown_req
  /\ step' = "create_virtio_devices"
  /\ UNCHANGED <<opts, memmap, gic, backend, redists, msi, conduit>>

create_fw_cfg == {"VIRT_FW_CFG"}
create_platform_bus == {"VIRT_PLATFORM_BUS"}

(* create_virtio_devices, create_fw_cfg, create_platform_bus and the       *)
(* NVDIMM registers; then arm_load_kernel loads the kernel or exits, and   *)
(* QEMU starts the guest.                                                  *)
create_virtio_devices ==
  /\ step = "create_virtio_devices"
  /\ IF ~opts.kernel_ok THEN Exit
     ELSE /\ MapAndWire({"VIRT_MMIO"} \cup create_fw_cfg \cup create_platform_bus
                          \cup If(opts.nvdimm, {"VIRT_NVDIMM_ACPI"}),
                        {"VIRT_MMIO"} \cup create_platform_bus)
          /\ step' = "run"
          /\ UNCHANGED <<opts, memmap, gic, backend, redists, msi, conduit, power>>

machvirt_init ==
  \/ virt_set_memmap \/ finalize_gic_version \/ virt_firmware_init \/ create_cpus
  \/ create_gic \/ virt_cpu_post_init \/ create_uart \/ create_pcie
  \/ create_gpio_devices \/ create_virtio_devices

-----------------------------------------------------------------------------
Overlap(r, s) == r.base < s.base + s.size /\ s.base < r.base + r.size

(* The map of this command line ends before the end of the address space:  *)
(* RAM, device memory, and at most 1025 GiB for the rounding and the       *)
(* floating regions.                                                       *)
FitsAddressSpace ==
  base_memmap.VIRT_MEM.base + opts.maxram + (opts.slots + 2 + 1025) * GiB <= AddrUnits

(* No two regions that the board maps overlap, the secure ones and the     *)
(* added UART included, whatever the memory sizes, the number of CPUs and  *)
(* the options are, and the floating regions, mapped or not, are aligned   *)
(* to their size and lie above RAM and device memory.  Sizes that take the *)
(* map around the end of hwaddr are excepted: virt_set_memmap checks one   *)
(* of its sums only.                                                       *)
MemoryMapSound ==
  FitsAddressSpace =>
    /\ \A r, s \in mapped : r # s => ~Overlap(r, s)
    /\ \A n \in DOMAIN memmap \cap DOMAIN extended_memmap :
         /\ memmap[n].base % memmap[n].size = 0
         /\ memmap[n].base >= memmap.VIRT_MEM.base + opts.ram
         /\ memmap[n].base >= DeviceMemory.base + DeviceMemory.size

(* No interrupt line of the GIC is driven by two devices, except that the  *)
(* lines of the SMMU lie inside those of the MSI frame of a GICv2, and all *)
(* are lines that the GIC has.                                             *)
LinesExclusive ==
  \A a, b \in lines :
    /\ a.line \in 0..(NUM_IRQS - 1)
    /\ (a.dev # b.dev /\ a.line = b.line) => {a.dev, b.dev} = {"VIRT_GIC_V2M", "VIRT_SMMU"}

(* A machine that runs has a GIC that its accelerator offers, with an      *)
(* interface for each CPU: a redistributor in one of two regions, or one   *)
(* of eight.  The version is settled, except for gic-version=host without  *)
(* an irqchip in the kernel, where the type "host" reaches create_gic.     *)
GicServesEveryCpu ==
  step = "run" =>
    /\ IF gic = "3" THEN redists = opts.cpus ELSE opts.cpus <= GIC_NCPU
    /\ opts.accel = "kvm" => gic \in opts.vgic
    /\ gic = "3" => opts.accel # "kvm-irqchip-off"
    /\ gic \in {"2", "3"} \/ (gic = "host" /\ opts.accel = "kvm-irqchip-off")

(* The second -serial belongs to the UART that the repository adds, alone  *)
(* unless it is a multiplexer; a machine with EL3, whose secure UART asks  *)
(* for the same chardev, does not run with two that are not.               *)
SecondSerialToUart2 ==
  /\ \A u, v \in backend : u.chr = v.chr => u = v \/ (opts.mux /\ u.chr = 1)
  /\ (step = "run" /\ opts.serials >= 2) =>
       [chr |-> 1, dev |-> "VIRT_UART2"] \in backend /\ (opts.secure => opts.mux)

(* A memory map that ends within what an emulated CPU can address *)
FitsCpu ==
  \/ ~opts.aarch64 \/ ~opts.highmem
  \/ base_memmap.VIRT_MEM.base + opts.maxram + (opts.slots + 2 + 1025) * GiB <= opts.pa
  \/ opts.maxram + (opts.slots + 2) * GiB <= LEGACY_RAMLIMIT /\ 1024 * GiB <= opts.pa

(* An emulated machine without EL3 and MTE, whose CPUs fit its GIC, whose  *)
(* map fits the address space of the CPU and whose images can be loaded,   *)
(* firmware from one place at most, comes up, with any number of serial    *)
(* lines: nothing else in machvirt_init, the added UART included, ends it. *)
OrdinaryBoots ==
  (/\ opts.accel = "tcg" /\ opts.cpu_valid /\ ~opts.secure /\ ~opts.mte
   /\ \/ opts.gic \in {"3", "max"}
      \/ opts.gic \in {"2", "nosel"} /\ opts.max_cpus <= GIC_NCPU
   /\ opts.slots <= ACPI_MAX_RAM_SLOTS /\ FitsAddressSpace /\ FitsCpu
   /\ <<opts.bios, opts.pflash>> \in {<<"none", "none">>, <<"loads", "none">>, <<"none", "fits">>}
   /\ opts.kernel_ok)
  ~> step = "run"
=============================================================================
