--------------------------- MODULE MachineProofs ---------------------------
(***************************************************************************)
(* Proofs about the board that machvirt_init builds and the guest on it,   *)
(* for every set of command lines that BoardAssumption allows and an       *)
(* address space of any size: the memory map, the interrupt lines, the     *)
(* interrupt controller, the serial lines, and what the pcie driver needs. *)
(***************************************************************************)
EXTENDS Machine, UartProbeProofs, PcieModuleProofs, VirtTempProofs, TLAPS

(* What machvirt_init has done, by the step it is at. *)
UartsMade == {"create_pcie", "create_gpio_devices", "create_virtio_devices", "run"}
GicMade == {"virt_cpu_post_init", "create_uart"} \cup UartsMade
CpusMade == {"create_gic"} \cup GicMade
GicSettled == {"virt_firmware_init", "create_cpus"} \cup CpusMade
MemorySettled == {"finalize_gic_version"} \cup GicSettled

(* The memory map of a command line *)
Legacy == base_memmap.VIRT_MEM.base + LEGACY_RAMLIMIT
Start == IF HighBase < Legacy THEN Legacy ELSE HighBase
FullMap == Merge(base_memmap, HighMap(Start))

(* Regions below RAM, but for the flash *)
LowNames == DOMAIN base_memmap \ {"VIRT_FLASH", "VIRT_MEM"}
SecureNames == {"VIRT_SECURE_MEM", "VIRT_SECURE_UART", "VIRT_SECURE_GPIO"}
LowRegion(n) ==
  [as |-> IF n \in SecureNames THEN "sec" ELSE "sys", name |-> n,
   base |-> base_memmap[n].base, size |-> base_memmap[n].size]
Flash(n) ==
  [as |-> IF n = "flash0" THEN SecureSpace ELSE "sys", name |-> n,
   base |-> IF n = "flash0" THEN 0 ELSE 1024, size |-> 1024]
Ram == [as |-> "sys", name |-> "ram", base |-> GiB, size |-> opts.ram]
Hotplug == [as |-> "sys", name |-> "device-memory",
            base |-> DeviceMemory.base, size |-> DeviceMemory.size]
HighRegion(n) ==
  [as |-> "sys", name |-> n, base |-> HighMap(Start)[n].base, size |-> HighMap(Start)[n].size]

(* Every region that machvirt_init maps is one of these. *)
Places ==
  {LowRegion(n) : n \in LowNames} \cup {Flash(n) : n \in {"flash0", "flash1"}}
    \cup {Ram, Hotplug} \cup {HighRegion(n) : n \in DOMAIN extended_memmap}

MapInv ==
  /\ opts \in Options
  /\ memmap = FullMap \/ (memmap = base_memmap /\ mapped = {})
  /\ step = "virt_set_memmap" => memmap = base_memmap
  /\ step \in MemorySettled => memmap = FullMap
  /\ mapped \subseteq Places
  /\ step \in CpusMade => Ram \in mapped

Devices == {"VIRT_UART", "VIRT_UART2", "VIRT_RTC", "VIRT_PCIE", "VIRT_GPIO", "VIRT_SECURE_UART",
            "VIRT_ACPI_GED", "VIRT_MMIO", "VIRT_GIC_V2M", "VIRT_SMMU", "VIRT_PLATFORM_BUS",
            "VIRT_SECURE_GPIO"}

(* A line is one of its device. *)
LinesInv == \A a \in lines : a.dev \in Devices /\ a.line \in a15irqmap(a.dev)

GicInv ==
  /\ step \in GicSettled => gic = GicVersion(opts) /\ gic # "exit"
  /\ step \in CpusMade => opts.max_cpus <= virt_max_cpus
  /\ step \in GicMade => redists = IF gic = "3" THEN Redistributors ELSE 0

(* The chardevs are given out in one step, unless two UARTs ask for one    *)
(* that takes one front end only.                                          *)
Contended == opts.secure /\ opts.serials >= 2 /\ ~opts.mux
Serials == Use(0, "VIRT_UART") \cup Use(1, "VIRT_UART2")
             \cup If(opts.secure, Use(1, "VIRT_SECURE_UART"))
SerialInv ==
  /\ backend = {} \/ (backend = Serials /\ ~Contended)
  /\ step \in UartsMade => backend = Serials /\ ~Contended

StepInv == step \in {"virt_set_memmap", "exit"} \cup MemorySettled

BoardInv == MapInv /\ LinesInv /\ GicInv /\ SerialInv /\ StepInv

(* What an oops of the pcie driver needs, beside ModuleInv *)
WindowInv ==
  /\ guest # "none" => step = "run"
  /\ swap_bdev = "err" => noswap
  /\ ~excuse => \A e \in ProcEntries : proc[e] # "stale"
  /\ PcieNeeds23GiB

MachineInv == BoardInv /\ ModuleInv /\ WindowInv

-----------------------------------------------------------------------------
(* The units that machvirt_init counts in *)
USE DEF MiB, GiB

(* Sums that stay below the end of the address space do not wrap. *)
LEMMA AddFacts ==
  ASSUME NEW a \in Nat, NEW b \in Nat, a + b < AddrUnits
  PROVE  Add(a, b) = a + b
BY BoardAssumption DEF Add

(* ROUND_UP rounds up, to a multiple of each alignment the board uses. *)
LEMMA RoundUpFacts ==
  ASSUME NEW n \in Nat, NEW d \in {64 * MiB, 256 * MiB, GiB, 512 * GiB}, n + (d - 1) < AddrUnits
  PROVE  /\ ROUND_UP(n, d) \in Nat /\ n <= ROUND_UP(n, d) /\ ROUND_UP(n, d) < n + d
         /\ ROUND_UP(n, d) % d = 0
<1>1. Add(n, d - 1) = n + (d - 1)
  BY AddFacts
<1>2. ROUND_UP(n, d) = (n + (d - 1)) - ((n + (d - 1)) % d)
  BY <1>1 DEF ROUND_UP
<1> QED BY <1>2

(* Device memory and the floating regions of a map that fits: one after    *)
(* the other, above RAM, aligned.                                          *)
LEMMA HighMapFacts ==
  ASSUME opts \in Options, FitsAddressSpace
  PROVE  /\ DeviceMemory.base \in Nat /\ DeviceMemory.size \in Nat /\ Start \in Nat
         /\ GiB + opts.ram <= DeviceMemory.base
         /\ DeviceMemory.base + DeviceMemory.size <= Start
         /\ \A n \in DOMAIN extended_memmap :
              /\ HighMap(Start)[n].base \in Nat /\ HighMap(Start)[n].size = extended_memmap[n]
              /\ HighMap(Start)[n].base % HighMap(Start)[n].size = 0
              /\ Start <= HighMap(Start)[n].base
         /\ HighMap(Start).VIRT_HIGH_GIC_REDIST2.base + 64 * MiB
              <= HighMap(Start).VIRT_HIGH_PCIE_ECAM.base
         /\ HighMap(Start).VIRT_HIGH_PCIE_ECAM.base + 256 * MiB
              <= HighMap(Start).VIRT_HIGH_PCIE_MMIO.base
<1>1. /\ opts.ram \in Nat /\ opts.maxram \in Nat /\ opts.slots \in Nat /\ opts.ram <= opts.maxram
      /\ GiB + opts.maxram + (opts.slots + 1027) * GiB <= AddrUnits /\ AddrUnits \in Nat
  BY BoardAssumption DEF MachineOptions, FitsAddressSpace, base_memmap, At64K
<1> DEFINE top == GiB + opts.ram
           dbase == ROUND_UP(top, GiB)
           dsize == (opts.maxram - opts.ram) + opts.slots * GiB
           hbase == dbase + ROUND_UP(dsize, GiB)
<1>2. Add(base_memmap.VIRT_MEM.base, opts.ram) = top
  BY <1>1, AddFacts, SMTT(20) DEF base_memmap, At64K
<1>3. DeviceMemory.base = dbase /\ dbase \in Nat /\ top <= dbase /\ dbase < top + GiB
  BY <1>1, <1>2, RoundUpFacts DEF DeviceMemory
<1>4. DeviceMemory.size = dsize /\ dsize \in Nat
  <2>1. opts.maxram - opts.ram \in Nat /\ opts.slots * GiB \in Nat
    BY <1>1
  <2>2. dsize < AddrUnits /\ dsize \in Nat
    BY <1>1
  <2>3. Add(opts.maxram - opts.ram, opts.slots * GiB) = dsize
    BY <2>1, <2>2, AddFacts
  <2> QED BY <2>2, <2>3 DEF DeviceMemory
<1>5. /\ ROUND_UP(dsize, GiB) \in Nat /\ dsize <= ROUND_UP(dsize, GiB)
      /\ ROUND_UP(dsize, GiB) < dsize + GiB
  <2>1. dsize \in Nat /\ dsize + (GiB - 1) < AddrUnits
    BY <1>1, <1>4
  <2> HIDE DEF dsize
  <2> QED BY <2>1, RoundUpFacts
<1>6. HighBase = hbase /\ hbase \in Nat
  BY <1>1, <1>3, <1>4, <1>5, AddFacts, SMTT(20) DEF HighBase
<1>7. /\ Start \in Nat /\ hbase <= Start
      /\ Start + 1025 * GiB <= AddrUnits
  <2>1. CASE HighBase < Legacy
    <3>1. AddrUnits >= 1536 * GiB
      BY <1>1, BoardAssumption
    <3> QED BY <2>1, <1>1, <1>6, <3>1 DEF Start, Legacy, base_memmap, At64K, LEGACY_RAMLIMIT
  <2>2. CASE ~(HighBase < Legacy)
    BY <2>2, <1>1, <1>3, <1>4, <1>5, <1>6 DEF Start, Legacy, base_memmap, At64K, LEGACY_RAMLIMIT
  <2> QED BY <2>1, <2>2
<1> DEFINE rbase == ROUND_UP(Start, 64 * MiB)
           ebase == ROUND_UP(rbase + 64 * MiB, 256 * MiB)
           mbase == ROUND_UP(ebase + 256 * MiB, 512 * GiB)
<1>8. rbase \in Nat /\ Start <= rbase /\ rbase < Start + 64 * MiB /\ rbase % (64 * MiB) = 0
  <2>1. Start + (64 * MiB - 1) < AddrUnits
    BY <1>1, <1>7
  <2> QED BY <1>7, <2>1, RoundUpFacts
<1>9. /\ ebase \in Nat /\ rbase + 64 * MiB <= ebase /\ ebase < rbase + 320 * MiB
      /\ ebase % (256 * MiB) = 0
  <2> HIDE DEF rbase
  <2>1. rbase + 64 * MiB \in Nat /\ (rbase + 64 * MiB) + (256 * MiB - 1) < AddrUnits
    BY <1>1, <1>7, <1>8
  <2> QED BY <1>8, <2>1, RoundUpFacts
<1>10. mbase \in Nat /\ ebase + 256 * MiB <= mbase /\ mbase % (512 * GiB) = 0
  <2> HIDE DEF rbase, ebase
  <2>1. ebase + 256 * MiB \in Nat /\ (ebase + 256 * MiB) + (512 * GiB - 1) < AddrUnits
    BY <1>1, <1>7, <1>8, <1>9
  <2> QED BY <1>9, <2>1, RoundUpFacts
<1>11. HighMap(Start) =
         [VIRT_HIGH_GIC_REDIST2 |-> At64K(rbase, 64 * MiB),
          VIRT_HIGH_PCIE_ECAM |-> At64K(ebase, 256 * MiB),
          VIRT_HIGH_PCIE_MMIO |-> At64K(mbase, 512 * GiB)]
  <2>1. Add(Start, 0) = Start /\ Add(rbase, 64 * MiB) = rbase + 64 * MiB
          /\ Add(ebase, 256 * MiB) = ebase + 256 * MiB
    <3> HIDE DEF rbase, ebase
    <3>1. /\ Start + 0 < AddrUnits /\ rbase + 64 * MiB < AddrUnits
          /\ ebase + 256 * MiB < AddrUnits
      BY <1>1, <1>7, <1>8, <1>9
    <3>2. Add(Start, 0) = Start
      BY <1>7, <3>1, AddFacts
    <3>3. Add(rbase, 64 * MiB) = rbase + 64 * MiB
      BY <1>8, <3>1, AddFacts
    <3>4. Add(ebase, 256 * MiB) = ebase + 256 * MiB
      BY <1>9, <3>1, AddFacts
    <3> QED BY <3>2, <3>3, <3>4
  <2> QED BY <2>1 DEF HighMap, HighAfter, At64K, extended_memmap
<1> HIDE DEF rbase, ebase, mbase
<1>12. \A n \in DOMAIN extended_memmap :
         /\ HighMap(Start)[n].base \in Nat /\ HighMap(Start)[n].size = extended_memmap[n]
         /\ HighMap(Start)[n].base % HighMap(Start)[n].size = 0
         /\ Start <= HighMap(Start)[n].base
  BY <1>7, <1>8, <1>9, <1>10, <1>11 DEF extended_memmap, At64K
<1> QED BY <1>3, <1>4, <1>5, <1>6, <1>7, <1>9, <1>10, <1>11, <1>12 DEF At64K

(* The fixed regions lie below RAM, above the flash, and apart. *)
LEMMA LowFacts ==
  /\ \A n \in LowNames :
       /\ base_memmap[n].base \in Nat /\ base_memmap[n].size \in Nat
       /\ 2048 <= base_memmap[n].base /\ base_memmap[n].base + base_memmap[n].size <= GiB
  /\ \A m, n \in LowNames : m # n => ~Overlap(base_memmap[m], base_memmap[n])
<1>1. \A n \in LowNames :
       /\ base_memmap[n].base \in Nat /\ base_memmap[n].size \in Nat
       /\ 2048 <= base_memmap[n].base /\ base_memmap[n].base + base_memmap[n].size <= GiB
  BY DEF LowNames, base_memmap, At64K
<1>2. \A m, n \in LowNames : m # n => ~Overlap(base_memmap[m], base_memmap[n])
  BY DEF LowNames, base_memmap, At64K, Overlap
<1> QED BY <1>1, <1>2

(* No two places overlap. *)
LEMMA PlacesApart ==
  ASSUME opts \in Options, FitsAddressSpace, NEW r \in Places, NEW s \in Places, r # s
  PROVE  ~Overlap(r, s)
<1> DEFINE Low == {LowRegion(n) : n \in LowNames}
           Flashes == {Flash(n) : n \in {"flash0", "flash1"}}
           High == {HighRegion(n) : n \in DOMAIN extended_memmap}
<1>1. opts.ram \in Nat /\ Ram.base = GiB /\ Ram.size = opts.ram
  BY BoardAssumption DEF MachineOptions, Ram
<1>2. \A x \in Flashes : x.base \in Nat /\ x.size \in Nat /\ x.base + x.size <= 2048
  BY DEF Flash
<1>3. \A x \in Low : x.base \in Nat /\ x.size \in Nat /\ 2048 <= x.base /\ x.base + x.size <= GiB
  BY LowFacts DEF LowRegion
<1>4. /\ Hotplug.base \in Nat /\ Hotplug.size \in Nat /\ GiB + opts.ram <= Hotplug.base
      /\ Hotplug.base + Hotplug.size <= Start /\ Start \in Nat
  BY HighMapFacts DEF Hotplug
<1>5. \A x \in High : x.base \in Nat /\ x.size \in Nat /\ Start <= x.base
  BY HighMapFacts DEF HighRegion, extended_memmap
<1>6. ASSUME NEW x \in Low, NEW y \in Low, x # y PROVE ~Overlap(x, y)
  BY <1>6, LowFacts DEF LowRegion, Overlap
<1>7. ASSUME NEW x \in Flashes, NEW y \in Flashes, x # y PROVE ~Overlap(x, y)
  BY <1>7 DEF Flash, Overlap
<1>8. ASSUME NEW x \in High, NEW y \in High, x # y PROVE ~Overlap(x, y)
  BY <1>8, HighMapFacts DEF HighRegion, extended_memmap, Overlap
<1>9. /\ r \in Flashes \/ r \in Low \/ r \in {Ram, Hotplug} \/ r \in High
      /\ s \in Flashes \/ s \in Low \/ s \in {Ram, Hotplug} \/ s \in High
  BY DEF Places
<1> HIDE DEF Low, Flashes, High
<1>10. CASE r \in {Ram, Hotplug} \/ s \in {Ram, Hotplug}
  BY <1>1, <1>2, <1>3, <1>4, <1>5, <1>9, <1>10 DEF Overlap
<1>11. CASE r \notin {Ram, Hotplug} /\ s \notin {Ram, Hotplug}
  BY <1>1, <1>2, <1>3, <1>4, <1>5, <1>6, <1>7, <1>8, <1>9, <1>11 DEF Overlap
<1> QED BY <1>10, <1>11

(* The memory map of every command line that fits is sound. *)
LEMMA MapInvSound == MapInv => MemoryMapSound
<1> SUFFICES ASSUME MapInv, FitsAddressSpace PROVE
      /\ \A r, s \in mapped : r # s => ~Overlap(r, s)
      /\ \A n \in DOMAIN memmap \cap DOMAIN extended_memmap :
           /\ memmap[n].base % memmap[n].size = 0
           /\ memmap[n].base >= memmap.VIRT_MEM.base + opts.ram
           /\ memmap[n].base >= DeviceMemory.base + DeviceMemory.size
  BY DEF MemoryMapSound
<1>1. \A r, s \in mapped : r # s => ~Overlap(r, s)
  BY PlacesApart DEF MapInv
<1>2. CASE memmap = base_memmap
  <2>1. DOMAIN memmap \cap DOMAIN extended_memmap = {}
    BY <1>2 DEF base_memmap, extended_memmap
  <2> QED BY <1>1, <2>1
<1>3. CASE memmap = FullMap
  <2>1. /\ memmap.VIRT_MEM.base = GiB
        /\ \A n \in DOMAIN extended_memmap : memmap[n] = HighMap(Start)[n]
    BY <1>3 DEF FullMap, Merge, HighMap, base_memmap, extended_memmap, At64K
  <2>2. opts.ram \in Nat /\ Start \in Nat /\ opts \in Options
    BY BoardAssumption, HighMapFacts DEF MapInv, MachineOptions
  <2>3. ASSUME NEW n \in DOMAIN extended_memmap
        PROVE  /\ memmap[n].base % memmap[n].size = 0
               /\ memmap[n].base >= memmap.VIRT_MEM.base + opts.ram
               /\ memmap[n].base >= DeviceMemory.base + DeviceMemory.size
    BY <2>1, <2>2, HighMapFacts
  <2> QED BY <1>1, <2>3
<1> QED BY <1>2, <1>3 DEF MapInv

(* Lines of devices that the table keeps apart *)
LEMMA LinesInvExclusive == LinesInv => LinesExclusive
<1> USE DEF a15irqmap, From, GPEX_NUM_IRQS, NUM_VIRTIO_TRANSPORTS, NUM_GICV2M_SPIS,
            NUM_SMMU_IRQS, PLATFORM_BUS_NUM_IRQS, Devices
<1>1. \A d \in Devices : a15irqmap(d) \subseteq 0..(NUM_IRQS - 1)
  BY DEF NUM_IRQS
<1>2. \A d, e \in Devices : \A l \in a15irqmap(d) :
        d # e /\ l \in a15irqmap(e) => {d, e} = {"VIRT_GIC_V2M", "VIRT_SMMU"}
  OBVIOUS
<1> QED BY <1>1, <1>2 DEF LinesInv, LinesExclusive

(* A GIC version that finalize_gic_version settles on *)
LEMMA GicVersionFacts ==
  ASSUME NEW o \in MachineOptions, GicVersion(o) # "exit"
  PROVE  /\ o.accel = "kvm" => GicVersion(o) \in o.vgic
         /\ GicVersion(o) = "3" => o.accel # "kvm-irqchip-off"
         /\ GicVersion(o) \in {"2", "3"} \/ (GicVersion(o) = "host" /\ o.accel = "kvm-irqchip-off")
<1>1. /\ o.accel \in {"tcg", "hvf", "kvm", "kvm-irqchip-off"}
      /\ o.gic \in {"max", "host", "2", "3", "nosel"}
      /\ o.vgic \subseteq {"2", "3"}
  BY DEF MachineOptions
<1>2. CASE o.accel = "kvm"
  <2>1. GicVersion(o) = KvmGicVersion(o)
    BY <1>2 DEF GicVersion
  <2>2. KvmGicVersion(o) # "exit" => KvmGicVersion(o) \in o.vgic
    BY <1>1 DEF KvmGicVersion
  <2> QED BY <1>1, <1>2, <2>1, <2>2
<1>3. CASE o.accel \in {"tcg", "hvf"}
  BY <1>1, <1>3 DEF GicVersion
<1>4. CASE o.accel = "kvm-irqchip-off"
  BY <1>1, <1>4 DEF GicVersion
<1> QED BY <1>1, <1>2, <1>3, <1>4

-----------------------------------------------------------------------------
(* Regions of the full map are places. *)
LEMMA RegionsPlaced ==
  ASSUME memmap = FullMap, NEW names \in SUBSET (LowNames \cup DOMAIN extended_memmap)
  PROVE  /\ names \cap SecureNames = {} => Regions("sys", names) \subseteq Places
         /\ names \subseteq SecureNames => Regions("sec", names) \subseteq Places
<1>1. \A n \in LowNames : memmap[n] = base_memmap[n]
  BY DEF FullMap, Merge, HighMap, LowNames, base_memmap
<1>2. \A n \in DOMAIN extended_memmap : memmap[n] = HighMap(Start)[n]
  BY DEF FullMap, Merge, HighMap, extended_memmap
<1>3. DOMAIN extended_memmap \cap SecureNames = {}
  BY DEF extended_memmap, SecureNames
<1> QED BY <1>1, <1>2, <1>3 DEF Regions, Places, LowRegion, HighRegion

(* Lines of devices of the table *)
LEMMA WiresKeep ==
  ASSUME LinesInv, NEW devs \in SUBSET Devices, lines' = lines \cup Wires(devs)
  PROVE  LinesInv'
BY DEF LinesInv, Wires

(* What the command line alone determines *)
LEMMA OptsDetermine ==
  ASSUME opts' = opts
  PROVE  /\ FullMap' = FullMap /\ Places' = Places /\ Ram' = Ram /\ Serials' = Serials
         /\ Contended' = Contended
<1>1. DeviceMemory' = DeviceMemory
  BY DEF DeviceMemory
<1>2. HighBase' = HighBase
  BY <1>1 DEF HighBase
<1>3. Start' = Start
  BY <1>2 DEF Start, Legacy
<1>4. FullMap' = FullMap
  BY <1>3 DEF FullMap
<1>5. Ram' = Ram /\ Hotplug' = Hotplug
  BY <1>1 DEF Ram, Hotplug
<1>6. \A n : LowRegion(n)' = LowRegion(n) /\ Flash(n)' = Flash(n) /\ HighRegion(n)' = HighRegion(n)
  BY <1>3 DEF LowRegion, Flash, SecureSpace, HighRegion
<1>7. Places' = Places
  BY <1>5, <1>6 DEF Places
<1>8. Serials' = Serials
  BY DEF Serials, Use, serial_hd, If
<1>9. Contended' = Contended
  BY DEF Contended
<1> QED BY <1>4, <1>5, <1>7, <1>8, <1>9

USE DEF created, MemorySettled, GicSettled, CpusMade, GicMade, UartsMade

(* exit keeps everything but the step. *)
LEMMA ExitKeeps == BoardInv /\ Exit => BoardInv'
<1> SUFFICES ASSUME BoardInv, Exit PROVE BoardInv'
  OBVIOUS
<1> USE DEF Exit, BoardInv
<1>1. MapInv'
  BY OptsDetermine DEF MapInv
<1>2. LinesInv' /\ GicInv' /\ SerialInv' /\ StepInv'
  BY OptsDetermine DEF LinesInv, GicInv, SerialInv, StepInv
<1> QED BY <1>1, <1>2

(* virt_set_memmap and finalize_gic_version *)
LEMMA SettleKeeps ==
  ASSUME BoardInv, virt_set_memmap \/ finalize_gic_version
  PROVE  BoardInv'
<1> USE DEF BoardInv
<1>1. CASE Exit
  BY <1>1, ExitKeeps
<1>2. CASE virt_set_memmap /\ ~Exit
  <2>1. /\ step = "virt_set_memmap" /\ step' = "finalize_gic_version"
        /\ memmap' = Merge(memmap, HighMap(Start))
        /\ UNCHANGED <<opts, gic, created>>
    BY <1>2 DEF virt_set_memmap, Start, Legacy
  <2>2. MapInv'
    BY <2>1, OptsDetermine DEF MapInv, FullMap
  <2> QED BY <2>1, <2>2, OptsDetermine DEF LinesInv, GicInv, SerialInv, StepInv
<1>3. CASE finalize_gic_version /\ ~Exit
  <2>1. /\ step = "finalize_gic_version" /\ step' = "virt_firmware_init"
        /\ gic' = GicVersion(opts) /\ GicVersion(opts) # "exit"
        /\ UNCHANGED <<opts, memmap, created>>
    BY <1>3 DEF finalize_gic_version
  <2> QED BY <2>1, OptsDetermine DEF MapInv, LinesInv, GicInv, SerialInv, StepInv
<1> QED BY <1>1, <1>2, <1>3

(* A step that only adds places and lines *)
LEMMA DevicesKeep ==
  ASSUME BoardInv, step \in GicMade, step' \in GicMade, step' \in UartsMade => step \in UartsMade,
         NEW regions \in SUBSET Places, NEW devs \in SUBSET Devices,
         mapped' = mapped \cup regions, lines' = lines \cup Wires(devs),
         UNCHANGED <<opts, memmap, gic, backend, redists>>
  PROVE  BoardInv'
<1> USE DEF BoardInv
<1>1. MapInv'
  BY OptsDetermine DEF MapInv
<1>2. LinesInv'
  BY WiresKeep
<1> QED BY <1>1, <1>2, OptsDetermine
          DEF GicInv, SerialInv, StepInv, virt_max_cpus, Redist0, Redist1, Redistributors

(* virt_firmware_init and create_cpus *)
LEMMA CpusKeep ==
  ASSUME BoardInv, virt_firmware_init \/ create_cpus
  PROVE  BoardInv'
<1> USE DEF BoardInv
<1>1. CASE Exit
  BY <1>1, ExitKeeps
<1>2. CASE virt_firmware_init /\ ~Exit
  <2>1. /\ step = "virt_firmware_init" /\ step' = "create_cpus"
        /\ mapped' = mapped \cup virt_flash_map
        /\ UNCHANGED <<opts, memmap, gic, lines, backend, redists>>
    BY <1>2 DEF virt_firmware_init
  <2>2. memmap.VIRT_FLASH.size = 2048
    BY <2>1 DEF MapInv, FullMap, Merge, HighMap, base_memmap, At64K
  <2>3. virt_flash_map = {Flash(n) : n \in {"flash0", "flash1"}}
    BY <2>2 DEF virt_flash_map, Flash
  <2>4. MapInv'
    BY <2>1, <2>3, OptsDetermine DEF MapInv, Places
  <2> QED BY <2>1, <2>4, OptsDetermine DEF LinesInv, GicInv, SerialInv, StepInv
<1>3. CASE create_cpus /\ ~Exit
  <2>1. memmap.VIRT_MEM.base = GiB
    BY <1>3 DEF create_cpus, MapInv, FullMap, Merge, HighMap, base_memmap, At64K
  <2>2. /\ step = "create_cpus" /\ step' = "create_gic"
        /\ mapped' = mapped \cup {Ram} \cup (IF DeviceMemory.size > 0 THEN {Hotplug} ELSE {})
        /\ UNCHANGED <<opts, memmap, gic, lines, backend, redists>>
        /\ opts.max_cpus <= virt_max_cpus
    <3>1. Redist0 \in Int /\ Redist1 \in Int /\ opts.max_cpus \in Nat
      BY <1>3, BoardAssumption DEF create_cpus, MapInv, Redist0, Redist1, FullMap, Merge,
            HighMap, HighAfter, base_memmap, extended_memmap, At64K, MachineOptions,
            GICV3_REDIST_SIZE
    <3> QED BY <1>3, <2>1, <3>1 DEF create_cpus, CpusRefused, Ram, Hotplug, virt_max_cpus,
                                        GIC_NCPU
  <2>3. MapInv'
    BY <2>2, OptsDetermine DEF MapInv, Places
  <2>4. GicInv'
    BY <2>2 DEF GicInv, virt_max_cpus, Redist0, Redist1
  <2> QED BY <2>2, <2>3, <2>4, OptsDetermine DEF LinesInv, SerialInv, StepInv
<1> QED BY <1>1, <1>2, <1>3

(* create_gic and virt_cpu_post_init *)
LEMMA GicKeeps ==
  ASSUME BoardInv, create_gic \/ virt_cpu_post_init
  PROVE  BoardInv'
<1> USE DEF BoardInv
<1>1. CASE create_gic
  <2>1. PICK names \in SUBSET (LowNames \cup DOMAIN extended_memmap), devs \in SUBSET Devices :
          names \cap SecureNames = {} /\ MapAndWire(names, devs)
    BY <1>1 DEF create_gic, create_its, create_v2m, If, LowNames, extended_memmap, base_memmap,
                Devices, SecureNames
  <2>2. /\ step = "create_gic" /\ step' = "virt_cpu_post_init"
        /\ redists' = IF gic = "3" THEN Redistributors ELSE 0
        /\ UNCHANGED <<opts, memmap, gic, backend>>
    BY <1>1 DEF create_gic
  <2>3. MapInv'
    BY <2>1, <2>2, RegionsPlaced, OptsDetermine DEF MapInv, MapAndWire
  <2>4. LinesInv'
    BY <2>1, WiresKeep DEF MapAndWire
  <2>5. GicInv'
    BY <2>2 DEF GicInv, virt_max_cpus, Redistributors, Redist0, Redist1
  <2> QED BY <2>2, <2>3, <2>4, <2>5, OptsDetermine DEF SerialInv, StepInv
<1>2. CASE virt_cpu_post_init /\ Exit
  BY <1>2, ExitKeeps
<1>3. CASE virt_cpu_post_init /\ ~Exit
  <2>1. /\ step = "virt_cpu_post_init" /\ step' = "create_uart"
        /\ MapAndWire(If(Kvm /\ opts.steal_time, {"VIRT_PVTIME"}), {})
        /\ UNCHANGED <<opts, memmap, gic, backend, redists>>
    BY <1>3 DEF virt_cpu_post_init
  <2>2. If(Kvm /\ opts.steal_time, {"VIRT_PVTIME"}) \in SUBSET (LowNames \ SecureNames)
    BY DEF If, LowNames, base_memmap, SecureNames
  <2>3. Regions("sys", If(Kvm /\ opts.steal_time, {"VIRT_PVTIME"})) \subseteq Places
    BY <2>1, <2>2, RegionsPlaced DEF MapInv
  <2> QED BY <2>1, <2>3, DevicesKeep DEF MapAndWire
<1> QED BY <1>1, <1>2, <1>3

(* The UARTs and the secure RAM *)
LEMMA UartsKeep == BoardInv /\ create_uart => BoardInv'
<1> SUFFICES ASSUME BoardInv, create_uart PROVE BoardInv'
  OBVIOUS
<1> USE DEF BoardInv
<1>1. CASE Exit
  BY <1>1, ExitKeeps
<1>2. CASE ~Exit
  <2> DEFINE secure == If(opts.secure, {"VIRT_SECURE_UART"})
             firsts == Use(0, "VIRT_UART") \cup Use(1, "VIRT_UART2")
  <2>1. /\ step = "create_uart" /\ step' = "create_pcie"
        /\ backend' = Serials
        /\ mapped' = mapped \cup Regions("sys", {"VIRT_UART", "VIRT_UART2"})
                       \cup create_secure_ram \cup Regions("sec", secure)
        /\ lines' = lines \cup Wires({"VIRT_UART", "VIRT_UART2"} \cup secure)
        /\ ~(opts.secure /\ ChardevBusy(firsts, 1))
        /\ UNCHANGED <<opts, memmap, gic, redists>>
    BY <1>2 DEF create_uart, Serials
  <2>2. opts.serials \in Nat
    BY BoardAssumption DEF MapInv, MachineOptions
  <2>3. opts.serials >= 2 /\ ~opts.mux => ChardevBusy(firsts, 1)
    <3> SUFFICES ASSUME opts.serials >= 2, ~opts.mux PROVE ChardevBusy(firsts, 1)
      OBVIOUS
    <3>1. [chr |-> 1, dev |-> "VIRT_UART2"] \in firsts /\ 1 \in serial_hd(1)
      BY <2>2 DEF Use, serial_hd
    <3> QED BY <3>1 DEF ChardevBusy
  <2>4. Regions("sys", {"VIRT_UART", "VIRT_UART2"}) \subseteq Places
    <3>1. {"VIRT_UART", "VIRT_UART2"} \subseteq LowNames \ SecureNames
      BY DEF LowNames, base_memmap, SecureNames
    <3> QED BY <2>1, <3>1, RegionsPlaced DEF MapInv
  <2>5. create_secure_ram \subseteq Places /\ Regions("sec", secure) \subseteq Places
    <3>1. {"VIRT_SECURE_MEM"} \subseteq LowNames \cap SecureNames
          /\ secure \subseteq LowNames \cap SecureNames
      BY DEF LowNames, base_memmap, SecureNames, If
    <3>2. Regions("sec", {"VIRT_SECURE_MEM"}) \subseteq Places
          /\ Regions("sec", secure) \subseteq Places
      BY <2>1, <3>1, RegionsPlaced DEF MapInv
    <3> QED BY <3>2 DEF create_secure_ram, If
  <2>6. MapInv'
    BY <2>1, <2>4, <2>5, OptsDetermine DEF MapInv
  <2>7. LinesInv'
    <3>1. {"VIRT_UART", "VIRT_UART2"} \cup secure \in SUBSET Devices
      BY DEF Devices, If
    <3> QED BY <2>1, <3>1, WiresKeep
  <2>8. SerialInv'
    BY <2>1, <2>3, OptsDetermine DEF SerialInv, Contended
  <2> QED BY <2>1, <2>6, <2>7, <2>8
            DEF GicInv, StepInv, virt_max_cpus, Redist0, Redist1, Redistributors
<1> QED BY <1>1, <1>2

(* create_pcie, create_gpio_devices and create_virtio_devices *)
LEMMA DevicesAfterUarts ==
  ASSUME BoardInv, create_pcie \/ create_gpio_devices \/ create_virtio_devices
  PROVE  BoardInv'
<1>1. ASSUME step \in UartsMade, step' \in UartsMade,
             NEW sys \in SUBSET (LowNames \cup DOMAIN extended_memmap), sys \cap SecureNames = {},
             NEW sec \in SUBSET (LowNames \cap SecureNames), NEW devs \in SUBSET Devices,
             mapped' = mapped \cup Regions("sys", sys) \cup Regions("sec", sec),
             lines' = lines \cup Wires(devs),
             UNCHANGED <<opts, memmap, gic, backend, redists>>
      PROVE  BoardInv'
  <2>1. Regions("sys", sys) \cup Regions("sec", sec) \subseteq Places
    BY <1>1, RegionsPlaced DEF BoardInv, MapInv
  <2>2. mapped' = mapped \cup (Regions("sys", sys) \cup Regions("sec", sec))
    BY <1>1
  <2> QED BY <1>1, <2>1, <2>2, DevicesKeep
<1>2. Regions("sec", {}) = {}
  BY DEF Regions
<1> USE DEF If, LowNames, base_memmap, extended_memmap, SecureNames, Devices
<1>3. CASE create_pcie
  <2>1. PICK sys \in SUBSET (LowNames \cup DOMAIN extended_memmap), devs \in SUBSET Devices :
          /\ sys \cap SecureNames = {}
          /\ mapped' = mapped \cup Regions("sys", sys)
          /\ lines' = lines \cup Wires(devs)
    BY <1>3 DEF create_pcie, MapAndWire, create_rtc, create_smmu
  <2>2. mapped' = mapped \cup Regions("sys", sys) \cup Regions("sec", {})
    BY <1>2, <2>1
  <2> QED BY <1>1, <1>3, <2>1, <2>2 DEF create_pcie
<1>4. CASE create_gpio_devices
  <2> DEFINE sys == IF HasGed THEN create_acpi_ged ELSE {"VIRT_GPIO"}
             sec == If(opts.secure, {"VIRT_SECURE_GPIO"})
             devs == {IF HasGed THEN "VIRT_ACPI_GED" ELSE "VIRT_GPIO"} \cup sec
  <2>1. /\ sys \in SUBSET LowNames /\ sys \cap SecureNames = {}
        /\ sec \in SUBSET (LowNames \cap SecureNames) /\ devs \in SUBSET Devices
    BY DEF create_acpi_ged
  <2>2. lines' = lines \cup Wires(devs)
    BY <1>4 DEF create_gpio_devices, Wires
  <2>3. /\ step \in UartsMade /\ step' \in UartsMade
        /\ mapped' = mapped \cup Regions("sys", sys) \cup Regions("sec", sec)
        /\ UNCHANGED <<opts, memmap, gic, backend, redists>>
    BY <1>4 DEF create_gpio_devices
  <2>4. sys \in SUBSET (LowNames \cup DOMAIN extended_memmap)
    BY <2>1
  <2> HIDE DEF sys, sec, devs
  <2> QED BY <1>1, <2>1, <2>2, <2>3, <2>4
<1>5. CASE create_virtio_devices /\ ~Exit
  <2>1. PICK sys \in SUBSET LowNames, devs \in SUBSET Devices :
          /\ sys \cap SecureNames = {}
          /\ mapped' = mapped \cup Regions("sys", sys)
          /\ lines' = lines \cup Wires(devs)
    BY <1>5 DEF create_virtio_devices, MapAndWire, create_fw_cfg, create_platform_bus
  <2>2. mapped' = mapped \cup Regions("sys", sys) \cup Regions("sec", {})
    BY <1>2, <2>1
  <2> QED BY <1>1, <1>5, <2>1, <2>2 DEF create_virtio_devices
<1>6. CASE Exit
  BY <1>6, ExitKeeps
<1> QED BY <1>3, <1>4, <1>5, <1>6

-----------------------------------------------------------------------------
(* Every step of machvirt_init keeps the board's invariant. *)
LEMMA BoardKeeps == BoardInv /\ machvirt_init => BoardInv'
BY SettleKeeps, CpusKeep, GicKeeps, UartsKeep, DevicesAfterUarts DEF machvirt_init

(* A step of the guest leaves the board alone. *)
LEMMA BoardStays == BoardInv /\ UNCHANGED boardVars => BoardInv'
<1> SUFFICES ASSUME BoardInv, UNCHANGED boardVars PROVE BoardInv'
  OBVIOUS
<1> USE DEF boardVars, BoardInv
<1>1. MapInv'
  BY OptsDetermine DEF MapInv
<1> QED BY <1>1, OptsDetermine
          DEF LinesInv, GicInv, SerialInv, StepInv, virt_max_cpus, Redist0, Redist1, Redistributors

(* The pcie driver finds its window exactly if there is RAM enough. *)
LEMMA WindowFacts ==
  ASSUME BoardInv, step = "run"
  PROVE  PcieWindow <=> opts.ram >= 23 * GiB
<1>1. Ram \in mapped /\ mapped \subseteq Places /\ opts.ram \in Nat
  BY BoardAssumption DEF BoardInv, MapInv, MachineOptions
<1>2. \A r \in Places : r.name = "ram" => r = Ram
  <2>1. \A n \in LowNames : LowRegion(n).name # "ram"
    BY DEF LowRegion, LowNames, base_memmap
  <2>2. \A n \in {"flash0", "flash1"} : Flash(n).name # "ram"
    BY DEF Flash
  <2>3. \A n \in DOMAIN extended_memmap : HighRegion(n).name # "ram"
    BY DEF HighRegion, extended_memmap
  <2>4. Hotplug.name # "ram"
    BY DEF Hotplug
  <2> QED BY <2>1, <2>2, <2>3, <2>4 DEF Places
<1>3. PcieWindow <=> Ram.name = "ram" /\ Ram.base <= 16 * GiB /\ 24 * GiB <= Ram.base + Ram.size
  BY <1>1, <1>2 DEF PcieWindow
<1> QED BY <1>1, <1>3 DEF Ram

(* A step of the pcie driver in the guest *)
LEMMA PcieGuestKeeps ==
  ASSUME MachineInv, PcieGuest
  PROVE  MachineInv'
<1> USE DEF MachineInv
<1>1. /\ guest = "pcie" /\ step = "run" /\ ModuleStep(PcieWindow)
      /\ UNCHANGED boardVars /\ UNCHANGED <<opts, step, guest>>
  BY DEF PcieGuest, WindowInv, boardVars
<1>2. BoardInv'
  BY <1>1, BoardStays
<1>3. ModuleInv'
  <2>1. PcieWindow \in BOOLEAN
    BY DEF PcieWindow
  <2> QED BY <1>1, <2>1, ModuleInvInitSteps, ModuleInvExit, ModuleInvPrograms DEF ModuleStep
<1>4. (PcieWindow <=> opts.ram >= 23 * GiB) /\ opts.ram \in Nat
  BY <1>1, WindowFacts, BoardAssumption DEF BoardInv, MapInv, MachineOptions
<1>5. WindowInv'
  <2> USE <1>1, <1>4 DEF WindowInv, PcieNeeds23GiB, ModuleInv, SwapInv
  <2>1. CASE pciebase_init(PcieWindow)
    <3>1. CASE InitReset(PcieWindow)
      BY <3>1 DEF InitReset
    <3>2. CASE pciebase_swapdev_init
      BY <3>2 DEF pciebase_swapdev_init
    <3>3. CASE proc_pcie_init
      <4>1. PICK file \in {"live", "none"} : MakeEntries(file)
        BY <3>3 DEF proc_pcie_init
      <4>2. \A e \in ProcEntries : proc'[e] \in {proc[e], "live", "none"}
        BY <4>1 DEF MakeEntries, ProcInv, ProcEntries
      <4>3. ~excuse' => ~excuse
        BY <4>1 DEF MakeEntries
      <4> QED BY <3>3, <4>2, <4>3 DEF proc_pcie_init
    <3>4. CASE CdevStep
      BY <3>4 DEF CdevStep
    <3>5. CASE CdevFail
      BY <3>5 DEF CdevFail
    <3> QED BY <2>1, <3>1, <3>2, <3>3, <3>4, <3>5 DEF pciebase_init
  <2>2. CASE pciebase_exit
    <3>1. CASE proc_pcie_clean
      BY <3>1 DEF proc_pcie_clean, ProcInv, ProcEntries, ProcStates
    <3>2. CASE pciebase_cdev_clean
      BY <3>2 DEF pciebase_cdev_clean
    <3>3. CASE pciebase_swapdev_clean
      BY <3>3 DEF pciebase_swapdev_clean, Stale, ProcInv, ProcEntries, ProcStates
    <3> QED BY <2>2, <3>1, <3>2, <3>3 DEF pciebase_exit
  <2>3. CASE pcieBase_open \/ pcieBase_close \/ SwapThroughError \/ ReadStaleProc
    BY <2>3 DEF pcieBase_open, pcieBase_close, SwapThroughError, ReadStaleProc, ProcEntries
  <2> QED BY <2>1, <2>2, <2>3 DEF ModuleStep
<1> QED BY <1>2, <1>3, <1>5

(* The other steps leave the pcie driver alone. *)
LEMMA OthersKeep ==
  ASSUME MachineInv, UNCHANGED moduleVars, opts' = opts,
         BoardInv', guest' # "none" => step' = "run"
  PROVE  MachineInv'
BY DEF MachineInv, WindowInv, PcieNeeds23GiB, ModuleInv, HeldInv, FdsInv, ProcInv,
       SwapInv, moduleVars

(* MachineInv is an invariant of the board and its guest. *)
THEOREM MachineInvariant == MachineSpec => []MachineInv
<1>1. MachineInit => MachineInv
  <2> SUFFICES ASSUME MachineInit PROVE MachineInv
    OBVIOUS
  <2>1. BoardInv
    BY DEF MachineInit, BoardInit, BoardInv, MapInv, LinesInv, GicInv, SerialInv, StepInv
  <2>2. ModuleInv
    BY ModuleInvInit DEF MachineInit
  <2>3. WindowInv
    BY DEF MachineInit, ModuleInit, WindowInv, PcieNeeds23GiB
  <2> QED BY <2>1, <2>2, <2>3 DEF MachineInv
<1>2. MachineInv /\ [MachineNext]_machineVars => MachineInv'
  <2> SUFFICES ASSUME MachineInv, [MachineNext]_machineVars PROVE MachineInv'
    OBVIOUS
  <2>1. CASE BootStep
    <3>1. guest = "none" /\ UNCHANGED guest
      BY <2>1 DEF BootStep, MachineInv, WindowInv, machvirt_init, virt_set_memmap,
           finalize_gic_version, virt_firmware_init, create_cpus, create_gic, virt_cpu_post_init,
           create_uart, create_pcie, create_gpio_devices, create_virtio_devices
    <3>2. opts' = opts
      BY <2>1 DEF BootStep, machvirt_init, virt_set_memmap, Exit,
           finalize_gic_version, virt_firmware_init, create_cpus, create_gic, virt_cpu_post_init,
           create_uart, create_pcie, create_gpio_devices, create_virtio_devices
    <3> QED BY <2>1, <3>1, <3>2, BoardKeeps, OthersKeep DEF BootStep, MachineInv
  <2>2. CASE PcieGuest
    BY <2>2, PcieGuestKeeps
  <2>3. CASE StartGuest \/ UartGuest \/ TempGuest \/ UNCHANGED machineVars
    <3>1. /\ UNCHANGED boardVars /\ UNCHANGED moduleVars
          /\ guest' # "none" => step = "run"
      BY <2>3 DEF StartGuest, UartGuest, TempGuest, machineVars, MachineInv, WindowInv
    <3>2. opts' = opts /\ step' = step
      BY <3>1 DEF boardVars
    <3> QED BY <3>1, <3>2, BoardStays, OthersKeep DEF MachineInv
  <2> QED BY <2>1, <2>2, <2>3 DEF MachineNext
<1> QED BY <1>1, <1>2, PTL DEF MachineSpec

-----------------------------------------------------------------------------
(* MemoryMapSound of virt_set_memmap and the create functions *)
THEOREM BoardMemoryMapSound == MachineSpec => []MemoryMapSound
<1>1. MachineInv => MemoryMapSound
  BY MapInvSound DEF MachineInv, BoardInv
<1> QED BY <1>1, MachineInvariant, PTL

(* LinesExclusive of a15irqmap, with the line of the added UART *)
THEOREM BoardLinesExclusive == MachineSpec => []LinesExclusive
<1>1. MachineInv => LinesExclusive
  BY LinesInvExclusive DEF MachineInv, BoardInv
<1> QED BY <1>1, MachineInvariant, PTL

(* GicServesEveryCpu of finalize_gic_version, create_gic and the check of  *)
(* the number of CPUs                                                      *)
THEOREM BoardGicServesEveryCpu == MachineSpec => []GicServesEveryCpu
<1>1. MachineInv => GicServesEveryCpu
  <2> SUFFICES ASSUME MachineInv, step = "run" PROVE
        /\ IF gic = "3" THEN redists = opts.cpus ELSE opts.cpus <= GIC_NCPU
        /\ opts.accel = "kvm" => gic \in opts.vgic
        /\ gic = "3" => opts.accel # "kvm-irqchip-off"
        /\ gic \in {"2", "3"} \/ (gic = "host" /\ opts.accel = "kvm-irqchip-off")
    BY DEF GicServesEveryCpu
  <2>1. /\ opts \in MachineOptions /\ opts.cpus \in Nat /\ opts.max_cpus \in Nat
        /\ opts.cpus <= opts.max_cpus
    BY BoardAssumption DEF MachineInv, BoardInv, MapInv, MachineOptions
  <2>2. Redist0 \in Int /\ Redist1 \in Int
    BY DEF MachineInv, BoardInv, MapInv, Redist0, Redist1, FullMap, Merge, HighMap, HighAfter,
           base_memmap, extended_memmap, At64K, GICV3_REDIST_SIZE
  <2>3. /\ gic = GicVersion(opts) /\ gic # "exit" /\ opts.max_cpus <= virt_max_cpus
        /\ redists = IF gic = "3" THEN Redistributors ELSE 0
    BY DEF MachineInv, BoardInv, GicInv
  <2>4. IF gic = "3" THEN redists = opts.cpus ELSE opts.cpus <= GIC_NCPU
    BY <2>1, <2>2, <2>3 DEF Redistributors, virt_max_cpus, GIC_NCPU
  <2> QED BY <2>1, <2>3, <2>4, GicVersionFacts
<1> QED BY <1>1, MachineInvariant, PTL

(* SecondSerialToUart2 of the three calls of create_uart *)
THEOREM BoardSecondSerialToUart2 == MachineSpec => []SecondSerialToUart2
<1>1. MachineInv => SecondSerialToUart2
  <2> SUFFICES ASSUME MachineInv PROVE SecondSerialToUart2
    OBVIOUS
  <2>1. opts.serials \in Nat
    BY BoardAssumption DEF MachineInv, BoardInv, MapInv, MachineOptions
  <2>2. \A u, v \in backend : u.chr = v.chr => u = v \/ (opts.mux /\ u.chr = 1)
    BY <2>1 DEF MachineInv, BoardInv, SerialInv, Contended, Serials, Use, serial_hd, If
  <2>3. opts.serials >= 2 => [chr |-> 1, dev |-> "VIRT_UART2"] \in Serials
    BY <2>1 DEF Serials, Use, serial_hd
  <2> QED BY <2>2, <2>3 DEF MachineInv, BoardInv, SerialInv, Contended, SecondSerialToUart2
<1> QED BY <1>1, MachineInvariant, PTL

(* PcieNeeds23GiB of the guest's pcie driver on this board *)
THEOREM GuestPcieNeeds23GiB == MachineSpec => []PcieNeeds23GiB
<1>1. MachineInv => PcieNeeds23GiB
  BY DEF MachineInv, WindowInv
<1> QED BY <1>1, MachineInvariant, PTL

-----------------------------------------------------------------------------
(* Each driver, seen alone, behaves on the board as its own specification  *)
(* says: its guest takes its steps, everybody else leaves it alone, and    *)
(* whether the window of the pcie driver is RAM is the board's doing.      *)
THEOREM GuestRunsDrivers == MachineSpec => UartProbeSpec /\ ModuleSpec /\ TempSpec
<1>1. MachineInit => UartProbeInit /\ ModuleInit /\ TempInit
  BY DEF MachineInit
<1>2. [MachineNext]_machineVars => [UartProbeStep]_uartProbeVars
  BY DEF MachineNext, BootStep, StartGuest, UartGuest, PcieGuest, TempGuest, machineVars
<1>3. [MachineNext]_machineVars => [\E window \in BOOLEAN : ModuleStep(window)]_moduleVars
  <2>1. PcieWindow \in BOOLEAN
    BY DEF PcieWindow
  <2>2. PcieGuest => \E window \in BOOLEAN : ModuleStep(window)
    BY <2>1 DEF PcieGuest
  <2> QED BY <2>2 DEF MachineNext, BootStep, StartGuest, UartGuest, TempGuest, machineVars
<1>4. [MachineNext]_machineVars => [TempStep]_tempVars
  BY DEF MachineNext, BootStep, StartGuest, UartGuest, PcieGuest, TempGuest, machineVars
<1> QED
  BY <1>1, <1>2, <1>3, <1>4, PTL DEF MachineSpec, UartProbeSpec, ModuleSpec, TempSpec

(* So what is proved of the drivers holds of the guest: BoundOrNothing and *)
(* HandlerFindsItsQueue of uart_net, UnloadLeavesNothing of pcie, and      *)
(* ShownWasStored of virt_temp.                                            *)
THEOREM GuestDriversSafe ==
  MachineSpec =>
    [](BoundOrNothing /\ HandlerFindsItsQueue /\ UnloadLeavesNothing /\ ShownWasStored)
BY GuestRunsDrivers, ProbeBoundOrNothing, ProbeHandlerFindsItsQueue,
   ModuleUnloadLeavesNothing, TempShownWasStored, PTL
=============================================================================
