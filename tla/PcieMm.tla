------------------------------- MODULE PcieMm -------------------------------
(***************************************************************************)
(* The demand-paged memory of the pcieBase driver: 32 GB of virtual memory *)
(* in chunks of MY_PAGE_SIZE, backed by 8 GB of reserved frames and a swap *)
(* device (pcie_mm.c, pcie_swap.c, the file operations of pcie_cdev.c),    *)
(* with the programs that map it (user_copy.c).                            *)
(*                                                                         *)
(* The kernel calls pcieBase_fault with mmap_lock held for reading, so two *)
(* threads may be in it at once, and the descriptors are guarded by no     *)
(* lock.  A step of a fault is what the code does between two points where *)
(* it may sleep or another CPU may interfere to an effect: the scan of the *)
(* descriptors, waiting for the page lock, each swap transfer, the zapping *)
(* of the page table entries, the hand-over of the frame, the mapping.     *)
(*                                                                         *)
(* A chunk's first page (returned by pcieBase_fault and mapped by the      *)
(* kernel) and its other pages (mapped by remap_pfn_range) are its "head"  *)
(* and "tail".  The contents of a chunk are one value.                     *)
(***************************************************************************)
EXTENDS Naturals, FiniteSets, FiniteSetsExt

CONSTANTS
  Threads,     \* threads of the programs
  Vmas,        \* their mappings of the device
  VmaOf,       \* the mapping each thread uses
  NumChunks,   \* VIRTUAL_SIZE / MY_PAGE_SIZE (8192 in the driver)
  NumFrames,   \* PHY_SIZE / MY_PAGE_SIZE (2048 in the driver)
  Value,       \* what a chunk may hold
  NULL,
  IoMayFail,   \* TRUE: a transfer to or from the swap device may fail
  AnyOrder,    \* TRUE: a program may touch a chunk's tail before its head
  ResetAnyTime,\* TRUE: PCIE_CMD_RESET also once a program used its mapping
  MaxFaults    \* bound: page faults

Chunks == 0..(NumChunks - 1)
Frames == 0..(NumFrames - 1)
Sub    == {"head", "tail"}

ASSUME PcieAssumption ==
  /\ NumChunks \in Nat \ {0}
  /\ NumFrames \in Nat \ {0}
  /\ VmaOf \in [Threads -> Vmas]
  /\ NULL \notin Frames \cup Chunks \cup Threads \cup Value
  /\ Value # {}
  /\ IoMayFail \in BOOLEAN /\ AnyOrder \in BOOLEAN /\ ResetAnyTime \in BOOLEAN
  /\ MaxFaults \in Nat

VARIABLES
  vstatus,      \* pcie_vmem_descs[].status
  phy_desc,     \* pcie_vmem_descs[].phy_desc
  pstatus,      \* pcie_phymem_descs[].status
  read_cnt,     \* pcie_phymem_descs[].read_cnt
  write_cnt,    \* pcie_phymem_descs[].write_cnt
  total_read,   \* g_pcie_adap.total_read
  total_write,  \* g_pcie_adap.total_write
  mem,          \* contents of each frame
  swap,         \* contents of each chunk's place on the swap device
  page_lock,    \* PG_locked of each frame's first page
  mapped,       \* the mappings that exist
  pte,          \* their page table entries
  pc,           \* where each thread is: "user" outside a fault
  chunk,        \* the chunk a thread's fault is for
  sub,          \* the part of it that was touched
  frame,        \* the frame the fault uses
  victim,       \* the chunk it evicts
  last,         \* history: the last read or write of a program
  faults,       \* history: faults taken
  raced         \* history: faults overlapped, a reset fell into a fault, or
                \* a tail was touched before its head

desc   == <<vstatus, phy_desc, pstatus>>
counts == <<read_cnt, write_cnt, total_read, total_write>>
store  == <<mem, swap, page_lock>>
maps   == <<mapped, pte>>
local  == <<chunk, sub, frame, victim>>
hist   == <<last, faults, raced>>
vars   == <<desc, counts, store, maps, pc, local, hist>>

NoPtes == [c \in Chunks |-> [s \in Sub |-> NULL]]

Init ==
  /\ vstatus = [c \in Chunks |-> "NO_MAP"]
  /\ phy_desc = [c \in Chunks |-> NULL]
  /\ pstatus = [f \in Frames |-> "FREE"]
  /\ read_cnt = [f \in Frames |-> 0]
  /\ write_cnt = [f \in Frames |-> 0]
  /\ total_read = 0
  /\ total_write = 0
  /\ mem \in [Frames -> Value]
  /\ swap \in [Chunks -> Value]
  /\ page_lock = [f \in Frames |-> NULL]
  /\ mapped = {}
  /\ pte = [m \in Vmas |-> NoPtes]
  /\ pc = [t \in Threads |-> "user"]
  /\ chunk = [t \in Threads |-> NULL]
  /\ sub = [t \in Threads |-> NULL]
  /\ frame = [t \in Threads |-> NULL]
  /\ victim = [t \in Threads |-> NULL]
  /\ last = NULL
  /\ faults = 0
  /\ raced = FALSE

Step(t, from, to) == pc[t] = from /\ pc' = [pc EXCEPT ![t] = to]

(* BUG(), or a NULL pointer dereferenced: the thread never goes on. *)
Die(t, from) ==
  /\ Step(t, from, "dead")
  /\ UNCHANGED <<desc, counts, store, maps, local, hist>>

Faulting(t) == pc[t] \notin {"user", "dead"}
Entry(t, c, s) == pte[VmaOf[t]][c][s]
-----------------------------------------------------------------------------
(* pcieBase_mmap refuses any size but the whole VIRTUAL_SIZE, so a mapping *)
(* is all chunks; munmap removes it with its entries.                      *)
pcieBase_mmap(m) ==
  /\ m \notin mapped
  /\ mapped' = mapped \cup {m}
  /\ UNCHANGED <<desc, counts, store, pte, pc, local, hist>>

munmap(m) ==
  /\ m \in mapped
  /\ \A t \in Threads : VmaOf[t] = m => pc[t] = "user"
  /\ mapped' = mapped \ {m}
  /\ pte' = [pte EXCEPT ![m] = NoPtes]
  /\ UNCHANGED <<desc, counts, store, pc, local, hist>>

(* user_copy.c resets the device after mapping it and before touching it. *)
Untouched == pte = [m \in Vmas |-> NoPtes] /\ \A t \in Threads : ~Faulting(t)

(* pcie_mm_reset, called by ioctl PCIE_CMD_RESET: at any time, or at the   *)
(* point where user_copy.c calls it.  The loop of pcie_init_phymem clears  *)
(* the counters of frame 0 each time round.                                *)
pcie_mm_reset ==
  /\ ResetAnyTime \/ Untouched
  /\ vstatus' = [c \in Chunks |-> "NO_MAP"]
  /\ phy_desc' = [c \in Chunks |-> NULL]
  /\ pstatus' = [f \in Frames |-> "FREE"]
  /\ read_cnt' = [read_cnt EXCEPT ![0] = 0]
  /\ write_cnt' = [write_cnt EXCEPT ![0] = 0]
  /\ total_read' = 0
  /\ total_write' = 0
  /\ raced' = (raced \/ \E t \in Threads : Faulting(t))
  /\ UNCHANGED <<store, maps, pc, local, last, faults>>

(* A program writes or reads a chunk through an existing entry. *)
UserWrite(t, c, s, v) ==
  /\ pc[t] = "user"
  /\ Entry(t, c, s) # NULL
  /\ mem' = [mem EXCEPT ![Entry(t, c, s)] = v]
  /\ last' = [op |-> "write", chunk |-> c, value |-> v]
  /\ UNCHANGED <<desc, counts, swap, page_lock, maps, pc, local, faults, raced>>

UserRead(t, c, s) ==
  /\ pc[t] = "user"
  /\ Entry(t, c, s) # NULL
  /\ last' = [op |-> "read", chunk |-> c, value |-> mem[Entry(t, c, s)]]
  /\ UNCHANGED <<desc, counts, store, maps, pc, local, faults, raced>>

(* It touches a page that has no entry: the kernel calls pcieBase_fault.   *)
UserFault(t, c, s) ==
  /\ VmaOf[t] \in mapped
  /\ Entry(t, c, s) = NULL
  /\ AnyOrder \/ s = "head"
  /\ faults < MaxFaults
  /\ Step(t, "user", "fault")
  /\ chunk' = [chunk EXCEPT ![t] = c]
  /\ sub' = [sub EXCEPT ![t] = s]
  /\ faults' = faults + 1
  /\ raced' = (raced \/ s = "tail" \/ \E u \in Threads : Faulting(u))
  /\ UNCHANGED <<desc, counts, store, maps, frame, victim, last>>
-----------------------------------------------------------------------------
(* pcieBase_fault: is the chunk in memory? *)
FaultCheck(t) ==
  /\ pc[t] = "fault"
  /\ \/ /\ vstatus[chunk[t]] = "IN_MEM"
        /\ Step(t, "fault", "map")
        /\ UNCHANGED <<desc, counts, store, maps, local, hist>>
     \/ /\ vstatus[chunk[t]] # "IN_MEM"
        /\ phy_desc[chunk[t]] = NULL
        /\ Step(t, "fault", "fill")
        /\ UNCHANGED <<desc, counts, store, maps, local, hist>>
     \/ /\ vstatus[chunk[t]] # "IN_MEM"
        /\ phy_desc[chunk[t]] # NULL
        /\ Die(t, "fault")

(* fill_vpage: the first free frame is assigned to the chunk ... *)
FreeFrames == {f \in Frames : pstatus[f] = "FREE"}

FillFree(t) ==
  /\ Step(t, "fill", IF vstatus[chunk[t]] = "IN_SWAP" THEN "pagein" ELSE "use")
  /\ FreeFrames # {}
  /\ frame' = [frame EXCEPT ![t] = Min(FreeFrames)]
  /\ phy_desc' = [phy_desc EXCEPT ![chunk[t]] = Min(FreeFrames)]
  /\ UNCHANGED <<vstatus, pstatus, counts, store, maps, chunk, sub, victim, hist>>

(* ... or, when none is left, the first chunk in memory is evicted. *)
InMem == {c \in Chunks : vstatus[c] = "IN_MEM"}

FillEvict(t) ==
  /\ pc[t] = "fill"
  /\ FreeFrames = {}
  /\ \/ /\ InMem # {}
        /\ phy_desc[Min(InMem)] # NULL
        /\ Step(t, "fill", "lock")
        /\ victim' = [victim EXCEPT ![t] = Min(InMem)]
        /\ frame' = [frame EXCEPT ![t] = phy_desc[Min(InMem)]]
        /\ UNCHANGED <<desc, counts, store, maps, chunk, sub, hist>>
     \/ /\ ~(InMem # {} /\ phy_desc[Min(InMem)] # NULL)
        /\ Die(t, "fill")

(* read_pages: the chunk is read into the frame its descriptor names and   *)
(* counted.  A failed transfer is ignored: the frame keeps what it held.   *)
read_pages(t) ==
  LET c == chunk[t]
      f == phy_desc[c]
  IN
  /\ \/ mem' = [mem EXCEPT ![f] = swap[c]]
     \/ IoMayFail /\ UNCHANGED mem
  /\ read_cnt' = [read_cnt EXCEPT ![f] = @ + 1]
  /\ total_read' = total_read + 1
  /\ UNCHANGED <<swap, write_cnt, total_write>>

(* my_swap_pagein: lock the page, read, unlock. *)
PageinLock(t) ==
  /\ Step(t, "pagein", "pageread")
  /\ page_lock[frame[t]] = NULL
  /\ page_lock' = [page_lock EXCEPT ![frame[t]] = t]
  /\ UNCHANGED <<desc, counts, mem, swap, maps, local, hist>>

PageinRead(t) ==
  /\ pc[t] = "pageread"
  /\ \/ /\ phy_desc[chunk[t]] # NULL
        /\ Step(t, "pageread", "use")
        /\ read_pages(t)
        /\ page_lock' = [page_lock EXCEPT ![frame[t]] = NULL]
        /\ UNCHANGED <<desc, maps, local, hist>>
     \/ /\ phy_desc[chunk[t]] = NULL
        /\ Die(t, "pageread")

(* The end of fill_vpage with a free frame. *)
FillUse(t) ==
  /\ Step(t, "use", "map")
  /\ pstatus' = [pstatus EXCEPT ![frame[t]] = "IN_USE"]
  /\ vstatus' = [vstatus EXCEPT ![chunk[t]] = "IN_MEM"]
  /\ UNCHANGED <<phy_desc, counts, store, maps, local, hist>>
-----------------------------------------------------------------------------
(* evict_page, which holds the lock of the frame's page throughout. *)
EvictLock(t) ==
  /\ Step(t, "lock", "write")
  /\ page_lock[frame[t]] = NULL
  /\ page_lock' = [page_lock EXCEPT ![frame[t]] = t]
  /\ UNCHANGED <<desc, counts, mem, swap, maps, local, hist>>

(* Mutant of EvictWrite: the transfer is skipped unless the frame's dirty  *)
(* flag, which nothing sets, is true.                                      *)
EvictWriteIfDirty(t) ==
  /\ Step(t, "write", "zap")
  /\ vstatus' = [vstatus EXCEPT ![victim[t]] = "IN_SWAP"]
  /\ UNCHANGED <<phy_desc, pstatus, counts, store, maps, local, hist>>

(* write_pages: the victim goes to the swap device.  A failed transfer is  *)
(* ignored.                                                                *)
EvictWrite(t) ==
  LET w == victim[t]
      f == phy_desc[w]
  IN
  /\ pc[t] = "write"
  /\ \/ /\ f # NULL
        /\ Step(t, "write", "zap")
        /\ \/ swap' = [swap EXCEPT ![w] = mem[f]]
           \/ IoMayFail /\ UNCHANGED swap
        /\ vstatus' = [vstatus EXCEPT ![w] = "IN_SWAP"]
        /\ write_cnt' = [write_cnt EXCEPT ![f] = @ + 1]
        /\ total_write' = total_write + 1
        /\ UNCHANGED <<phy_desc, pstatus, read_cnt, total_read, mem, page_lock,
                       maps, local, hist>>
     \/ /\ f = NULL
        /\ Die(t, "write")

(* Mutant of EvictZap: the entries stay. *)
EvictZapForgotten(t) ==
  /\ Step(t, "zap", "move")
  /\ UNCHANGED <<desc, counts, store, maps, local, hist>>

(* zap_vma_ptes, in the faulting mapping only. *)
EvictZap(t) ==
  /\ Step(t, "zap", "move")
  /\ pte' = [pte EXCEPT ![VmaOf[t]][victim[t]] = [s \in Sub |-> NULL]]
  /\ UNCHANGED <<desc, counts, store, mapped, local, hist>>

(* Mutants of EvictMove: the victim keeps its frame, or the chunk is read  *)
(* in although it was never swapped out.                                   *)
EvictMoveKeepsVictim(t) ==
  /\ Step(t, "move", IF vstatus[chunk[t]] = "IN_SWAP" THEN "read" ELSE "unlock")
  /\ phy_desc' = [phy_desc EXCEPT ![chunk[t]] = phy_desc[victim[t]]]
  /\ UNCHANGED <<vstatus, pstatus, counts, store, maps, local, hist>>

EvictMoveAlwaysReads(t) ==
  /\ Step(t, "move", "read")
  /\ phy_desc' = [phy_desc EXCEPT ![chunk[t]] = phy_desc[victim[t]],
                                  ![victim[t]] = NULL]
  /\ UNCHANGED <<vstatus, pstatus, counts, store, maps, local, hist>>

(* The frame changes hands; the chunk is read back if it was swapped out. *)
EvictMove(t) ==
  /\ Step(t, "move", IF vstatus[chunk[t]] = "IN_SWAP" THEN "read" ELSE "unlock")
  /\ phy_desc' = [phy_desc EXCEPT ![chunk[t]] = phy_desc[victim[t]],
                                  ![victim[t]] = NULL]
  /\ UNCHANGED <<vstatus, pstatus, counts, store, maps, local, hist>>

EvictRead(t) ==
  /\ pc[t] = "read"
  /\ \/ /\ phy_desc[chunk[t]] # NULL
        /\ Step(t, "read", "unlock")
        /\ read_pages(t)
        /\ UNCHANGED <<desc, page_lock, maps, local, hist>>
     \/ /\ phy_desc[chunk[t]] = NULL
        /\ Die(t, "read")

(* Mutant of EvictUnlock: the page stays locked. *)
EvictUnlockForgotten(t) ==
  /\ Step(t, "unlock", "map")
  /\ vstatus' = [vstatus EXCEPT ![chunk[t]] = "IN_MEM"]
  /\ UNCHANGED <<phy_desc, pstatus, counts, store, maps, local, hist>>

EvictUnlock(t) ==
  /\ Step(t, "unlock", "map")
  /\ vstatus' = [vstatus EXCEPT ![chunk[t]] = "IN_MEM"]
  /\ page_lock' = [page_lock EXCEPT ![frame[t]] = NULL]
  /\ UNCHANGED <<phy_desc, pstatus, counts, mem, swap, maps, local, hist>>
-----------------------------------------------------------------------------
(* The end of pcieBase_fault: remap_pfn_range maps the tail, and is a BUG  *)
(* of its own when the tail is already mapped.  Without a page to return   *)
(* the kernel dereferences NULL.                                           *)
Mappable(t) ==
  /\ vstatus[chunk[t]] = "IN_MEM"
  /\ phy_desc[chunk[t]] # NULL
  /\ Entry(t, chunk[t], "tail") = NULL

FaultMap(t) ==
  /\ pc[t] = "map"
  /\ \/ /\ Mappable(t)
        /\ Step(t, "map", "finish")
        /\ frame' = [frame EXCEPT ![t] = phy_desc[chunk[t]]]
        /\ pte' = [pte EXCEPT ![VmaOf[t]][chunk[t]]["tail"] =
                                 phy_desc[chunk[t]]]
        /\ UNCHANGED <<desc, counts, store, mapped, chunk, sub, victim, hist>>
     \/ /\ ~Mappable(t)
        /\ Die(t, "map")

(* The kernel maps the page returned, unless the entry exists by now. *)
FaultFinish(t) ==
  /\ Step(t, "finish", "user")
  /\ page_lock[frame[t]] = NULL
  /\ pte' = IF Entry(t, chunk[t], sub[t]) = NULL
              THEN [pte EXCEPT ![VmaOf[t]][chunk[t]][sub[t]] = frame[t]]
              ELSE pte
  /\ chunk' = [chunk EXCEPT ![t] = NULL]
  /\ sub' = [sub EXCEPT ![t] = NULL]
  /\ frame' = [frame EXCEPT ![t] = NULL]
  /\ victim' = [victim EXCEPT ![t] = NULL]
  /\ UNCHANGED <<desc, counts, store, mapped, hist>>

pcieBase_fault(t) ==
  \/ FaultCheck(t) \/ FillFree(t) \/ FillEvict(t)
  \/ PageinLock(t) \/ PageinRead(t) \/ FillUse(t)
  \/ EvictLock(t) \/ EvictWrite(t) \/ EvictZap(t)
  \/ EvictMove(t) \/ EvictRead(t) \/ EvictUnlock(t)
  \/ FaultMap(t) \/ FaultFinish(t)

User(t) ==
  \E c \in Chunks, s \in Sub :
    \/ UserRead(t, c, s)
    \/ UserFault(t, c, s)
    \/ \E v \in Value : UserWrite(t, c, s, v)

Next ==
  \/ \E m \in Vmas : pcieBase_mmap(m) \/ munmap(m)
  \/ pcie_mm_reset
  \/ \E t \in Threads : User(t) \/ pcieBase_fault(t)

(* The kernel runs a thread that is in a fault, and swap transfers end. *)
Fairness == \A t \in Threads : WF_vars(pcieBase_fault(t))

Spec == Init /\ [][Next]_vars
FairSpec == Spec /\ Fairness
-----------------------------------------------------------------------------
(* None of the BUG() assertions of pcie_mm.c, the one of remap_pfn_range,  *)
(* or a NULL descriptor pointer is reached.                                *)
NoBug == \A t \in Threads : pc[t] # "dead"

(* A program alone in the driver, that touches every chunk from its head   *)
(* on, never reaches one: it takes overlapping faults, a reset inside a    *)
(* fault, or a tail touched first, whatever the order of mapping,          *)
(* resetting and faulting in any number of processes.                      *)
NoBugUnlessRaced == NoBug \/ raced

Quiet == \A t \in Threads : ~Faulting(t)

(* Between faults the descriptors agree: a frame in use belongs to exactly *)
(* one chunk in memory, a free one to none, and no other chunk names a     *)
(* frame.  Failed transfers and resets do not disturb this, only faults    *)
(* that overlapped one another or a reset.                                 *)
FrameOwned ==
  Quiet /\ ~raced =>
    /\ \A c \in Chunks : vstatus[c] = "IN_MEM" <=> phy_desc[c] # NULL
    /\ \A f \in Frames :
         Cardinality({c \in Chunks : phy_desc[c] = f}) =
           (IF pstatus[f] = "IN_USE" THEN 1 ELSE 0)

(* A page table entry never outlives the chunk's stay in memory: it leads  *)
(* to the frame the chunk owns, or to that of a victim on its way out.     *)
PteSound ==
  \A m \in Vmas, c \in Chunks, s \in Sub :
    pte[m][c][s] # NULL =>
      /\ phy_desc[c] = pte[m][c][s]
      /\ \/ vstatus[c] = "IN_MEM"
         \/ \E t \in Threads : pc[t] = "zap" /\ victim[t] = c

SwappedOut == {c \in Chunks : vstatus[c] = "IN_SWAP"}
ReadBack == {t \in Threads : pc[t] = "unlock" /\ vstatus[chunk[t]] = "IN_SWAP"}

(* What a counter of the frames adds up to. *)
FrameSum(cnt) ==
  LET s[n \in 0..NumFrames] == IF n = 0 THEN 0 ELSE s[n - 1] + cnt[n - 1]
  IN  s[NumFrames]

FrameCountsCover ==
  total_read <= FrameSum(read_cnt) /\ total_write <= FrameSum(write_cnt)

(* Chunks go to the swap device only when no frame is free, so the branch  *)
(* of fill_vpage that reads one back into a free frame never runs; the     *)
(* totals shown in /proc tell how many chunks are out there; and the       *)
(* counters per frame add up to no less than the totals (to more once a    *)
(* reset, which clears only those of frame 0, left the others standing).   *)
SwapBalance ==
  /\ SwappedOut # {} => FreeFrames = {}
  /\ total_write = total_read + Cardinality(SwappedOut) - Cardinality(ReadBack)
  /\ FrameCountsCover

(* For the program the chunks are a memory: what it reads is what was last *)
(* written, through any number of evictions and returns, and nothing but   *)
(* its writes changes what a touched chunk holds.                          *)
Held(c) ==
  CASE vstatus[c] = "NO_MAP"  -> NULL
    [] vstatus[c] = "IN_SWAP" -> swap[c]
    [] vstatus[c] = "IN_MEM"  -> mem[phy_desc[c]]

Content == [c \in Chunks |-> Held(c)]

Memory == INSTANCE ChunkMemory
            WITH Chunk <- Chunks, Unset <- NULL, content <- Content

MemorySpec == Memory!MemSpec

(* A page fault returns. *)
FaultReturns == \A t \in Threads : Faulting(t) ~> ~Faulting(t)
=============================================================================
