---------------------------- MODULE PcieMmProofs ----------------------------
(***************************************************************************)
(* Proofs about the paging of the pcieBase driver, for any number of       *)
(* threads, mappings, chunks and frames.  While no fault has overlapped    *)
(* another one or a reset, and no tail was touched before its head, the    *)
(* descriptors are as the one fault under way leaves them; this holds with *)
(* failing transfers and with resets of a device in use.  For one thread   *)
(* the page table entries never outlive a chunk's stay in memory and, with *)
(* transfers that do not fail, the chunks are a memory; the totals tell    *)
(* how many chunks are swapped out.                                        *)
(***************************************************************************)
EXTENDS PcieMm, FiniteSetTheorems, WellFoundedInduction, TLAPS

Pcs ==
  {"user", "dead", "fault", "fill", "pagein", "pageread", "use", "lock",
   "write", "zap", "move", "read", "unlock", "map", "finish"}

PagingTypes ==
  /\ vstatus \in [Chunks -> {"NO_MAP", "IN_MEM", "IN_SWAP"}]
  /\ phy_desc \in [Chunks -> Frames \cup {NULL}]
  /\ pstatus \in [Frames -> {"FREE", "IN_USE"}]
  /\ mem \in [Frames -> Value]
  /\ swap \in [Chunks -> Value]
  /\ page_lock \in [Frames -> Threads \cup {NULL}]
  /\ mapped \subseteq Vmas
  /\ pte \in [Vmas -> [Chunks -> [Sub -> Frames \cup {NULL}]]]
  /\ pc \in [Threads -> Pcs]
  /\ chunk \in [Threads -> Chunks \cup {NULL}]
  /\ sub \in [Threads -> Sub \cup {NULL}]
  /\ frame \in [Threads -> Frames \cup {NULL}]
  /\ victim \in [Threads -> Chunks \cup {NULL}]

(* The locals a fault has set by the time it uses them. *)
LocalTypes ==
  \A t \in Threads :
    /\ Faulting(t) => chunk[t] \in Chunks /\ sub[t] \in Sub
    /\ pc[t] \in {"lock", "write", "zap", "move"} => victim[t] \in Chunks
    /\ Faulting(t) /\ pc[t] \notin {"fault", "fill", "map"} => frame[t] \in Frames

(* The chunk that names a frame without being in memory: the one being     *)
(* filled, or the victim between its write to the swap device and the      *)
(* hand-over of its frame.                                                 *)
Filling(t, c) == pc[t] \in {"pagein", "pageread", "use"} /\ chunk[t] = c
Taking(t, c)  == pc[t] \in {"read", "unlock"} /\ chunk[t] = c
Leaving(t, c) == pc[t] \in {"zap", "move"} /\ victim[t] = c

Alone == \A t, u \in Threads : Faulting(t) /\ Faulting(u) => t = u

(* What the descriptors say of the chunk, the victim and the frame of a    *)
(* fault, by where the fault is.                                           *)
FaultState(t) ==
  /\ Faulting(t) =>
       /\ sub[t] = "head"
       /\ Entry(t, chunk[t], "head") = NULL
       /\ VmaOf[t] \in mapped
  /\ pc[t] \in {"fill", "pagein", "pageread", "use", "lock", "write", "zap",
                "move", "read", "unlock"} => vstatus[chunk[t]] # "IN_MEM"
  /\ pc[t] \in {"fill", "lock", "write", "zap", "move"} =>
       phy_desc[chunk[t]] = NULL
  /\ pc[t] \in {"pagein", "pageread", "use", "read", "unlock", "finish"} =>
       phy_desc[chunk[t]] = frame[t]
  /\ pc[t] \in {"pagein", "pageread", "use"} => pstatus[frame[t]] = "FREE"
  /\ pc[t] \in {"lock", "write", "zap", "move"} =>
       /\ victim[t] # chunk[t]
       /\ phy_desc[victim[t]] = frame[t]
       /\ pstatus[frame[t]] = "IN_USE"
  /\ pc[t] \in {"lock", "write"} => vstatus[victim[t]] = "IN_MEM"
  /\ pc[t] \in {"zap", "move"} => vstatus[victim[t]] = "IN_SWAP"
  /\ pc[t] \in {"map", "finish"} => vstatus[chunk[t]] = "IN_MEM"

OneOwner ==
  \A c, d \in Chunks : phy_desc[c] = phy_desc[d] /\ phy_desc[c] # NULL => c = d

InMemOwns == \A c \in Chunks : vstatus[c] = "IN_MEM" => phy_desc[c] # NULL

OwnersInMem ==
  \A c \in Chunks : phy_desc[c] # NULL =>
    \/ vstatus[c] = "IN_MEM"
    \/ \E t \in Threads : Filling(t, c) \/ Taking(t, c) \/ Leaving(t, c)

UsedOwned ==
  \A f \in Frames : pstatus[f] = "IN_USE" => \E c \in Chunks : phy_desc[c] = f

FreeUnowned ==
  \A c \in Chunks : phy_desc[c] # NULL /\ pstatus[phy_desc[c]] = "FREE" =>
    \E t \in Threads : Filling(t, c)

(* A mapping has a chunk's tail only with its head, but for the moment     *)
(* between remap_pfn_range and the return of the fault.                    *)
HeadWithTail ==
  \A m \in Vmas, c \in Chunks :
    pte[m][c]["head"] = NULL /\ pte[m][c]["tail"] # NULL =>
      \E t \in Threads : pc[t] = "finish" /\ VmaOf[t] = m /\ chunk[t] = c

Calm ==
  /\ NoBug
  /\ Alone
  /\ \A t \in Threads : FaultState(t)
  /\ OneOwner
  /\ InMemOwns
  /\ OwnersInMem
  /\ UsedOwned
  /\ FreeUnowned
  /\ HeadWithTail

PagingInv == PagingTypes /\ LocalTypes /\ (~raced => Calm)

(* In one process a reset finds no entries (ResetAnyTime is FALSE), and    *)
(* the zapped mapping is the only one with entries.                        *)
OneProcess == \A t, u \in Threads : VmaOf[t] = VmaOf[u]

EntriesInMapped ==
  \A m \in Vmas, c \in Chunks, s \in Sub :
    pte[m][c][s] # NULL => m \in mapped /\ \E t \in Threads : VmaOf[t] = m

VictimUnmapped ==
  \A t \in Threads : pc[t] = "move" =>
    \A m \in Vmas, s \in Sub : pte[m][victim[t]][s] = NULL

Entries == EntriesInMapped /\ PteSound /\ VictimUnmapped

PteInv == PagingInv /\ (~raced => Entries)

(* One thread: no fault can overlap, and a chunk that comes back from the  *)
(* swap device has been read into its frame before it is in memory.        *)
OneThread == \A t, u \in Threads : t = u

Returned ==
  \A t \in Threads :
    pc[t] \in {"use", "unlock"} /\ vstatus[chunk[t]] = "IN_SWAP" =>
      mem[frame[t]] = swap[chunk[t]]

MemoryInv == PteInv /\ ~raced /\ Returned

(* Nothing is swapped out while a frame is free, so a chunk that is read   *)
(* back takes the frame of a victim; the totals count them.                *)
SwapFull ==
  /\ SwappedOut # {} => FreeFrames = {}
  /\ \A t \in Threads :
       /\ pc[t] \in {"lock", "write"} => FreeFrames = {}
       /\ pc[t] \in {"pagein", "pageread", "read"} => vstatus[chunk[t]] = "IN_SWAP"

Totals ==
  /\ total_read \in Nat /\ total_write \in Nat
  /\ total_write = total_read + Cardinality(SwappedOut) - Cardinality(ReadBack)

SwapInv == PteInv /\ ~raced /\ SwapFull /\ Totals
-----------------------------------------------------------------------------

(* A set of numbers has a least one. *)
LEMMA LeastFacts ==
  ASSUME NEW S, S \subseteq Nat, S # {}
  PROVE  \E x \in S : \A y \in S : x <= y
<1>1. PICK x \in S : \A y \in S : ~(<<y, x>> \in OpToRel(<, Nat))
  BY NatLessThanWellFounded, WFMin
<1>2. \A y \in S : y < x => <<y, x>> \in OpToRel(<, Nat)
  <2>1. SUFFICES ASSUME NEW y \in S, y < x
                 PROVE  <<y, x>> \in {ss \in Nat \X Nat : ss[1] < ss[2]}
    BY Zenon DEF OpToRel
  <2>2. <<y, x>> \in Nat \X Nat /\ <<y, x>>[1] = y /\ <<y, x>>[2] = x
    OBVIOUS
  <2>3. QED
    BY <2>1, <2>2
<1>3. \A y \in S : ~(y < x)
  BY <1>1, <1>2, Zenon
<1>4. \A y \in S : x <= y
  BY <1>3
<1>5. QED
  BY <1>4

(* The smallest element that the scans of fill_vpage pick is one of the    *)
(* descriptors scanned.                                                    *)
LEMMA MinFacts ==
  ASSUME NEW S, S \subseteq Nat, S # {}
  PROVE  Min(S) \in S
BY LeastFacts DEF Min

(* A free frame is picked when there is one, a chunk in memory likewise.   *)
LEMMA ScanFacts ==
  /\ FreeFrames # {} => Min(FreeFrames) \in Frames /\ pstatus[Min(FreeFrames)] = "FREE"
  /\ InMem # {} => Min(InMem) \in Chunks /\ vstatus[Min(InMem)] = "IN_MEM"
<1>1. FreeFrames \subseteq Nat /\ InMem \subseteq Nat
  BY PcieAssumption DEF FreeFrames, InMem, Frames, Chunks
<1>2. FreeFrames # {} => Min(FreeFrames) \in FreeFrames
  BY <1>1, MinFacts
<1>3. InMem # {} => Min(InMem) \in InMem
  BY <1>1, MinFacts
<1>4. QED
  BY <1>2, <1>3 DEF FreeFrames, InMem

(* A thread that dies in BUG() changes nothing else. *)
LEMMA DieTypes ==
  ASSUME PagingTypes, NEW t \in Threads, NEW from, Die(t, from)
  PROVE  PagingTypes'
BY DEF PagingTypes, Die, Step, Pcs, desc, counts, store, maps, local, hist

(* A transfer from the swap device leaves memory typed, whatever frame the *)
(* descriptor names by then.                                               *)
LEMMA ReadTypes ==
  ASSUME PagingTypes, LocalTypes, NEW t \in Threads, Faulting(t),
         phy_desc[chunk[t]] # NULL, read_pages(t)
  PROVE  mem' \in [Frames -> Value] /\ UNCHANGED swap
<1>1. chunk[t] \in Chunks
  BY DEF LocalTypes
<1>2. phy_desc[chunk[t]] \in Frames /\ swap[chunk[t]] \in Value
  BY <1>1 DEF PagingTypes
<1>3. QED
  BY <1>2 DEF PagingTypes, read_pages

(* The types of the state, at every step of every fault. *)
LEMMA TypesStep == PagingTypes /\ LocalTypes /\ [Next]_vars => PagingTypes'
<1> SUFFICES ASSUME PagingTypes, LocalTypes, [Next]_vars
             PROVE  PagingTypes'
  OBVIOUS
<1> USE PcieAssumption
<1> USE DEF PagingTypes, desc, counts, store, maps, local, hist
<1>1. ASSUME NEW m \in Vmas, pcieBase_mmap(m) PROVE PagingTypes'
  BY <1>1 DEF pcieBase_mmap
<1>2. ASSUME NEW m \in Vmas, munmap(m) PROVE PagingTypes'
  BY <1>2 DEF munmap, NoPtes
<1>3. CASE pcie_mm_reset
  BY <1>3 DEF pcie_mm_reset
<1>4. ASSUME NEW t \in Threads, NEW c \in Chunks, NEW s \in Sub, UserRead(t, c, s)
      PROVE  PagingTypes'
  BY <1>4 DEF UserRead
<1>5. ASSUME NEW t \in Threads, NEW c \in Chunks, NEW s \in Sub, UserFault(t, c, s)
      PROVE  PagingTypes'
  BY <1>5 DEF UserFault, Step, Pcs
<1>6. ASSUME NEW t \in Threads, NEW c \in Chunks, NEW s \in Sub, NEW v \in Value,
             UserWrite(t, c, s, v)
      PROVE  PagingTypes'
  BY <1>6 DEF UserWrite, Entry
<1>7. ASSUME NEW t \in Threads, FaultCheck(t) PROVE PagingTypes'
  BY <1>7, ZenonT(40) DEF FaultCheck, Step, Die, Pcs
<1>8. ASSUME NEW t \in Threads, FillFree(t) PROVE PagingTypes'
  BY <1>8, ScanFacts DEF FillFree, Step, Pcs
<1>9. ASSUME NEW t \in Threads, FillEvict(t) PROVE PagingTypes'
  <2>1. CASE Die(t, "fill")
    BY <2>1, DieTypes
  <2>2. CASE ~Die(t, "fill")
    <3>1. InMem # {} /\ phy_desc[Min(InMem)] # NULL /\ Min(InMem) \in Chunks
      BY <1>9, <2>2, ScanFacts DEF FillEvict
    <3>2. phy_desc[Min(InMem)] \in Frames
      BY <3>1
    <3>3. /\ pc' = [pc EXCEPT ![t] = "lock"]
          /\ victim' = [victim EXCEPT ![t] = Min(InMem)]
          /\ frame' = [frame EXCEPT ![t] = phy_desc[Min(InMem)]]
          /\ UNCHANGED <<desc, counts, store, maps, chunk, sub, hist>>
      BY <1>9, <2>2 DEF FillEvict, Step
    <3>4. QED
      BY <3>1, <3>2, <3>3 DEF Pcs
  <2>3. QED
    BY <2>1, <2>2
<1>10. ASSUME NEW t \in Threads, PageinLock(t) PROVE PagingTypes'
  BY <1>10 DEF PageinLock, Step, Pcs
<1>11. ASSUME NEW t \in Threads, PageinRead(t) PROVE PagingTypes'
  <2>1. CASE Die(t, "pageread")
    BY <2>1, DieTypes
  <2>2. CASE ~Die(t, "pageread")
    <3>1. Step(t, "pageread", "use") /\ read_pages(t) /\ phy_desc[chunk[t]] # NULL
      BY <1>11, <2>2 DEF PageinRead
    <3>2. mem' \in [Frames -> Value] /\ UNCHANGED swap
      BY <3>1, ReadTypes DEF Step, Faulting
    <3>3. QED
      BY <1>11, <2>2, <3>1, <3>2 DEF PageinRead, Step, Pcs
  <2>3. QED
    BY <2>1, <2>2
<1>12. ASSUME NEW t \in Threads, FillUse(t) PROVE PagingTypes'
  BY <1>12 DEF FillUse, Step, Pcs
<1>13. ASSUME NEW t \in Threads, EvictLock(t) PROVE PagingTypes'
  BY <1>13 DEF EvictLock, Step, Pcs
<1>14. ASSUME NEW t \in Threads, EvictWrite(t) PROVE PagingTypes'
  <2>1. CASE Die(t, "write")
    BY <2>1, DieTypes
  <2>2. CASE ~Die(t, "write")
    <3>1. victim[t] \in Chunks /\ phy_desc[victim[t]] # NULL
      BY <1>14, <2>2 DEF EvictWrite, LocalTypes
    <3>2. phy_desc[victim[t]] \in Frames
      BY <3>1
    <3>3. mem[phy_desc[victim[t]]] \in Value
      BY <3>2
    <3>4. QED
      BY <1>14, <2>2, <3>1, <3>2, <3>3 DEF EvictWrite, Step, Pcs
  <2>3. QED
    BY <2>1, <2>2
<1>15. ASSUME NEW t \in Threads, EvictZap(t) PROVE PagingTypes'
  BY <1>15 DEF EvictZap, Step, Pcs, Sub
<1>16. ASSUME NEW t \in Threads, EvictMove(t) PROVE PagingTypes'
  BY <1>16 DEF EvictMove, LocalTypes, Faulting, Step, Pcs
<1>17. ASSUME NEW t \in Threads, EvictRead(t) PROVE PagingTypes'
  <2>1. CASE Die(t, "read")
    BY <2>1, DieTypes
  <2>2. CASE ~Die(t, "read")
    <3>1. Step(t, "read", "unlock") /\ read_pages(t) /\ phy_desc[chunk[t]] # NULL
      BY <1>17, <2>2 DEF EvictRead
    <3>2. mem' \in [Frames -> Value] /\ UNCHANGED swap
      BY <3>1, ReadTypes DEF Step, Faulting
    <3>3. QED
      BY <1>17, <2>2, <3>1, <3>2 DEF EvictRead, Step, Pcs
  <2>3. QED
    BY <2>1, <2>2
<1>18. ASSUME NEW t \in Threads, EvictUnlock(t) PROVE PagingTypes'
  BY <1>18 DEF EvictUnlock, Step, Pcs
<1>19. ASSUME NEW t \in Threads, FaultMap(t) PROVE PagingTypes'
  <2>1. CASE Die(t, "map")
    BY <2>1, DieTypes
  <2>2. CASE ~Die(t, "map")
    <3>1. chunk[t] \in Chunks /\ phy_desc[chunk[t]] # NULL
      BY <1>19, <2>2 DEF FaultMap, LocalTypes, Faulting, Mappable
    <3>2. phy_desc[chunk[t]] \in Frames
      BY <3>1
    <3>3. pte' = [pte EXCEPT ![VmaOf[t]][chunk[t]]["tail"] = phy_desc[chunk[t]]]
      BY <1>19, <2>2 DEF FaultMap
    <3>4. pte' \in [Vmas -> [Chunks -> [Sub -> Frames \cup {NULL}]]]
      BY <3>1, <3>2, <3>3
    <3>5. QED
      BY <1>19, <2>2, <3>2, <3>4, ZenonT(40) DEF FaultMap, Step, Pcs
  <2>3. QED
    BY <2>1, <2>2
<1>20. ASSUME NEW t \in Threads, FaultFinish(t) PROVE PagingTypes'
  <2>1. chunk[t] \in Chunks /\ sub[t] \in Sub /\ frame[t] \in Frames
    BY <1>20 DEF FaultFinish, LocalTypes, Faulting, Step
  <2>2. [pte EXCEPT ![VmaOf[t]][chunk[t]][sub[t]] = frame[t]]
          \in [Vmas -> [Chunks -> [Sub -> Frames \cup {NULL}]]]
    BY <2>1
  <2>3. pte' \in [Vmas -> [Chunks -> [Sub -> Frames \cup {NULL}]]]
    BY <1>20, <2>2 DEF FaultFinish
  <2>4. QED
    BY <1>20, <2>3 DEF FaultFinish, Step, Pcs
<1>21. CASE UNCHANGED vars
  BY <1>21 DEF vars
<1>22. QED
  BY <1>1, <1>2, <1>3, <1>4, <1>5, <1>6, <1>7, <1>8, <1>9, <1>10, <1>11,
     <1>12, <1>13, <1>14, <1>15, <1>16, <1>17, <1>18, <1>19, <1>20, <1>21
  DEF Next, User, pcieBase_fault

(* A fault has set its locals by the time it uses them. *)
LEMMA LocalStep == PagingTypes /\ LocalTypes /\ [Next]_vars => LocalTypes'
<1> SUFFICES ASSUME PagingTypes, LocalTypes, [Next]_vars
             PROVE  LocalTypes'
  OBVIOUS
<1> USE PcieAssumption DEF PagingTypes, LocalTypes, Faulting, local, maps, hist
<1>1. ASSUME NEW m \in Vmas, pcieBase_mmap(m) PROVE LocalTypes'
  BY <1>1 DEF pcieBase_mmap
<1>2. ASSUME NEW m \in Vmas, munmap(m) PROVE LocalTypes'
  BY <1>2 DEF munmap
<1>3. CASE pcie_mm_reset
  BY <1>3 DEF pcie_mm_reset
<1>4. ASSUME NEW t \in Threads, NEW c \in Chunks, NEW s \in Sub, UserRead(t, c, s)
      PROVE  LocalTypes'
  BY <1>4 DEF UserRead
<1>5. ASSUME NEW t \in Threads, NEW c \in Chunks, NEW s \in Sub, UserFault(t, c, s)
      PROVE  LocalTypes'
  BY <1>5 DEF UserFault, Step
<1>6. ASSUME NEW t \in Threads, NEW c \in Chunks, NEW s \in Sub, NEW v \in Value,
             UserWrite(t, c, s, v)
      PROVE  LocalTypes'
  BY <1>6 DEF UserWrite
<1>7. ASSUME NEW t \in Threads, FaultCheck(t) PROVE LocalTypes'
  <2>1. /\ pc[t] = "fault"
        /\ pc' \in {[pc EXCEPT ![t] = p] : p \in {"dead", "map", "fill"}}
        /\ UNCHANGED <<chunk, sub, frame, victim>>
    BY <1>7 DEF FaultCheck, Step, Die
  <2>2. PICK p \in {"dead", "map", "fill"} : pc' = [pc EXCEPT ![t] = p]
    BY <2>1
  <2>3. QED
    BY <2>1, <2>2
<1>8. ASSUME NEW t \in Threads, FillFree(t) PROVE LocalTypes'
  BY <1>8, ScanFacts DEF FillFree, Step
<1>9. ASSUME NEW t \in Threads, FillEvict(t) PROVE LocalTypes'
  <2>1. CASE Die(t, "fill")
    BY <2>1 DEF Die, Step
  <2>2. CASE ~Die(t, "fill")
    <3>1. InMem # {} /\ phy_desc[Min(InMem)] # NULL /\ Min(InMem) \in Chunks
      BY <1>9, <2>2, ScanFacts DEF FillEvict
    <3>2. phy_desc[Min(InMem)] \in Frames
      BY <3>1
    <3>3. /\ pc[t] = "fill" /\ pc' = [pc EXCEPT ![t] = "lock"]
          /\ victim' = [victim EXCEPT ![t] = Min(InMem)]
          /\ frame' = [frame EXCEPT ![t] = phy_desc[Min(InMem)]]
          /\ UNCHANGED <<chunk, sub>>
      BY <1>9, <2>2 DEF FillEvict, Step
    <3>4. QED
      BY <3>1, <3>2, <3>3
  <2>3. QED
    BY <2>1, <2>2
<1>10. ASSUME NEW t \in Threads, PageinLock(t) PROVE LocalTypes'
  BY <1>10 DEF PageinLock, Step
<1>11. ASSUME NEW t \in Threads, PageinRead(t) PROVE LocalTypes'
  <2>1. /\ pc[t] = "pageread"
        /\ pc' \in {[pc EXCEPT ![t] = p] : p \in {"dead", "use"}}
        /\ UNCHANGED <<chunk, sub, frame, victim>>
    BY <1>11 DEF PageinRead, Step, Die
  <2>2. PICK p \in {"dead", "use"} : pc' = [pc EXCEPT ![t] = p]
    BY <2>1
  <2>3. QED
    BY <2>1, <2>2
<1>12. ASSUME NEW t \in Threads, FillUse(t) PROVE LocalTypes'
  BY <1>12 DEF FillUse, Step
<1>13. ASSUME NEW t \in Threads, EvictLock(t) PROVE LocalTypes'
  BY <1>13 DEF EvictLock, Step
<1>14. ASSUME NEW t \in Threads, EvictWrite(t) PROVE LocalTypes'
  <2>1. /\ pc[t] = "write"
        /\ pc' \in {[pc EXCEPT ![t] = p] : p \in {"dead", "zap"}}
        /\ UNCHANGED <<chunk, sub, frame, victim>>
    BY <1>14 DEF EvictWrite, Step, Die
  <2>2. PICK p \in {"dead", "zap"} : pc' = [pc EXCEPT ![t] = p]
    BY <2>1
  <2>3. QED
    BY <2>1, <2>2
<1>15. ASSUME NEW t \in Threads, EvictZap(t) PROVE LocalTypes'
  BY <1>15 DEF EvictZap, Step
<1>16. ASSUME NEW t \in Threads, EvictMove(t) PROVE LocalTypes'
  BY <1>16 DEF EvictMove, Step
<1>17. ASSUME NEW t \in Threads, EvictRead(t) PROVE LocalTypes'
  <2>1. /\ pc[t] = "read"
        /\ pc' \in {[pc EXCEPT ![t] = p] : p \in {"dead", "unlock"}}
        /\ UNCHANGED <<chunk, sub, frame, victim>>
    BY <1>17 DEF EvictRead, Step, Die
  <2>2. PICK p \in {"dead", "unlock"} : pc' = [pc EXCEPT ![t] = p]
    BY <2>1
  <2>3. QED
    BY <2>1, <2>2
<1>18. ASSUME NEW t \in Threads, EvictUnlock(t) PROVE LocalTypes'
  BY <1>18 DEF EvictUnlock, Step
<1>19. ASSUME NEW t \in Threads, FaultMap(t) PROVE LocalTypes'
  BY <1>19 DEF FaultMap, Step, Die, Mappable
<1>20. ASSUME NEW t \in Threads, FaultFinish(t) PROVE LocalTypes'
  BY <1>20 DEF FaultFinish, Step
<1>21. CASE UNCHANGED vars
  BY <1>21 DEF vars
<1>22. QED
  BY <1>1, <1>2, <1>3, <1>4, <1>5, <1>6, <1>7, <1>8, <1>9, <1>10, <1>11,
     <1>12, <1>13, <1>14, <1>15, <1>16, <1>17, <1>18, <1>19, <1>20, <1>21
  DEF Next, User, pcieBase_fault
-----------------------------------------------------------------------------
(* While the faults are calm, the other threads are at user code.          *)
LEMMA OthersAtUser ==
  ASSUME PagingTypes, Calm, NEW t \in Threads, Faulting(t), NEW x,
         pc' = [pc EXCEPT ![t] = x]
  PROVE  /\ pc'[t] = x
         /\ \A u \in Threads : u # t => pc[u] = "user" /\ pc'[u] = "user"
BY DEF PagingTypes, Calm, Alone, NoBug, Faulting

(* So the fault of t is the only one that may have a chunk in transit.     *)
LEMMA OwnersHere ==
  ASSUME Calm, NEW t \in Threads,
         \A u \in Threads : u # t => pc[u] = "user"
  PROVE  /\ \A c \in Chunks : phy_desc[c] # NULL =>
              \/ vstatus[c] = "IN_MEM"
              \/ Filling(t, c) \/ Taking(t, c) \/ Leaving(t, c)
         /\ \A c \in Chunks : phy_desc[c] # NULL /\ pstatus[phy_desc[c]] = "FREE" =>
              Filling(t, c)
<1>1. \A u \in Threads, c \in Chunks :
        Filling(u, c) \/ Taking(u, c) \/ Leaving(u, c) => u = t
  BY DEF Filling, Taking, Leaving
<1>2. OwnersInMem /\ FreeUnowned
  BY DEF Calm
<1>3. QED
  BY <1>1, <1>2 DEF OwnersInMem, FreeUnowned

(* FaultCheck while the faults are calm: what it finds and what it does. *)
LEMMA FaultCheckEffect ==
  ASSUME PagingTypes, LocalTypes, Calm, NEW t \in Threads, FaultCheck(t)
  PROVE  /\ pc[t] = "fault" /\ Faulting(t) /\ FaultState(t)
         /\ chunk[t] \in Chunks /\ VmaOf[t] \in Vmas
         /\ pc' \in {[pc EXCEPT ![t] = p] : p \in {"map", "fill"}}
         /\ UNCHANGED <<vstatus, phy_desc, pstatus, mapped, pte, chunk, sub, frame, victim>>
         /\ pc'[t] = "map" => vstatus[chunk[t]] = "IN_MEM"
         /\ pc'[t] = "fill" => vstatus[chunk[t]] # "IN_MEM" /\ phy_desc[chunk[t]] = NULL
         /\ UNCHANGED <<total_read, total_write, mem, swap, last, raced>>
<1>1. pc[t] = "fault" /\ Faulting(t) /\ FaultState(t)
  BY DEF FaultCheck, Step, Faulting, Calm
<1>2. chunk[t] \in Chunks /\ VmaOf[t] \in Vmas
  BY <1>1, PcieAssumption DEF LocalTypes
<1>3. vstatus[chunk[t]] = "IN_MEM" \/ phy_desc[chunk[t]] = NULL
  BY <1>1 DEF Calm, OwnersInMem, Alone, Faulting, Filling, Taking, Leaving, LocalTypes
<1>4. QED
  BY <1>1, <1>2, <1>3
  DEF FaultCheck, Step, desc, maps, local, store, counts, hist, PagingTypes, Die

(* FaultCheck keeps the faults calm. *)
LEMMA FaultCheckCalm ==
  ASSUME PagingTypes, LocalTypes, Calm, PagingTypes', NEW t \in Threads, FaultCheck(t)
  PROVE  Calm'
<1>1. pc[t] = "fault" /\ Faulting(t)
  BY FaultCheckEffect
<1>2. chunk[t] \in Chunks /\ VmaOf[t] \in Vmas
  BY FaultCheckEffect
<1>3. /\ pc' \in {[pc EXCEPT ![t] = p] : p \in {"map", "fill"}}
      /\ UNCHANGED <<vstatus, phy_desc, pstatus, mapped, pte, chunk, sub, frame, victim>>
      /\ pc'[t] = "map" => vstatus[chunk[t]] = "IN_MEM"
      /\ pc'[t] = "fill" => vstatus[chunk[t]] # "IN_MEM" /\ phy_desc[chunk[t]] = NULL
  BY FaultCheckEffect
<1>4. PICK p \in {"map", "fill"} : pc' = [pc EXCEPT ![t] = p]
  BY <1>3
<1>5. /\ pc'[t] \in {"map", "fill"}
      /\ \A u \in Threads : u # t => pc[u] = "user" /\ pc'[u] = "user"
  BY <1>1, <1>4, OthersAtUser
<1>6. FaultState(t) /\ Faulting(t)
  BY <1>1 DEF Calm
<1>7. /\ \A c \in Chunks : phy_desc[c] # NULL =>
           \/ vstatus[c] = "IN_MEM"
           \/ Filling(t, c) \/ Taking(t, c) \/ Leaving(t, c)
      /\ \A c \in Chunks : phy_desc[c] # NULL /\ pstatus[phy_desc[c]] = "FREE" =>
           Filling(t, c)
  BY <1>5, OwnersHere
<1>8. NoBug'
  BY <1>1, <1>2, <1>3, <1>5, <1>6, <1>7
  DEF NoBug
<1>9. Alone'
  BY <1>1, <1>2, <1>3, <1>5, <1>6, <1>7
  DEF Alone, Faulting
<1>10. \A u \in Threads : FaultState(u)'
  BY <1>1, <1>2, <1>3, <1>5, <1>6, <1>7, PcieAssumption
  DEF FaultState, Faulting, Entry, LocalTypes, PagingTypes, Calm
<1>11. OneOwner'
  BY <1>1, <1>2, <1>3, <1>5, <1>6, <1>7, PcieAssumption
  DEF OneOwner, Calm, Filling, FaultState, PagingTypes, LocalTypes, Faulting
<1>12. InMemOwns'
  BY <1>1, <1>2, <1>3, <1>5, <1>6, <1>7, PcieAssumption
  DEF InMemOwns, Calm, FaultState, PagingTypes, LocalTypes, Faulting
<1>13. OwnersInMem'
  <2>1. \A c \in Chunks : phy_desc'[c] # NULL =>
          \/ vstatus'[c] = "IN_MEM"
          \/ Filling(t, c)' \/ Taking(t, c)' \/ Leaving(t, c)'
    BY <1>1, <1>2, <1>3, <1>5, <1>6, <1>7
    DEF FaultState, Filling, Taking, Leaving, PagingTypes, LocalTypes
  <2>2. QED
    BY <2>1 DEF OwnersInMem
<1>14. UsedOwned'
  BY <1>1, <1>2, <1>3, <1>5, <1>6, <1>7, PcieAssumption
  DEF UsedOwned, Calm, FaultState, PagingTypes, LocalTypes, Faulting
<1>15. FreeUnowned'
  <2>1. \A c \in Chunks :
          phy_desc'[c] # NULL /\ pstatus'[phy_desc'[c]] = "FREE" => Filling(t, c)'
    BY <1>1, <1>2, <1>3, <1>5, <1>6, <1>7
    DEF FaultState, Filling, PagingTypes, LocalTypes
  <2>2. QED
    BY <2>1 DEF FreeUnowned
<1>16. HeadWithTail'
  BY <1>1, <1>2, <1>3, <1>5, <1>6, <1>7, PcieAssumption
  DEF HeadWithTail, Calm, PagingTypes, Sub
<1>17. QED
  BY <1>8, <1>9, <1>10, <1>11, <1>12, <1>13, <1>14, <1>15, <1>16 DEF Calm

(* FillFree while the faults are calm: what it finds and what it does. *)
LEMMA FillFreeEffect ==
  ASSUME PagingTypes, LocalTypes, Calm, NEW t \in Threads, FillFree(t)
  PROVE  /\ pc[t] = "fill" /\ Faulting(t) /\ FaultState(t)
         /\ chunk[t] \in Chunks /\ VmaOf[t] \in Vmas
         /\ pc' \in {[pc EXCEPT ![t] = p] : p \in {"pagein", "use"}}
         /\ frame' = [frame EXCEPT ![t] = Min(FreeFrames)]
         /\ phy_desc' = [phy_desc EXCEPT ![chunk[t]] = Min(FreeFrames)]
         /\ UNCHANGED <<vstatus, pstatus, mapped, pte, chunk, sub, victim>>
         /\ Min(FreeFrames) \in Frames
         /\ pstatus[Min(FreeFrames)] = "FREE"
         /\ pc'[t] = "use" <=> vstatus[chunk[t]] # "IN_SWAP"
         /\ UNCHANGED <<total_read, total_write, mem, swap, last, raced>>
<1>1. pc[t] = "fill" /\ Faulting(t) /\ FaultState(t)
  BY DEF FillFree, Step, Faulting, Calm
<1>2. chunk[t] \in Chunks /\ VmaOf[t] \in Vmas
  BY <1>1, PcieAssumption DEF LocalTypes
<1>3. QED
  BY <1>1, <1>2, ScanFacts
  DEF FillFree, Step, desc, maps, local, store, counts, hist, PagingTypes

(* FillFree keeps the faults calm. *)
LEMMA FillFreeCalm ==
  ASSUME PagingTypes, LocalTypes, Calm, PagingTypes', NEW t \in Threads, FillFree(t)
  PROVE  Calm'
<1>1. pc[t] = "fill" /\ Faulting(t)
  BY FillFreeEffect
<1>2. chunk[t] \in Chunks /\ VmaOf[t] \in Vmas
  BY FillFreeEffect
<1>3. /\ pc' \in {[pc EXCEPT ![t] = p] : p \in {"pagein", "use"}}
      /\ frame' = [frame EXCEPT ![t] = Min(FreeFrames)]
      /\ phy_desc' = [phy_desc EXCEPT ![chunk[t]] = Min(FreeFrames)]
      /\ UNCHANGED <<vstatus, pstatus, mapped, pte, chunk, sub, victim>>
      /\ Min(FreeFrames) \in Frames
      /\ pstatus[Min(FreeFrames)] = "FREE"
  BY FillFreeEffect
<1>4. PICK p \in {"pagein", "use"} : pc' = [pc EXCEPT ![t] = p]
  BY <1>3
<1>5. /\ pc'[t] \in {"pagein", "use"}
      /\ \A u \in Threads : u # t => pc[u] = "user" /\ pc'[u] = "user"
  BY <1>1, <1>4, OthersAtUser
<1>6. FaultState(t) /\ Faulting(t)
  BY <1>1 DEF Calm
<1>7. /\ \A c \in Chunks : phy_desc[c] # NULL =>
           \/ vstatus[c] = "IN_MEM"
           \/ Filling(t, c) \/ Taking(t, c) \/ Leaving(t, c)
      /\ \A c \in Chunks : phy_desc[c] # NULL /\ pstatus[phy_desc[c]] = "FREE" =>
           Filling(t, c)
  BY <1>5, OwnersHere
<1>8. NoBug'
  BY <1>1, <1>2, <1>3, <1>5, <1>6, <1>7
  DEF NoBug
<1>9. Alone'
  BY <1>1, <1>2, <1>3, <1>5, <1>6, <1>7
  DEF Alone, Faulting
<1>10. \A u \in Threads : FaultState(u)'
  BY <1>1, <1>2, <1>3, <1>5, <1>6, <1>7, PcieAssumption
  DEF FaultState, Faulting, Entry, LocalTypes, PagingTypes, Calm
<1>11. OneOwner'
  BY <1>1, <1>2, <1>3, <1>5, <1>6, <1>7, PcieAssumption
  DEF OneOwner, Calm, Filling, FaultState, PagingTypes, LocalTypes, Faulting
<1>12. InMemOwns'
  BY <1>1, <1>2, <1>3, <1>5, <1>6, <1>7, PcieAssumption
  DEF InMemOwns, Calm, FaultState, PagingTypes, LocalTypes, Faulting
<1>13. OwnersInMem'
  <2>1. \A c \in Chunks : phy_desc'[c] # NULL =>
          \/ vstatus'[c] = "IN_MEM"
          \/ Filling(t, c)' \/ Taking(t, c)' \/ Leaving(t, c)'
    BY <1>1, <1>2, <1>3, <1>5, <1>6, <1>7
    DEF FaultState, Filling, Taking, Leaving, PagingTypes, LocalTypes
  <2>2. QED
    BY <2>1 DEF OwnersInMem
<1>14. UsedOwned'
  BY <1>1, <1>2, <1>3, <1>5, <1>6, <1>7, PcieAssumption
  DEF UsedOwned, Calm, FaultState, PagingTypes, LocalTypes, Faulting
<1>15. FreeUnowned'
  <2>1. \A c \in Chunks :
          phy_desc'[c] # NULL /\ pstatus'[phy_desc'[c]] = "FREE" => Filling(t, c)'
    BY <1>1, <1>2, <1>3, <1>5, <1>6, <1>7
    DEF FaultState, Filling, PagingTypes, LocalTypes
  <2>2. QED
    BY <2>1 DEF FreeUnowned
<1>16. HeadWithTail'
  BY <1>1, <1>2, <1>3, <1>5, <1>6, <1>7, PcieAssumption
  DEF HeadWithTail, Calm, PagingTypes, Sub
<1>17. QED
  BY <1>8, <1>9, <1>10, <1>11, <1>12, <1>13, <1>14, <1>15, <1>16 DEF Calm

(* FillEvict while the faults are calm: what it finds and what it does. *)
LEMMA FillEvictEffect ==
  ASSUME PagingTypes, LocalTypes, Calm, NEW t \in Threads, FillEvict(t)
  PROVE  /\ pc[t] = "fill" /\ Faulting(t) /\ FaultState(t)
         /\ chunk[t] \in Chunks /\ VmaOf[t] \in Vmas
         /\ pc' = [pc EXCEPT ![t] = "lock"]
         /\ victim' = [victim EXCEPT ![t] = Min(InMem)]
         /\ frame' = [frame EXCEPT ![t] = phy_desc[Min(InMem)]]
         /\ UNCHANGED <<vstatus, phy_desc, pstatus, mapped, pte, chunk, sub>>
         /\ Min(InMem) \in Chunks
         /\ vstatus[Min(InMem)] = "IN_MEM"
         /\ phy_desc[Min(InMem)] # NULL
         /\ \A f \in Frames : pstatus[f] = "IN_USE"
         /\ UNCHANGED <<total_read, total_write, mem, swap, last, raced>>
<1>1. pc[t] = "fill" /\ Faulting(t) /\ FaultState(t)
  BY DEF FillEvict, Step, Faulting, Calm
<1>2. chunk[t] \in Chunks /\ VmaOf[t] \in Vmas
  BY <1>1, PcieAssumption DEF LocalTypes
<1>3. InMem # {} /\ phy_desc[Min(InMem)] # NULL
  <2>1. PICK c \in Chunks : phy_desc[c] = 0
    <3>1. 0 \in Frames
      BY PcieAssumption DEF Frames
    <3>2. pstatus[0] = "IN_USE"
      BY <3>1 DEF FillEvict, FreeFrames, PagingTypes
    <3>3. QED
      BY <3>1, <3>2 DEF Calm, UsedOwned
  <2>2. phy_desc[c] # NULL
    <3>1. 0 \in Frames
      BY PcieAssumption DEF Frames
    <3>2. QED
      BY <2>1, <3>1, PcieAssumption
  <2>3. vstatus[c] = "IN_MEM"
    BY <1>1, <2>2 DEF Calm, OwnersInMem, Alone, Faulting, Filling, Taking, Leaving
  <2>4. InMem # {}
    BY <2>3 DEF InMem
  <2>5. QED
    BY <2>4, ScanFacts DEF Calm, InMemOwns
<1>4. QED
  BY <1>1, <1>2, <1>3, ScanFacts
  DEF FillEvict, Step, desc, maps, local, store, counts, hist, PagingTypes, Die,
     FreeFrames

(* FillEvict keeps the faults calm. *)
LEMMA FillEvictCalm ==
  ASSUME PagingTypes, LocalTypes, Calm, PagingTypes', NEW t \in Threads, FillEvict(t)
  PROVE  Calm'
<1>1. pc[t] = "fill" /\ Faulting(t)
  BY FillEvictEffect
<1>2. chunk[t] \in Chunks /\ VmaOf[t] \in Vmas
  BY FillEvictEffect
<1>3. /\ pc' = [pc EXCEPT ![t] = "lock"]
      /\ victim' = [victim EXCEPT ![t] = Min(InMem)]
      /\ frame' = [frame EXCEPT ![t] = phy_desc[Min(InMem)]]
      /\ UNCHANGED <<vstatus, phy_desc, pstatus, mapped, pte, chunk, sub>>
      /\ Min(InMem) \in Chunks
      /\ vstatus[Min(InMem)] = "IN_MEM"
      /\ phy_desc[Min(InMem)] # NULL
      /\ \A f \in Frames : pstatus[f] = "IN_USE"
  BY FillEvictEffect
<1>4. pc' = [pc EXCEPT ![t] = "lock"]
  BY <1>3
<1>5. /\ pc'[t] \in {"lock"}
      /\ \A u \in Threads : u # t => pc[u] = "user" /\ pc'[u] = "user"
  BY <1>1, <1>4, OthersAtUser
<1>6. FaultState(t) /\ Faulting(t)
  BY <1>1 DEF Calm
<1>7. /\ \A c \in Chunks : phy_desc[c] # NULL =>
           \/ vstatus[c] = "IN_MEM"
           \/ Filling(t, c) \/ Taking(t, c) \/ Leaving(t, c)
      /\ \A c \in Chunks : phy_desc[c] # NULL /\ pstatus[phy_desc[c]] = "FREE" =>
           Filling(t, c)
  BY <1>5, OwnersHere
<1>8. NoBug'
  BY <1>1, <1>2, <1>3, <1>5, <1>6, <1>7
  DEF NoBug
<1>9. Alone'
  BY <1>1, <1>2, <1>3, <1>5, <1>6, <1>7
  DEF Alone, Faulting
<1>10. \A u \in Threads : FaultState(u)'
  BY <1>1, <1>2, <1>3, <1>5, <1>6, <1>7, PcieAssumption
  DEF FaultState, Faulting, Entry, LocalTypes, PagingTypes, Calm
<1>11. OneOwner'
  BY <1>1, <1>2, <1>3, <1>5, <1>6, <1>7, PcieAssumption
  DEF OneOwner, Calm, Filling, FaultState, PagingTypes, LocalTypes, Faulting
<1>12. InMemOwns'
  BY <1>1, <1>2, <1>3, <1>5, <1>6, <1>7, PcieAssumption
  DEF InMemOwns, Calm, FaultState, PagingTypes, LocalTypes, Faulting
<1>13. OwnersInMem'
  <2>1. \A c \in Chunks : phy_desc'[c] # NULL =>
          \/ vstatus'[c] = "IN_MEM"
          \/ Filling(t, c)' \/ Taking(t, c)' \/ Leaving(t, c)'
    BY <1>1, <1>2, <1>3, <1>5, <1>6, <1>7
    DEF FaultState, Filling, Taking, Leaving, PagingTypes, LocalTypes
  <2>2. QED
    BY <2>1 DEF OwnersInMem
<1>14. UsedOwned'
  BY <1>1, <1>2, <1>3, <1>5, <1>6, <1>7, PcieAssumption
  DEF UsedOwned, Calm, FaultState, PagingTypes, LocalTypes, Faulting
<1>15. FreeUnowned'
  <2>1. \A c \in Chunks :
          phy_desc'[c] # NULL /\ pstatus'[phy_desc'[c]] = "FREE" => Filling(t, c)'
    BY <1>1, <1>2, <1>3, <1>5, <1>6, <1>7
    DEF FaultState, Filling, PagingTypes, LocalTypes
  <2>2. QED
    BY <2>1 DEF FreeUnowned
<1>16. HeadWithTail'
  BY <1>1, <1>2, <1>3, <1>5, <1>6, <1>7, PcieAssumption
  DEF HeadWithTail, Calm, PagingTypes, Sub
<1>17. QED
  BY <1>8, <1>9, <1>10, <1>11, <1>12, <1>13, <1>14, <1>15, <1>16 DEF Calm

(* PageinLock while the faults are calm: what it finds and what it does. *)
LEMMA PageinLockEffect ==
  ASSUME PagingTypes, LocalTypes, Calm, NEW t \in Threads, PageinLock(t)
  PROVE  /\ pc[t] = "pagein" /\ Faulting(t) /\ FaultState(t)
         /\ chunk[t] \in Chunks /\ VmaOf[t] \in Vmas
         /\ pc' = [pc EXCEPT ![t] = "pageread"]
         /\ UNCHANGED <<vstatus, phy_desc, pstatus, mapped, pte, chunk, sub, frame, victim>>
         /\ UNCHANGED <<total_read, total_write, mem, swap, last, raced>>
<1>1. pc[t] = "pagein" /\ Faulting(t) /\ FaultState(t)
  BY DEF PageinLock, Step, Faulting, Calm
<1>2. chunk[t] \in Chunks /\ VmaOf[t] \in Vmas
  BY <1>1, PcieAssumption DEF LocalTypes
<1>3. QED
  BY <1>1, <1>2
  DEF PageinLock, Step, desc, maps, local, store, counts, hist, PagingTypes

(* PageinLock keeps the faults calm. *)
LEMMA PageinLockCalm ==
  ASSUME PagingTypes, LocalTypes, Calm, PagingTypes', NEW t \in Threads, PageinLock(t)
  PROVE  Calm'
<1>1. pc[t] = "pagein" /\ Faulting(t)
  BY PageinLockEffect
<1>2. chunk[t] \in Chunks /\ VmaOf[t] \in Vmas
  BY PageinLockEffect
<1>3. /\ pc' = [pc EXCEPT ![t] = "pageread"]
      /\ UNCHANGED <<vstatus, phy_desc, pstatus, mapped, pte, chunk, sub, frame, victim>>
  BY PageinLockEffect
<1>4. pc' = [pc EXCEPT ![t] = "pageread"]
  BY <1>3
<1>5. /\ pc'[t] \in {"pageread"}
      /\ \A u \in Threads : u # t => pc[u] = "user" /\ pc'[u] = "user"
  BY <1>1, <1>4, OthersAtUser
<1>6. FaultState(t) /\ Faulting(t)
  BY <1>1 DEF Calm
<1>7. /\ \A c \in Chunks : phy_desc[c] # NULL =>
           \/ vstatus[c] = "IN_MEM"
           \/ Filling(t, c) \/ Taking(t, c) \/ Leaving(t, c)
      /\ \A c \in Chunks : phy_desc[c] # NULL /\ pstatus[phy_desc[c]] = "FREE" =>
           Filling(t, c)
  BY <1>5, OwnersHere
<1>8. NoBug'
  BY <1>1, <1>2, <1>3, <1>5, <1>6, <1>7
  DEF NoBug
<1>9. Alone'
  BY <1>1, <1>2, <1>3, <1>5, <1>6, <1>7
  DEF Alone, Faulting
<1>10. \A u \in Threads : FaultState(u)'
  BY <1>1, <1>2, <1>3, <1>5, <1>6, <1>7, PcieAssumption
  DEF FaultState, Faulting, Entry, LocalTypes, PagingTypes, Calm
<1>11. OneOwner'
  BY <1>1, <1>2, <1>3, <1>5, <1>6, <1>7, PcieAssumption
  DEF OneOwner, Calm, Filling, FaultState, PagingTypes, LocalTypes, Faulting
<1>12. InMemOwns'
  BY <1>1, <1>2, <1>3, <1>5, <1>6, <1>7, PcieAssumption
  DEF InMemOwns, Calm, FaultState, PagingTypes, LocalTypes, Faulting
<1>13. OwnersInMem'
  <2>1. \A c \in Chunks : phy_desc'[c] # NULL =>
          \/ vstatus'[c] = "IN_MEM"
          \/ Filling(t, c)' \/ Taking(t, c)' \/ Leaving(t, c)'
    BY <1>1, <1>2, <1>3, <1>5, <1>6, <1>7
    DEF FaultState, Filling, Taking, Leaving, PagingTypes, LocalTypes
  <2>2. QED
    BY <2>1 DEF OwnersInMem
<1>14. UsedOwned'
  BY <1>1, <1>2, <1>3, <1>5, <1>6, <1>7, PcieAssumption
  DEF UsedOwned, Calm, FaultState, PagingTypes, LocalTypes, Faulting
<1>15. FreeUnowned'
  <2>1. \A c \in Chunks :
          phy_desc'[c] # NULL /\ pstatus'[phy_desc'[c]] = "FREE" => Filling(t, c)'
    BY <1>1, <1>2, <1>3, <1>5, <1>6, <1>7
    DEF FaultState, Filling, PagingTypes, LocalTypes
  <2>2. QED
    BY <2>1 DEF FreeUnowned
<1>16. HeadWithTail'
  BY <1>1, <1>2, <1>3, <1>5, <1>6, <1>7, PcieAssumption
  DEF HeadWithTail, Calm, PagingTypes, Sub
<1>17. QED
  BY <1>8, <1>9, <1>10, <1>11, <1>12, <1>13, <1>14, <1>15, <1>16 DEF Calm

(* PageinRead while the faults are calm: what it finds and what it does. *)
LEMMA PageinReadEffect ==
  ASSUME PagingTypes, LocalTypes, Calm, NEW t \in Threads, PageinRead(t)
  PROVE  /\ pc[t] = "pageread" /\ Faulting(t) /\ FaultState(t)
         /\ chunk[t] \in Chunks /\ VmaOf[t] \in Vmas
         /\ pc' = [pc EXCEPT ![t] = "use"]
         /\ UNCHANGED <<vstatus, phy_desc, pstatus, mapped, pte, chunk, sub, frame, victim>>
         /\ ~IoMayFail => mem' = [mem EXCEPT ![frame[t]] = swap[chunk[t]]]
         /\ total_read' = total_read + 1
         /\ UNCHANGED <<total_write, swap, last, raced>>
<1>1. pc[t] = "pageread" /\ Faulting(t) /\ FaultState(t)
  BY DEF PageinRead, Step, Faulting, Calm
<1>2. chunk[t] \in Chunks /\ VmaOf[t] \in Vmas
  BY <1>1, PcieAssumption DEF LocalTypes
<1>3. phy_desc[chunk[t]] # NULL
  BY <1>1, PcieAssumption DEF Calm, FaultState, LocalTypes, Faulting
<1>4. QED
  BY <1>1, <1>2, <1>3
  DEF PageinRead, Step, desc, maps, local, store, counts, hist, PagingTypes,
     read_pages, FaultState, Die

(* PageinRead keeps the faults calm. *)
LEMMA PageinReadCalm ==
  ASSUME PagingTypes, LocalTypes, Calm, PagingTypes', NEW t \in Threads, PageinRead(t)
  PROVE  Calm'
<1>1. pc[t] = "pageread" /\ Faulting(t)
  BY PageinReadEffect
<1>2. chunk[t] \in Chunks /\ VmaOf[t] \in Vmas
  BY PageinReadEffect
<1>3. /\ pc' = [pc EXCEPT ![t] = "use"]
      /\ UNCHANGED <<vstatus, phy_desc, pstatus, mapped, pte, chunk, sub, frame, victim>>
  BY PageinReadEffect
<1>4. pc' = [pc EXCEPT ![t] = "use"]
  BY <1>3
<1>5. /\ pc'[t] \in {"use"}
      /\ \A u \in Threads : u # t => pc[u] = "user" /\ pc'[u] = "user"
  BY <1>1, <1>4, OthersAtUser
<1>6. FaultState(t) /\ Faulting(t)
  BY <1>1 DEF Calm
<1>7. /\ \A c \in Chunks : phy_desc[c] # NULL =>
           \/ vstatus[c] = "IN_MEM"
           \/ Filling(t, c) \/ Taking(t, c) \/ Leaving(t, c)
      /\ \A c \in Chunks : phy_desc[c] # NULL /\ pstatus[phy_desc[c]] = "FREE" =>
           Filling(t, c)
  BY <1>5, OwnersHere
<1>8. NoBug'
  BY <1>1, <1>2, <1>3, <1>5, <1>6, <1>7
  DEF NoBug
<1>9. Alone'
  BY <1>1, <1>2, <1>3, <1>5, <1>6, <1>7
  DEF Alone, Faulting
<1>10. \A u \in Threads : FaultState(u)'
  BY <1>1, <1>2, <1>3, <1>5, <1>6, <1>7, PcieAssumption
  DEF FaultState, Faulting, Entry, LocalTypes, PagingTypes, Calm
<1>11. OneOwner'
  BY <1>1, <1>2, <1>3, <1>5, <1>6, <1>7, PcieAssumption
  DEF OneOwner, Calm, Filling, FaultState, PagingTypes, LocalTypes, Faulting
<1>12. InMemOwns'
  BY <1>1, <1>2, <1>3, <1>5, <1>6, <1>7, PcieAssumption
  DEF InMemOwns, Calm, FaultState, PagingTypes, LocalTypes, Faulting
<1>13. OwnersInMem'
  <2>1. \A c \in Chunks : phy_desc'[c] # NULL =>
          \/ vstatus'[c] = "IN_MEM"
          \/ Filling(t, c)' \/ Taking(t, c)' \/ Leaving(t, c)'
    BY <1>1, <1>2, <1>3, <1>5, <1>6, <1>7
    DEF FaultState, Filling, Taking, Leaving, PagingTypes, LocalTypes
  <2>2. QED
    BY <2>1 DEF OwnersInMem
<1>14. UsedOwned'
  BY <1>1, <1>2, <1>3, <1>5, <1>6, <1>7, PcieAssumption
  DEF UsedOwned, Calm, FaultState, PagingTypes, LocalTypes, Faulting
<1>15. FreeUnowned'
  <2>1. \A c \in Chunks :
          phy_desc'[c] # NULL /\ pstatus'[phy_desc'[c]] = "FREE" => Filling(t, c)'
    BY <1>1, <1>2, <1>3, <1>5, <1>6, <1>7
    DEF FaultState, Filling, PagingTypes, LocalTypes
  <2>2. QED
    BY <2>1 DEF FreeUnowned
<1>16. HeadWithTail'
  BY <1>1, <1>2, <1>3, <1>5, <1>6, <1>7, PcieAssumption
  DEF HeadWithTail, Calm, PagingTypes, Sub
<1>17. QED
  BY <1>8, <1>9, <1>10, <1>11, <1>12, <1>13, <1>14, <1>15, <1>16 DEF Calm

(* FillUse while the faults are calm: what it finds and what it does. *)
LEMMA FillUseEffect ==
  ASSUME PagingTypes, LocalTypes, Calm, NEW t \in Threads, FillUse(t)
  PROVE  /\ pc[t] = "use" /\ Faulting(t) /\ FaultState(t)
         /\ chunk[t] \in Chunks /\ VmaOf[t] \in Vmas
         /\ pc' = [pc EXCEPT ![t] = "map"]
         /\ pstatus' = [pstatus EXCEPT ![frame[t]] = "IN_USE"]
         /\ vstatus' = [vstatus EXCEPT ![chunk[t]] = "IN_MEM"]
         /\ UNCHANGED <<phy_desc, mapped, pte, chunk, sub, frame, victim>>
         /\ UNCHANGED <<total_read, total_write, mem, swap, last, raced>>
<1>1. pc[t] = "use" /\ Faulting(t) /\ FaultState(t)
  BY DEF FillUse, Step, Faulting, Calm
<1>2. chunk[t] \in Chunks /\ VmaOf[t] \in Vmas
  BY <1>1, PcieAssumption DEF LocalTypes
<1>3. QED
  BY <1>1, <1>2 DEF FillUse, Step, desc, maps, local, store, counts, hist, PagingTypes

(* FillUse keeps the faults calm. *)
LEMMA FillUseCalm ==
  ASSUME PagingTypes, LocalTypes, Calm, PagingTypes', NEW t \in Threads, FillUse(t)
  PROVE  Calm'
<1>1. pc[t] = "use" /\ Faulting(t)
  BY FillUseEffect
<1>2. chunk[t] \in Chunks /\ VmaOf[t] \in Vmas
  BY FillUseEffect
<1>3. /\ pc' = [pc EXCEPT ![t] = "map"]
      /\ pstatus' = [pstatus EXCEPT ![frame[t]] = "IN_USE"]
      /\ vstatus' = [vstatus EXCEPT ![chunk[t]] = "IN_MEM"]
      /\ UNCHANGED <<phy_desc, mapped, pte, chunk, sub, frame, victim>>
  BY FillUseEffect
<1>4. pc' = [pc EXCEPT ![t] = "map"]
  BY <1>3
<1>5. /\ pc'[t] \in {"map"}
      /\ \A u \in Threads : u # t => pc[u] = "user" /\ pc'[u] = "user"
  BY <1>1, <1>4, OthersAtUser
<1>6. FaultState(t) /\ Faulting(t)
  BY <1>1 DEF Calm
<1>7. /\ \A c \in Chunks : phy_desc[c] # NULL =>
           \/ vstatus[c] = "IN_MEM"
           \/ Filling(t, c) \/ Taking(t, c) \/ Leaving(t, c)
      /\ \A c \in Chunks : phy_desc[c] # NULL /\ pstatus[phy_desc[c]] = "FREE" =>
           Filling(t, c)
  BY <1>5, OwnersHere
<1>8. NoBug'
  BY <1>1, <1>2, <1>3, <1>5, <1>6, <1>7
  DEF NoBug
<1>9. Alone'
  BY <1>1, <1>2, <1>3, <1>5, <1>6, <1>7
  DEF Alone, Faulting
<1>10. \A u \in Threads : FaultState(u)'
  BY <1>1, <1>2, <1>3, <1>5, <1>6, <1>7, PcieAssumption
  DEF FaultState, Faulting, Entry, LocalTypes, PagingTypes, Calm
<1>11. OneOwner'
  BY <1>1, <1>2, <1>3, <1>5, <1>6, <1>7, PcieAssumption
  DEF OneOwner, Calm, Filling, FaultState, PagingTypes, LocalTypes, Faulting
<1>12. InMemOwns'
  BY <1>1, <1>2, <1>3, <1>5, <1>6, <1>7, PcieAssumption
  DEF InMemOwns, Calm, FaultState, PagingTypes, LocalTypes, Faulting
<1>13. OwnersInMem'
  <2>1. \A c \in Chunks : phy_desc'[c] # NULL =>
          \/ vstatus'[c] = "IN_MEM"
          \/ Filling(t, c)' \/ Taking(t, c)' \/ Leaving(t, c)'
    BY <1>1, <1>2, <1>3, <1>5, <1>6, <1>7
    DEF FaultState, Filling, Taking, Leaving, PagingTypes, LocalTypes
  <2>2. QED
    BY <2>1 DEF OwnersInMem
<1>14. UsedOwned'
  BY <1>1, <1>2, <1>3, <1>5, <1>6, <1>7, PcieAssumption
  DEF UsedOwned, Calm, FaultState, PagingTypes, LocalTypes, Faulting
<1>15. FreeUnowned'
  <2>1. \A c \in Chunks :
          phy_desc'[c] # NULL /\ pstatus'[phy_desc'[c]] = "FREE" => Filling(t, c)'
    BY <1>1, <1>2, <1>3, <1>5, <1>6, <1>7
    DEF FaultState, Filling, PagingTypes, LocalTypes
  <2>2. QED
    BY <2>1 DEF FreeUnowned
<1>16. HeadWithTail'
  BY <1>1, <1>2, <1>3, <1>5, <1>6, <1>7, PcieAssumption
  DEF HeadWithTail, Calm, PagingTypes, Sub
<1>17. QED
  BY <1>8, <1>9, <1>10, <1>11, <1>12, <1>13, <1>14, <1>15, <1>16 DEF Calm

(* EvictLock while the faults are calm: what it finds and what it does. *)
LEMMA EvictLockEffect ==
  ASSUME PagingTypes, LocalTypes, Calm, NEW t \in Threads, EvictLock(t)
  PROVE  /\ pc[t] = "lock" /\ Faulting(t) /\ FaultState(t)
         /\ chunk[t] \in Chunks /\ VmaOf[t] \in Vmas
         /\ pc' = [pc EXCEPT ![t] = "write"]
         /\ UNCHANGED <<vstatus, phy_desc, pstatus, mapped, pte, chunk, sub, frame, victim>>
         /\ UNCHANGED <<total_read, total_write, mem, swap, last, raced>>
<1>1. pc[t] = "lock" /\ Faulting(t) /\ FaultState(t)
  BY DEF EvictLock, Step, Faulting, Calm
<1>2. chunk[t] \in Chunks /\ VmaOf[t] \in Vmas
  BY <1>1, PcieAssumption DEF LocalTypes
<1>3. QED
  BY <1>1, <1>2 DEF EvictLock, Step, desc, maps, local, store, counts, hist, PagingTypes

(* EvictLock keeps the faults calm. *)
LEMMA EvictLockCalm ==
  ASSUME PagingTypes, LocalTypes, Calm, PagingTypes', NEW t \in Threads, EvictLock(t)
  PROVE  Calm'
<1>1. pc[t] = "lock" /\ Faulting(t)
  BY EvictLockEffect
<1>2. chunk[t] \in Chunks /\ VmaOf[t] \in Vmas
  BY EvictLockEffect
<1>3. /\ pc' = [pc EXCEPT ![t] = "write"]
      /\ UNCHANGED <<vstatus, phy_desc, pstatus, mapped, pte, chunk, sub, frame, victim>>
  BY EvictLockEffect
<1>4. pc' = [pc EXCEPT ![t] = "write"]
  BY <1>3
<1>5. /\ pc'[t] \in {"write"}
      /\ \A u \in Threads : u # t => pc[u] = "user" /\ pc'[u] = "user"
  BY <1>1, <1>4, OthersAtUser
<1>6. FaultState(t) /\ Faulting(t)
  BY <1>1 DEF Calm
<1>7. /\ \A c \in Chunks : phy_desc[c] # NULL =>
           \/ vstatus[c] = "IN_MEM"
           \/ Filling(t, c) \/ Taking(t, c) \/ Leaving(t, c)
      /\ \A c \in Chunks : phy_desc[c] # NULL /\ pstatus[phy_desc[c]] = "FREE" =>
           Filling(t, c)
  BY <1>5, OwnersHere
<1>8. NoBug'
  BY <1>1, <1>2, <1>3, <1>5, <1>6, <1>7
  DEF NoBug
<1>9. Alone'
  BY <1>1, <1>2, <1>3, <1>5, <1>6, <1>7
  DEF Alone, Faulting
<1>10. \A u \in Threads : FaultState(u)'
  BY <1>1, <1>2, <1>3, <1>5, <1>6, <1>7, PcieAssumption
  DEF FaultState, Faulting, Entry, LocalTypes, PagingTypes, Calm
<1>11. OneOwner'
  BY <1>1, <1>2, <1>3, <1>5, <1>6, <1>7, PcieAssumption
  DEF OneOwner, Calm, Filling, FaultState, PagingTypes, LocalTypes, Faulting
<1>12. InMemOwns'
  BY <1>1, <1>2, <1>3, <1>5, <1>6, <1>7, PcieAssumption
  DEF InMemOwns, Calm, FaultState, PagingTypes, LocalTypes, Faulting
<1>13. OwnersInMem'
  <2>1. \A c \in Chunks : phy_desc'[c] # NULL =>
          \/ vstatus'[c] = "IN_MEM"
          \/ Filling(t, c)' \/ Taking(t, c)' \/ Leaving(t, c)'
    BY <1>1, <1>2, <1>3, <1>5, <1>6, <1>7
    DEF FaultState, Filling, Taking, Leaving, PagingTypes, LocalTypes
  <2>2. QED
    BY <2>1 DEF OwnersInMem
<1>14. UsedOwned'
  BY <1>1, <1>2, <1>3, <1>5, <1>6, <1>7, PcieAssumption
  DEF UsedOwned, Calm, FaultState, PagingTypes, LocalTypes, Faulting
<1>15. FreeUnowned'
  <2>1. \A c \in Chunks :
          phy_desc'[c] # NULL /\ pstatus'[phy_desc'[c]] = "FREE" => Filling(t, c)'
    BY <1>1, <1>2, <1>3, <1>5, <1>6, <1>7
    DEF FaultState, Filling, PagingTypes, LocalTypes
  <2>2. QED
    BY <2>1 DEF FreeUnowned
<1>16. HeadWithTail'
  BY <1>1, <1>2, <1>3, <1>5, <1>6, <1>7, PcieAssumption
  DEF HeadWithTail, Calm, PagingTypes, Sub
<1>17. QED
  BY <1>8, <1>9, <1>10, <1>11, <1>12, <1>13, <1>14, <1>15, <1>16 DEF Calm

(* EvictWrite while the faults are calm: what it finds and what it does. *)
LEMMA EvictWriteEffect ==
  ASSUME PagingTypes, LocalTypes, Calm, NEW t \in Threads, EvictWrite(t)
  PROVE  /\ pc[t] = "write" /\ Faulting(t) /\ FaultState(t)
         /\ chunk[t] \in Chunks /\ VmaOf[t] \in Vmas
         /\ pc' = [pc EXCEPT ![t] = "zap"]
         /\ vstatus' = [vstatus EXCEPT ![victim[t]] = "IN_SWAP"]
         /\ UNCHANGED <<phy_desc, pstatus, mapped, pte, chunk, sub, frame, victim>>
         /\ ~IoMayFail => swap' = [swap EXCEPT ![victim[t]] = mem[frame[t]]]
         /\ total_write' = total_write + 1
         /\ UNCHANGED <<total_read, mem, last, raced>>
<1>1. pc[t] = "write" /\ Faulting(t) /\ FaultState(t)
  BY DEF EvictWrite, Step, Faulting, Calm
<1>2. chunk[t] \in Chunks /\ VmaOf[t] \in Vmas
  BY <1>1, PcieAssumption DEF LocalTypes
<1>3. phy_desc[victim[t]] # NULL
  BY <1>1, PcieAssumption DEF Calm, FaultState, LocalTypes, Faulting
<1>4. QED
  BY <1>1, <1>2, <1>3
  DEF EvictWrite, Step, desc, maps, local, store, counts, hist, PagingTypes,
     FaultState, Die

(* EvictWrite keeps the faults calm. *)
LEMMA EvictWriteCalm ==
  ASSUME PagingTypes, LocalTypes, Calm, PagingTypes', NEW t \in Threads, EvictWrite(t)
  PROVE  Calm'
<1>1. pc[t] = "write" /\ Faulting(t)
  BY EvictWriteEffect
<1>2. chunk[t] \in Chunks /\ VmaOf[t] \in Vmas
  BY EvictWriteEffect
<1>3. /\ pc' = [pc EXCEPT ![t] = "zap"]
      /\ vstatus' = [vstatus EXCEPT ![victim[t]] = "IN_SWAP"]
      /\ UNCHANGED <<phy_desc, pstatus, mapped, pte, chunk, sub, frame, victim>>
  BY EvictWriteEffect
<1>4. pc' = [pc EXCEPT ![t] = "zap"]
  BY <1>3
<1>5. /\ pc'[t] \in {"zap"}
      /\ \A u \in Threads : u # t => pc[u] = "user" /\ pc'[u] = "user"
  BY <1>1, <1>4, OthersAtUser
<1>6. FaultState(t) /\ Faulting(t)
  BY <1>1 DEF Calm
<1>7. /\ \A c \in Chunks : phy_desc[c] # NULL =>
           \/ vstatus[c] = "IN_MEM"
           \/ Filling(t, c) \/ Taking(t, c) \/ Leaving(t, c)
      /\ \A c \in Chunks : phy_desc[c] # NULL /\ pstatus[phy_desc[c]] = "FREE" =>
           Filling(t, c)
  BY <1>5, OwnersHere
<1>8. NoBug'
  BY <1>1, <1>2, <1>3, <1>5, <1>6, <1>7
  DEF NoBug
<1>9. Alone'
  BY <1>1, <1>2, <1>3, <1>5, <1>6, <1>7
  DEF Alone, Faulting
<1>10. \A u \in Threads : FaultState(u)'
  BY <1>1, <1>2, <1>3, <1>5, <1>6, <1>7, PcieAssumption
  DEF FaultState, Faulting, Entry, LocalTypes, PagingTypes, Calm
<1>11. OneOwner'
  BY <1>1, <1>2, <1>3, <1>5, <1>6, <1>7, PcieAssumption
  DEF OneOwner, Calm, Filling, FaultState, PagingTypes, LocalTypes, Faulting
<1>12. InMemOwns'
  BY <1>1, <1>2, <1>3, <1>5, <1>6, <1>7, PcieAssumption
  DEF InMemOwns, Calm, FaultState, PagingTypes, LocalTypes, Faulting
<1>13. OwnersInMem'
  <2>1. \A c \in Chunks : phy_desc'[c] # NULL =>
          \/ vstatus'[c] = "IN_MEM"
          \/ Filling(t, c)' \/ Taking(t, c)' \/ Leaving(t, c)'
    BY <1>1, <1>2, <1>3, <1>5, <1>6, <1>7
    DEF FaultState, Filling, Taking, Leaving, PagingTypes, LocalTypes
  <2>2. QED
    BY <2>1 DEF OwnersInMem
<1>14. UsedOwned'
  BY <1>1, <1>2, <1>3, <1>5, <1>6, <1>7, PcieAssumption
  DEF UsedOwned, Calm, FaultState, PagingTypes, LocalTypes, Faulting
<1>15. FreeUnowned'
  <2>1. \A c \in Chunks :
          phy_desc'[c] # NULL /\ pstatus'[phy_desc'[c]] = "FREE" => Filling(t, c)'
    BY <1>1, <1>2, <1>3, <1>5, <1>6, <1>7
    DEF FaultState, Filling, PagingTypes, LocalTypes
  <2>2. QED
    BY <2>1 DEF FreeUnowned
<1>16. HeadWithTail'
  BY <1>1, <1>2, <1>3, <1>5, <1>6, <1>7, PcieAssumption
  DEF HeadWithTail, Calm, PagingTypes, Sub
<1>17. QED
  BY <1>8, <1>9, <1>10, <1>11, <1>12, <1>13, <1>14, <1>15, <1>16 DEF Calm

(* EvictZap while the faults are calm: what it finds and what it does. *)
LEMMA EvictZapEffect ==
  ASSUME PagingTypes, LocalTypes, Calm, NEW t \in Threads, EvictZap(t)
  PROVE  /\ pc[t] = "zap" /\ Faulting(t) /\ FaultState(t)
         /\ chunk[t] \in Chunks /\ VmaOf[t] \in Vmas
         /\ pc' = [pc EXCEPT ![t] = "move"]
         /\ pte' = [pte EXCEPT ![VmaOf[t]][victim[t]] = [s \in Sub |-> NULL]]
         /\ UNCHANGED <<vstatus, phy_desc, pstatus, mapped, chunk, sub, frame, victim>>
         /\ UNCHANGED <<total_read, total_write, mem, swap, last, raced>>
<1>1. pc[t] = "zap" /\ Faulting(t) /\ FaultState(t)
  BY DEF EvictZap, Step, Faulting, Calm
<1>2. chunk[t] \in Chunks /\ VmaOf[t] \in Vmas
  BY <1>1, PcieAssumption DEF LocalTypes
<1>3. QED
  BY <1>1, <1>2 DEF EvictZap, Step, desc, maps, local, store, counts, hist, PagingTypes

(* EvictZap keeps the faults calm. *)
LEMMA EvictZapCalm ==
  ASSUME PagingTypes, LocalTypes, Calm, PagingTypes', NEW t \in Threads, EvictZap(t)
  PROVE  Calm'
<1>1. pc[t] = "zap" /\ Faulting(t)
  BY EvictZapEffect
<1>2. chunk[t] \in Chunks /\ VmaOf[t] \in Vmas
  BY EvictZapEffect
<1>3. /\ pc' = [pc EXCEPT ![t] = "move"]
      /\ pte' = [pte EXCEPT ![VmaOf[t]][victim[t]] = [s \in Sub |-> NULL]]
      /\ UNCHANGED <<vstatus, phy_desc, pstatus, mapped, chunk, sub, frame, victim>>
  BY EvictZapEffect
<1>4. pc' = [pc EXCEPT ![t] = "move"]
  BY <1>3
<1>5. /\ pc'[t] \in {"move"}
      /\ \A u \in Threads : u # t => pc[u] = "user" /\ pc'[u] = "user"
  BY <1>1, <1>4, OthersAtUser
<1>6. FaultState(t) /\ Faulting(t)
  BY <1>1 DEF Calm
<1>7. /\ \A c \in Chunks : phy_desc[c] # NULL =>
           \/ vstatus[c] = "IN_MEM"
           \/ Filling(t, c) \/ Taking(t, c) \/ Leaving(t, c)
      /\ \A c \in Chunks : phy_desc[c] # NULL /\ pstatus[phy_desc[c]] = "FREE" =>
           Filling(t, c)
  BY <1>5, OwnersHere
<1>8. NoBug'
  BY <1>1, <1>2, <1>3, <1>5, <1>6, <1>7
  DEF NoBug
<1>9. Alone'
  BY <1>1, <1>2, <1>3, <1>5, <1>6, <1>7
  DEF Alone, Faulting
<1>10. \A u \in Threads : FaultState(u)'
  BY <1>1, <1>2, <1>3, <1>5, <1>6, <1>7, PcieAssumption
  DEF FaultState, Faulting, Entry, LocalTypes, PagingTypes, Calm
<1>11. OneOwner'
  BY <1>1, <1>2, <1>3, <1>5, <1>6, <1>7, PcieAssumption
  DEF OneOwner, Calm, Filling, FaultState, PagingTypes, LocalTypes, Faulting
<1>12. InMemOwns'
  BY <1>1, <1>2, <1>3, <1>5, <1>6, <1>7, PcieAssumption
  DEF InMemOwns, Calm, FaultState, PagingTypes, LocalTypes, Faulting
<1>13. OwnersInMem'
  <2>1. \A c \in Chunks : phy_desc'[c] # NULL =>
          \/ vstatus'[c] = "IN_MEM"
          \/ Filling(t, c)' \/ Taking(t, c)' \/ Leaving(t, c)'
    BY <1>1, <1>2, <1>3, <1>5, <1>6, <1>7
    DEF FaultState, Filling, Taking, Leaving, PagingTypes, LocalTypes
  <2>2. QED
    BY <2>1 DEF OwnersInMem
<1>14. UsedOwned'
  BY <1>1, <1>2, <1>3, <1>5, <1>6, <1>7, PcieAssumption
  DEF UsedOwned, Calm, FaultState, PagingTypes, LocalTypes, Faulting
<1>15. FreeUnowned'
  <2>1. \A c \in Chunks :
          phy_desc'[c] # NULL /\ pstatus'[phy_desc'[c]] = "FREE" => Filling(t, c)'
    BY <1>1, <1>2, <1>3, <1>5, <1>6, <1>7
    DEF FaultState, Filling, PagingTypes, LocalTypes
  <2>2. QED
    BY <2>1 DEF FreeUnowned
<1>16. HeadWithTail'
  BY <1>1, <1>2, <1>3, <1>5, <1>6, <1>7, PcieAssumption
  DEF HeadWithTail, Calm, PagingTypes, Sub
<1>17. QED
  BY <1>8, <1>9, <1>10, <1>11, <1>12, <1>13, <1>14, <1>15, <1>16 DEF Calm

(* EvictMove while the faults are calm: what it finds and what it does. *)
LEMMA EvictMoveEffect ==
  ASSUME PagingTypes, LocalTypes, Calm, NEW t \in Threads, EvictMove(t)
  PROVE  /\ pc[t] = "move" /\ Faulting(t) /\ FaultState(t)
         /\ chunk[t] \in Chunks /\ VmaOf[t] \in Vmas
         /\ pc' \in {[pc EXCEPT ![t] = p] : p \in {"read", "unlock"}}
         /\ phy_desc'[chunk[t]] = frame[t] /\ phy_desc'[victim[t]] = NULL
         /\ \A c \in Chunks : c \notin {chunk[t], victim[t]} => phy_desc'[c] = phy_desc[c]
         /\ UNCHANGED <<vstatus, pstatus, mapped, pte, chunk, sub, frame, victim>>
         /\ pc'[t] = "unlock" <=> vstatus[chunk[t]] # "IN_SWAP"
         /\ UNCHANGED <<total_read, total_write, mem, swap, last, raced>>
<1>1. pc[t] = "move" /\ Faulting(t) /\ FaultState(t)
  BY DEF EvictMove, Step, Faulting, Calm
<1>2. chunk[t] \in Chunks /\ VmaOf[t] \in Vmas
  BY <1>1, PcieAssumption DEF LocalTypes
<1>3. /\ victim[t] \in Chunks /\ victim[t] # chunk[t]
      /\ phy_desc[victim[t]] = frame[t]
  BY <1>1 DEF FaultState, LocalTypes
<1>4. QED
  BY <1>1, <1>2, <1>3
  DEF EvictMove, Step, desc, maps, local, store, counts, hist, PagingTypes

(* EvictMove keeps the faults calm. *)
LEMMA EvictMoveCalm ==
  ASSUME PagingTypes, LocalTypes, Calm, PagingTypes', NEW t \in Threads, EvictMove(t)
  PROVE  Calm'
<1>1. pc[t] = "move" /\ Faulting(t)
  BY EvictMoveEffect
<1>2. chunk[t] \in Chunks /\ VmaOf[t] \in Vmas
  BY EvictMoveEffect
<1>3. /\ pc' \in {[pc EXCEPT ![t] = p] : p \in {"read", "unlock"}}
      /\ phy_desc'[chunk[t]] = frame[t] /\ phy_desc'[victim[t]] = NULL
      /\ \A c \in Chunks : c \notin {chunk[t], victim[t]} => phy_desc'[c] = phy_desc[c]
      /\ UNCHANGED <<vstatus, pstatus, mapped, pte, chunk, sub, frame, victim>>
  BY EvictMoveEffect
<1>4. PICK p \in {"read", "unlock"} : pc' = [pc EXCEPT ![t] = p]
  BY <1>3
<1>5. /\ pc'[t] \in {"read", "unlock"}
      /\ \A u \in Threads : u # t => pc[u] = "user" /\ pc'[u] = "user"
  BY <1>1, <1>4, OthersAtUser
<1>6. FaultState(t) /\ Faulting(t)
  BY <1>1 DEF Calm
<1>7. /\ \A c \in Chunks : phy_desc[c] # NULL =>
           \/ vstatus[c] = "IN_MEM"
           \/ Filling(t, c) \/ Taking(t, c) \/ Leaving(t, c)
      /\ \A c \in Chunks : phy_desc[c] # NULL /\ pstatus[phy_desc[c]] = "FREE" =>
           Filling(t, c)
  BY <1>5, OwnersHere
<1>8. NoBug'
  BY <1>1, <1>2, <1>3, <1>5, <1>6, <1>7
  DEF NoBug
<1>9. Alone'
  BY <1>1, <1>2, <1>3, <1>5, <1>6, <1>7
  DEF Alone, Faulting
<1>10. \A u \in Threads : FaultState(u)'
  BY <1>1, <1>2, <1>3, <1>5, <1>6, <1>7, PcieAssumption
  DEF FaultState, Faulting, Entry, LocalTypes, PagingTypes, Calm
<1>11. OneOwner'
  <2>1. /\ victim[t] \in Chunks /\ victim[t] # chunk[t]
        /\ frame[t] \in Frames /\ frame[t] # NULL
        /\ phy_desc[victim[t]] = frame[t] /\ phy_desc[chunk[t]] = NULL
        /\ vstatus[chunk[t]] # "IN_MEM" /\ vstatus[victim[t]] # "IN_MEM"
        /\ pstatus[frame[t]] = "IN_USE"
    BY <1>1, <1>6, PcieAssumption DEF FaultState, LocalTypes
  <2>2. OneOwner
    BY DEF Calm
  <2>3. QED
    BY <1>2, <1>3, <2>1, <2>2 DEF OneOwner
<1>12. InMemOwns'
  <2>1. /\ victim[t] \in Chunks /\ victim[t] # chunk[t]
        /\ frame[t] \in Frames /\ frame[t] # NULL
        /\ phy_desc[victim[t]] = frame[t] /\ phy_desc[chunk[t]] = NULL
        /\ vstatus[chunk[t]] # "IN_MEM" /\ vstatus[victim[t]] # "IN_MEM"
        /\ pstatus[frame[t]] = "IN_USE"
    BY <1>1, <1>6, PcieAssumption DEF FaultState, LocalTypes
  <2>2. InMemOwns
    BY DEF Calm
  <2>3. QED
    BY <1>3, <2>1, <2>2 DEF InMemOwns
<1>13. OwnersInMem'
  <2>1. \A c \in Chunks : phy_desc'[c] # NULL =>
          \/ vstatus'[c] = "IN_MEM"
          \/ Filling(t, c)' \/ Taking(t, c)' \/ Leaving(t, c)'
    BY <1>1, <1>2, <1>3, <1>5, <1>6, <1>7
    DEF FaultState, Filling, Taking, Leaving, PagingTypes, LocalTypes
  <2>2. QED
    BY <2>1 DEF OwnersInMem
<1>14. UsedOwned'
  <2>1. /\ victim[t] \in Chunks /\ victim[t] # chunk[t]
        /\ frame[t] \in Frames /\ frame[t] # NULL
        /\ phy_desc[victim[t]] = frame[t] /\ phy_desc[chunk[t]] = NULL
        /\ vstatus[chunk[t]] # "IN_MEM" /\ vstatus[victim[t]] # "IN_MEM"
        /\ pstatus[frame[t]] = "IN_USE"
    BY <1>1, <1>6, PcieAssumption DEF FaultState, LocalTypes
  <2>2. UsedOwned
    BY DEF Calm
  <2>3. SUFFICES ASSUME NEW f \in Frames, pstatus[f] = "IN_USE"
                 PROVE  \E c \in Chunks : phy_desc'[c] = f
    BY <1>3 DEF UsedOwned
  <2>4. PICK c \in Chunks : phy_desc[c] = f
    BY <2>2, <2>3 DEF UsedOwned
  <2>5. CASE c = victim[t]
    BY <1>2, <1>3, <2>1, <2>4, <2>5
  <2>6. CASE c = chunk[t]
    BY <2>1, <2>4, <2>6, PcieAssumption
  <2>7. QED
    BY <1>3, <2>4, <2>5, <2>6
<1>15. FreeUnowned'
  <2>1. /\ victim[t] \in Chunks /\ victim[t] # chunk[t]
        /\ frame[t] \in Frames /\ frame[t] # NULL
        /\ phy_desc[victim[t]] = frame[t] /\ phy_desc[chunk[t]] = NULL
        /\ vstatus[chunk[t]] # "IN_MEM" /\ vstatus[victim[t]] # "IN_MEM"
        /\ pstatus[frame[t]] = "IN_USE"
    BY <1>1, <1>6, PcieAssumption DEF FaultState, LocalTypes
  <2>2. \A c \in Chunks : phy_desc[c] # NULL => pstatus[phy_desc[c]] # "FREE"
    BY <1>1, <1>7 DEF Filling
  <2>3. \A c \in Chunks : phy_desc'[c] # NULL => pstatus[phy_desc'[c]] # "FREE"
    BY <1>2, <1>3, <2>1, <2>2
  <2>4. QED
    BY <1>3, <2>3 DEF FreeUnowned
<1>16. HeadWithTail'
  BY <1>1, <1>2, <1>3, <1>5, <1>6, <1>7, PcieAssumption
  DEF HeadWithTail, Calm, PagingTypes, Sub
<1>17. QED
  BY <1>8, <1>9, <1>10, <1>11, <1>12, <1>13, <1>14, <1>15, <1>16 DEF Calm

(* EvictRead while the faults are calm: what it finds and what it does. *)
LEMMA EvictReadEffect ==
  ASSUME PagingTypes, LocalTypes, Calm, NEW t \in Threads, EvictRead(t)
  PROVE  /\ pc[t] = "read" /\ Faulting(t) /\ FaultState(t)
         /\ chunk[t] \in Chunks /\ VmaOf[t] \in Vmas
         /\ pc' = [pc EXCEPT ![t] = "unlock"]
         /\ UNCHANGED <<vstatus, phy_desc, pstatus, mapped, pte, chunk, sub, frame, victim>>
         /\ ~IoMayFail => mem' = [mem EXCEPT ![frame[t]] = swap[chunk[t]]]
         /\ total_read' = total_read + 1
         /\ UNCHANGED <<total_write, swap, last, raced>>
<1>1. pc[t] = "read" /\ Faulting(t) /\ FaultState(t)
  BY DEF EvictRead, Step, Faulting, Calm
<1>2. chunk[t] \in Chunks /\ VmaOf[t] \in Vmas
  BY <1>1, PcieAssumption DEF LocalTypes
<1>3. phy_desc[chunk[t]] # NULL
  BY <1>1, PcieAssumption DEF Calm, FaultState, LocalTypes, Faulting
<1>4. QED
  BY <1>1, <1>2, <1>3
  DEF EvictRead, Step, desc, maps, local, store, counts, hist, PagingTypes,
     read_pages, FaultState, Die

(* EvictRead keeps the faults calm. *)
LEMMA EvictReadCalm ==
  ASSUME PagingTypes, LocalTypes, Calm, PagingTypes', NEW t \in Threads, EvictRead(t)
  PROVE  Calm'
<1>1. pc[t] = "read" /\ Faulting(t)
  BY EvictReadEffect
<1>2. chunk[t] \in Chunks /\ VmaOf[t] \in Vmas
  BY EvictReadEffect
<1>3. /\ pc' = [pc EXCEPT ![t] = "unlock"]
      /\ UNCHANGED <<vstatus, phy_desc, pstatus, mapped, pte, chunk, sub, frame, victim>>
  BY EvictReadEffect
<1>4. pc' = [pc EXCEPT ![t] = "unlock"]
  BY <1>3
<1>5. /\ pc'[t] \in {"unlock"}
      /\ \A u \in Threads : u # t => pc[u] = "user" /\ pc'[u] = "user"
  BY <1>1, <1>4, OthersAtUser
<1>6. FaultState(t) /\ Faulting(t)
  BY <1>1 DEF Calm
<1>7. /\ \A c \in Chunks : phy_desc[c] # NULL =>
           \/ vstatus[c] = "IN_MEM"
           \/ Filling(t, c) \/ Taking(t, c) \/ Leaving(t, c)
      /\ \A c \in Chunks : phy_desc[c] # NULL /\ pstatus[phy_desc[c]] = "FREE" =>
           Filling(t, c)
  BY <1>5, OwnersHere
<1>8. NoBug'
  BY <1>1, <1>2, <1>3, <1>5, <1>6, <1>7
  DEF NoBug
<1>9. Alone'
  BY <1>1, <1>2, <1>3, <1>5, <1>6, <1>7
  DEF Alone, Faulting
<1>10. \A u \in Threads : FaultState(u)'
  BY <1>1, <1>2, <1>3, <1>5, <1>6, <1>7, PcieAssumption
  DEF FaultState, Faulting, Entry, LocalTypes, PagingTypes, Calm
<1>11. OneOwner'
  BY <1>1, <1>2, <1>3, <1>5, <1>6, <1>7, PcieAssumption
  DEF OneOwner, Calm, Filling, FaultState, PagingTypes, LocalTypes, Faulting
<1>12. InMemOwns'
  BY <1>1, <1>2, <1>3, <1>5, <1>6, <1>7, PcieAssumption
  DEF InMemOwns, Calm, FaultState, PagingTypes, LocalTypes, Faulting
<1>13. OwnersInMem'
  <2>1. \A c \in Chunks : phy_desc'[c] # NULL =>
          \/ vstatus'[c] = "IN_MEM"
          \/ Filling(t, c)' \/ Taking(t, c)' \/ Leaving(t, c)'
    BY <1>1, <1>2, <1>3, <1>5, <1>6, <1>7
    DEF FaultState, Filling, Taking, Leaving, PagingTypes, LocalTypes
  <2>2. QED
    BY <2>1 DEF OwnersInMem
<1>14. UsedOwned'
  BY <1>1, <1>2, <1>3, <1>5, <1>6, <1>7, PcieAssumption
  DEF UsedOwned, Calm, FaultState, PagingTypes, LocalTypes, Faulting
<1>15. FreeUnowned'
  <2>1. \A c \in Chunks :
          phy_desc'[c] # NULL /\ pstatus'[phy_desc'[c]] = "FREE" => Filling(t, c)'
    BY <1>1, <1>2, <1>3, <1>5, <1>6, <1>7
    DEF FaultState, Filling, PagingTypes, LocalTypes
  <2>2. QED
    BY <2>1 DEF FreeUnowned
<1>16. HeadWithTail'
  BY <1>1, <1>2, <1>3, <1>5, <1>6, <1>7, PcieAssumption
  DEF HeadWithTail, Calm, PagingTypes, Sub
<1>17. QED
  BY <1>8, <1>9, <1>10, <1>11, <1>12, <1>13, <1>14, <1>15, <1>16 DEF Calm

(* EvictUnlock while the faults are calm: what it finds and what it does. *)
LEMMA EvictUnlockEffect ==
  ASSUME PagingTypes, LocalTypes, Calm, NEW t \in Threads, EvictUnlock(t)
  PROVE  /\ pc[t] = "unlock" /\ Faulting(t) /\ FaultState(t)
         /\ chunk[t] \in Chunks /\ VmaOf[t] \in Vmas
         /\ pc' = [pc EXCEPT ![t] = "map"]
         /\ vstatus' = [vstatus EXCEPT ![chunk[t]] = "IN_MEM"]
         /\ UNCHANGED <<phy_desc, pstatus, mapped, pte, chunk, sub, frame, victim>>
         /\ UNCHANGED <<total_read, total_write, mem, swap, last, raced>>
<1>1. pc[t] = "unlock" /\ Faulting(t) /\ FaultState(t)
  BY DEF EvictUnlock, Step, Faulting, Calm
<1>2. chunk[t] \in Chunks /\ VmaOf[t] \in Vmas
  BY <1>1, PcieAssumption DEF LocalTypes
<1>3. QED
  BY <1>1, <1>2
  DEF EvictUnlock, Step, desc, maps, local, store, counts, hist, PagingTypes

(* EvictUnlock keeps the faults calm. *)
LEMMA EvictUnlockCalm ==
  ASSUME PagingTypes, LocalTypes, Calm, PagingTypes', NEW t \in Threads, EvictUnlock(t)
  PROVE  Calm'
<1>1. pc[t] = "unlock" /\ Faulting(t)
  BY EvictUnlockEffect
<1>2. chunk[t] \in Chunks /\ VmaOf[t] \in Vmas
  BY EvictUnlockEffect
<1>3. /\ pc' = [pc EXCEPT ![t] = "map"]
      /\ vstatus' = [vstatus EXCEPT ![chunk[t]] = "IN_MEM"]
      /\ UNCHANGED <<phy_desc, pstatus, mapped, pte, chunk, sub, frame, victim>>
  BY EvictUnlockEffect
<1>4. pc' = [pc EXCEPT ![t] = "map"]
  BY <1>3
<1>5. /\ pc'[t] \in {"map"}
      /\ \A u \in Threads : u # t => pc[u] = "user" /\ pc'[u] = "user"
  BY <1>1, <1>4, OthersAtUser
<1>6. FaultState(t) /\ Faulting(t)
  BY <1>1 DEF Calm
<1>7. /\ \A c \in Chunks : phy_desc[c] # NULL =>
           \/ vstatus[c] = "IN_MEM"
           \/ Filling(t, c) \/ Taking(t, c) \/ Leaving(t, c)
      /\ \A c \in Chunks : phy_desc[c] # NULL /\ pstatus[phy_desc[c]] = "FREE" =>
           Filling(t, c)
  BY <1>5, OwnersHere
<1>8. NoBug'
  BY <1>1, <1>2, <1>3, <1>5, <1>6, <1>7
  DEF NoBug
<1>9. Alone'
  BY <1>1, <1>2, <1>3, <1>5, <1>6, <1>7
  DEF Alone, Faulting
<1>10. \A u \in Threads : FaultState(u)'
  BY <1>1, <1>2, <1>3, <1>5, <1>6, <1>7, PcieAssumption
  DEF FaultState, Faulting, Entry, LocalTypes, PagingTypes, Calm
<1>11. OneOwner'
  BY <1>1, <1>2, <1>3, <1>5, <1>6, <1>7, PcieAssumption
  DEF OneOwner, Calm, Filling, FaultState, PagingTypes, LocalTypes, Faulting
<1>12. InMemOwns'
  <2>1. phy_desc[chunk[t]] # NULL
    BY <1>1, <1>2, <1>6, PcieAssumption DEF FaultState, LocalTypes
  <2>2. InMemOwns
    BY DEF Calm
  <2>3. QED
    BY <1>3, <2>1, <2>2 DEF InMemOwns, PagingTypes
<1>13. OwnersInMem'
  <2>1. \A c \in Chunks : phy_desc'[c] # NULL =>
          \/ vstatus'[c] = "IN_MEM"
          \/ Filling(t, c)' \/ Taking(t, c)' \/ Leaving(t, c)'
    BY <1>1, <1>2, <1>3, <1>5, <1>6, <1>7
    DEF FaultState, Filling, Taking, Leaving, PagingTypes, LocalTypes
  <2>2. QED
    BY <2>1 DEF OwnersInMem
<1>14. UsedOwned'
  BY <1>1, <1>2, <1>3, <1>5, <1>6, <1>7, PcieAssumption
  DEF UsedOwned, Calm, FaultState, PagingTypes, LocalTypes, Faulting
<1>15. FreeUnowned'
  <2>1. \A c \in Chunks :
          phy_desc'[c] # NULL /\ pstatus'[phy_desc'[c]] = "FREE" => Filling(t, c)'
    BY <1>1, <1>2, <1>3, <1>5, <1>6, <1>7
    DEF FaultState, Filling, PagingTypes, LocalTypes
  <2>2. QED
    BY <2>1 DEF FreeUnowned
<1>16. HeadWithTail'
  BY <1>1, <1>2, <1>3, <1>5, <1>6, <1>7, PcieAssumption
  DEF HeadWithTail, Calm, PagingTypes, Sub
<1>17. QED
  BY <1>8, <1>9, <1>10, <1>11, <1>12, <1>13, <1>14, <1>15, <1>16 DEF Calm

(* FaultMap while the faults are calm: what it finds and what it does. *)
LEMMA FaultMapEffect ==
  ASSUME PagingTypes, LocalTypes, Calm, NEW t \in Threads, FaultMap(t)
  PROVE  /\ pc[t] = "map" /\ Faulting(t) /\ FaultState(t)
         /\ chunk[t] \in Chunks /\ VmaOf[t] \in Vmas
         /\ pc' = [pc EXCEPT ![t] = "finish"]
         /\ frame' = [frame EXCEPT ![t] = phy_desc[chunk[t]]]
         /\ pte' = [pte EXCEPT ![VmaOf[t]][chunk[t]]["tail"] = phy_desc[chunk[t]]]
         /\ phy_desc[chunk[t]] # NULL
         /\ UNCHANGED <<vstatus, phy_desc, pstatus, mapped, chunk, sub, victim>>
         /\ UNCHANGED <<total_read, total_write, mem, swap, last, raced>>
<1>1. pc[t] = "map" /\ Faulting(t) /\ FaultState(t)
  BY DEF FaultMap, Step, Faulting, Calm
<1>2. chunk[t] \in Chunks /\ VmaOf[t] \in Vmas
  BY <1>1, PcieAssumption DEF LocalTypes
<1>3. Mappable(t)
  <2>1. chunk[t] \in Chunks /\ vstatus[chunk[t]] = "IN_MEM"
    BY <1>1 DEF Calm, FaultState, LocalTypes, Faulting
  <2>2. pte[VmaOf[t]][chunk[t]]["head"] = NULL
    BY <1>1 DEF Calm, FaultState, Faulting, Entry
  <2>3. \A u \in Threads : pc[u] # "finish"
    BY <1>1 DEF Calm, Alone, Faulting
  <2>4. pte[VmaOf[t]][chunk[t]]["tail"] = NULL
    BY <2>1, <2>2, <2>3, PcieAssumption DEF Calm, HeadWithTail
  <2>5. QED
    BY <2>1, <2>4 DEF Mappable, Entry, Calm, InMemOwns
<1>4. QED
  BY <1>1, <1>2, <1>3
  DEF FaultMap, Step, desc, maps, local, store, counts, hist, PagingTypes, Die, Mappable

(* FaultMap keeps the faults calm. *)
LEMMA FaultMapCalm ==
  ASSUME PagingTypes, LocalTypes, Calm, PagingTypes', NEW t \in Threads, FaultMap(t)
  PROVE  Calm'
<1>1. pc[t] = "map" /\ Faulting(t)
  BY FaultMapEffect
<1>2. chunk[t] \in Chunks /\ VmaOf[t] \in Vmas
  BY FaultMapEffect
<1>3. /\ pc' = [pc EXCEPT ![t] = "finish"]
      /\ frame' = [frame EXCEPT ![t] = phy_desc[chunk[t]]]
      /\ pte' = [pte EXCEPT ![VmaOf[t]][chunk[t]]["tail"] = phy_desc[chunk[t]]]
      /\ phy_desc[chunk[t]] # NULL
      /\ UNCHANGED <<vstatus, phy_desc, pstatus, mapped, chunk, sub, victim>>
  BY FaultMapEffect
<1>4. pc' = [pc EXCEPT ![t] = "finish"]
  BY <1>3
<1>5. /\ pc'[t] \in {"finish"}
      /\ \A u \in Threads : u # t => pc[u] = "user" /\ pc'[u] = "user"
  BY <1>1, <1>4, OthersAtUser
<1>6. FaultState(t) /\ Faulting(t)
  BY <1>1 DEF Calm
<1>7. /\ \A c \in Chunks : phy_desc[c] # NULL =>
           \/ vstatus[c] = "IN_MEM"
           \/ Filling(t, c) \/ Taking(t, c) \/ Leaving(t, c)
      /\ \A c \in Chunks : phy_desc[c] # NULL /\ pstatus[phy_desc[c]] = "FREE" =>
           Filling(t, c)
  BY <1>5, OwnersHere
<1>8. NoBug'
  BY <1>1, <1>2, <1>3, <1>5, <1>6, <1>7
  DEF NoBug
<1>9. Alone'
  BY <1>1, <1>2, <1>3, <1>5, <1>6, <1>7
  DEF Alone, Faulting
<1>10. \A u \in Threads : FaultState(u)'
  BY <1>1, <1>2, <1>3, <1>5, <1>6, <1>7, PcieAssumption
  DEF FaultState, Faulting, Entry, LocalTypes, PagingTypes, Calm
<1>11. OneOwner'
  BY <1>1, <1>2, <1>3, <1>5, <1>6, <1>7, PcieAssumption
  DEF OneOwner, Calm, Filling, FaultState, PagingTypes, LocalTypes, Faulting
<1>12. InMemOwns'
  BY <1>1, <1>2, <1>3, <1>5, <1>6, <1>7, PcieAssumption
  DEF InMemOwns, Calm, FaultState, PagingTypes, LocalTypes, Faulting
<1>13. OwnersInMem'
  <2>1. \A c \in Chunks : phy_desc'[c] # NULL =>
          \/ vstatus'[c] = "IN_MEM"
          \/ Filling(t, c)' \/ Taking(t, c)' \/ Leaving(t, c)'
    BY <1>1, <1>2, <1>3, <1>5, <1>6, <1>7
    DEF FaultState, Filling, Taking, Leaving, PagingTypes, LocalTypes
  <2>2. QED
    BY <2>1 DEF OwnersInMem
<1>14. UsedOwned'
  BY <1>1, <1>2, <1>3, <1>5, <1>6, <1>7, PcieAssumption
  DEF UsedOwned, Calm, FaultState, PagingTypes, LocalTypes, Faulting
<1>15. FreeUnowned'
  <2>1. \A c \in Chunks :
          phy_desc'[c] # NULL /\ pstatus'[phy_desc'[c]] = "FREE" => Filling(t, c)'
    BY <1>1, <1>2, <1>3, <1>5, <1>6, <1>7
    DEF FaultState, Filling, PagingTypes, LocalTypes
  <2>2. QED
    BY <2>1 DEF FreeUnowned
<1>16. HeadWithTail'
  BY <1>1, <1>2, <1>3, <1>5, <1>6, <1>7, PcieAssumption
  DEF HeadWithTail, Calm, PagingTypes, Sub
<1>17. QED
  BY <1>8, <1>9, <1>10, <1>11, <1>12, <1>13, <1>14, <1>15, <1>16 DEF Calm

(* FaultFinish while the faults are calm: what it finds and what it does. *)
LEMMA FaultFinishEffect ==
  ASSUME PagingTypes, LocalTypes, Calm, NEW t \in Threads, FaultFinish(t)
  PROVE  /\ pc[t] = "finish" /\ Faulting(t) /\ FaultState(t)
         /\ chunk[t] \in Chunks /\ VmaOf[t] \in Vmas
         /\ pc' = [pc EXCEPT ![t] = "user"]
         /\ pte' = [pte EXCEPT ![VmaOf[t]][chunk[t]]["head"] = frame[t]]
         /\ chunk' = [chunk EXCEPT ![t] = NULL]
         /\ UNCHANGED <<vstatus, phy_desc, pstatus, mapped>>
         /\ UNCHANGED <<total_read, total_write, mem, swap, last, raced>>
<1>1. pc[t] = "finish" /\ Faulting(t) /\ FaultState(t)
  BY DEF FaultFinish, Step, Faulting, Calm
<1>2. chunk[t] \in Chunks /\ VmaOf[t] \in Vmas
  BY <1>1, PcieAssumption DEF LocalTypes
<1>3. sub[t] = "head" /\ Entry(t, chunk[t], "head") = NULL
  BY <1>1 DEF FaultState
<1>4. QED
  BY <1>1, <1>2, <1>3
  DEF FaultFinish, Step, desc, maps, local, store, counts, hist, PagingTypes

(* FaultFinish keeps the faults calm. *)
LEMMA FaultFinishCalm ==
  ASSUME PagingTypes, LocalTypes, Calm, PagingTypes', NEW t \in Threads, FaultFinish(t)
  PROVE  Calm'
<1>1. pc[t] = "finish" /\ Faulting(t)
  BY FaultFinishEffect
<1>2. chunk[t] \in Chunks /\ VmaOf[t] \in Vmas
  BY FaultFinishEffect
<1>3. /\ pc' = [pc EXCEPT ![t] = "user"]
      /\ pte' = [pte EXCEPT ![VmaOf[t]][chunk[t]]["head"] = frame[t]]
      /\ chunk' = [chunk EXCEPT ![t] = NULL]
      /\ UNCHANGED <<vstatus, phy_desc, pstatus, mapped>>
  BY FaultFinishEffect
<1>4. pc' = [pc EXCEPT ![t] = "user"]
  BY <1>3
<1>5. /\ pc'[t] \in {"user"}
      /\ \A u \in Threads : u # t => pc[u] = "user" /\ pc'[u] = "user"
  BY <1>1, <1>4, OthersAtUser
<1>6. FaultState(t) /\ Faulting(t)
  BY <1>1 DEF Calm
<1>7. /\ \A c \in Chunks : phy_desc[c] # NULL =>
           \/ vstatus[c] = "IN_MEM"
           \/ Filling(t, c) \/ Taking(t, c) \/ Leaving(t, c)
      /\ \A c \in Chunks : phy_desc[c] # NULL /\ pstatus[phy_desc[c]] = "FREE" =>
           Filling(t, c)
  BY <1>5, OwnersHere
<1>8. NoBug'
  BY <1>1, <1>2, <1>3, <1>5, <1>6, <1>7
  DEF NoBug
<1>9. Alone'
  BY <1>1, <1>2, <1>3, <1>5, <1>6, <1>7
  DEF Alone, Faulting
<1>10. \A u \in Threads : FaultState(u)'
  BY <1>1, <1>2, <1>3, <1>5, <1>6, <1>7, PcieAssumption
  DEF FaultState, Faulting, Entry, LocalTypes, PagingTypes, Calm
<1>11. OneOwner'
  BY <1>1, <1>2, <1>3, <1>5, <1>6, <1>7, PcieAssumption
  DEF OneOwner, Calm, Filling, FaultState, PagingTypes, LocalTypes, Faulting
<1>12. InMemOwns'
  BY <1>1, <1>2, <1>3, <1>5, <1>6, <1>7, PcieAssumption
  DEF InMemOwns, Calm, FaultState, PagingTypes, LocalTypes, Faulting
<1>13. OwnersInMem'
  <2>1. \A c \in Chunks : phy_desc'[c] # NULL =>
          \/ vstatus'[c] = "IN_MEM"
          \/ Filling(t, c)' \/ Taking(t, c)' \/ Leaving(t, c)'
    BY <1>1, <1>2, <1>3, <1>5, <1>6, <1>7
    DEF FaultState, Filling, Taking, Leaving, PagingTypes, LocalTypes
  <2>2. QED
    BY <2>1 DEF OwnersInMem
<1>14. UsedOwned'
  BY <1>1, <1>2, <1>3, <1>5, <1>6, <1>7, PcieAssumption
  DEF UsedOwned, Calm, FaultState, PagingTypes, LocalTypes, Faulting
<1>15. FreeUnowned'
  <2>1. \A c \in Chunks :
          phy_desc'[c] # NULL /\ pstatus'[phy_desc'[c]] = "FREE" => Filling(t, c)'
    BY <1>1, <1>2, <1>3, <1>5, <1>6, <1>7
    DEF FaultState, Filling, PagingTypes, LocalTypes
  <2>2. QED
    BY <2>1 DEF FreeUnowned
<1>16. HeadWithTail'
  <2>1. frame[t] # NULL
    BY <1>1, PcieAssumption DEF LocalTypes, Faulting
  <2>2. HeadWithTail
    BY DEF Calm
  <2>3. /\ pte'[VmaOf[t]][chunk[t]]["head"] = frame[t]
        /\ \A m \in Vmas, c \in Chunks : m # VmaOf[t] \/ c # chunk[t] =>
             pte'[m][c] = pte[m][c]
    BY <1>2, <1>3 DEF PagingTypes, Sub
  <2>4. \A u \in Threads : pc[u] = "finish" => u = t
    BY <1>5
  <2>5. QED
    BY <2>1, <2>2, <2>3, <2>4 DEF HeadWithTail
<1>17. QED
  BY <1>8, <1>9, <1>10, <1>11, <1>12, <1>13, <1>14, <1>15, <1>16 DEF Calm

(* A fault begins, with every other thread at user code (else raced).      *)
LEMMA UserFaultCalm ==
  ASSUME PagingTypes, LocalTypes, Calm, PagingTypes', LocalTypes',
         NEW t \in Threads, NEW c \in Chunks, NEW s \in Sub, UserFault(t, c, s), ~raced'
  PROVE  Calm'
<1>1. /\ s = "head" /\ Entry(t, c, "head") = NULL
      /\ VmaOf[t] \in mapped
      /\ \A u \in Threads : ~Faulting(u)
  BY DEF UserFault, Sub
<1>2. /\ pc[t] = "user" /\ pc' = [pc EXCEPT ![t] = "fault"]
      /\ chunk' = [chunk EXCEPT ![t] = c] /\ sub' = [sub EXCEPT ![t] = s]
      /\ UNCHANGED <<vstatus, phy_desc, pstatus, mapped, pte, frame, victim>>
  BY DEF UserFault, Step, desc, maps
<1>3. \A u \in Threads : pc[u] = "user" /\ pc'[u] = IF u = t THEN "fault" ELSE "user"
  BY <1>1, <1>2 DEF Calm, NoBug, Faulting, PagingTypes
<1>4. chunk'[t] = c /\ sub'[t] = "head"
  BY <1>1, <1>2 DEF PagingTypes
<1>5. NoBug' /\ Alone'
  BY <1>3 DEF NoBug, Alone, Faulting
<1>6. \A u \in Threads : FaultState(u)'
  BY <1>1, <1>2, <1>3, <1>4 DEF FaultState, Faulting, Entry
<1>7. OneOwner' /\ InMemOwns' /\ UsedOwned'
  BY <1>2 DEF Calm, OneOwner, InMemOwns, UsedOwned
<1>8. OwnersInMem' /\ FreeUnowned' /\ HeadWithTail'
  BY <1>2, <1>3
  DEF Calm, OwnersInMem, FreeUnowned, HeadWithTail, Filling, Taking, Leaving
<1>9. QED
  BY <1>5, <1>6, <1>7, <1>8 DEF Calm

(* munmap waits for the faults in its mapping and drops its entries.       *)
LEMMA MunmapCalm ==
  ASSUME PagingTypes, Calm, NEW m \in Vmas, munmap(m)
  PROVE  Calm'
<1>1. /\ \A t \in Threads : VmaOf[t] = m => pc[t] = "user"
      /\ mapped' = mapped \ {m}
      /\ pte' = [pte EXCEPT ![m] = NoPtes]
      /\ UNCHANGED <<vstatus, phy_desc, pstatus, pc, chunk, sub, frame, victim>>
  BY DEF munmap, desc, local
<1>2. \A c \in Chunks, s \in Sub : pte'[m][c][s] = NULL
  BY <1>1 DEF NoPtes, PagingTypes
<1>3. \A n \in Vmas : n # m => pte'[n] = pte[n]
  BY <1>1 DEF PagingTypes
<1>4. \A t \in Threads : FaultState(t)'
  <2>1. SUFFICES ASSUME NEW t \in Threads PROVE FaultState(t)'
    OBVIOUS
  <2>2. FaultState(t)
    BY DEF Calm
  <2>3. CASE VmaOf[t] = m
    BY <1>1, <2>2, <2>3 DEF FaultState, Faulting
  <2>4. CASE VmaOf[t] # m
    BY <1>1, <1>3, <2>2, <2>4, PcieAssumption DEF FaultState, Faulting, Entry
  <2>5. QED
    BY <2>3, <2>4
<1>5. HeadWithTail'
  BY <1>1, <1>2, <1>3 DEF Calm, HeadWithTail, Sub
<1>6. QED
  BY <1>1, <1>4, <1>5 DEF Calm, NoBug, Alone, Faulting, OneOwner, InMemOwns,
     OwnersInMem, UsedOwned, FreeUnowned, Filling, Taking, Leaving

(* A reset with no fault under way leaves nothing in memory.               *)
LEMMA ResetCalm ==
  ASSUME PagingTypes, Calm, pcie_mm_reset, ~raced'
  PROVE  Calm'
<1>1. /\ vstatus' = [c \in Chunks |-> "NO_MAP"]
      /\ phy_desc' = [c \in Chunks |-> NULL]
      /\ pstatus' = [f \in Frames |-> "FREE"]
      /\ \A t \in Threads : ~Faulting(t)
      /\ UNCHANGED <<mapped, pte, pc, chunk, sub, frame, victim>>
  BY DEF pcie_mm_reset, maps, local
<1>2. \A t \in Threads : pc'[t] = "user"
  BY <1>1 DEF Calm, NoBug, Faulting
<1>3. NoBug' /\ Alone' /\ \A t \in Threads : FaultState(t)'
  BY <1>2 DEF NoBug, Alone, Faulting, FaultState
<1>4. OneOwner' /\ InMemOwns' /\ OwnersInMem' /\ UsedOwned' /\ FreeUnowned'
  BY <1>1 DEF OneOwner, InMemOwns, OwnersInMem, UsedOwned, FreeUnowned
<1>5. HeadWithTail'
  BY <1>1 DEF Calm, HeadWithTail
<1>6. QED
  BY <1>3, <1>4, <1>5 DEF Calm

(* Steps that change no descriptor, no entry and no fault; a new mapping   *)
(* among them.                                                             *)
LEMMA OtherCalm ==
  ASSUME Calm, mapped \subseteq mapped',
         UNCHANGED <<vstatus, phy_desc, pstatus, pte, pc, chunk, sub, frame, victim>>
  PROVE  Calm'
<1>1. \A t \in Threads : FaultState(t)'
  BY DEF Calm, FaultState, Faulting, Entry
<1>2. QED
  BY <1>1 DEF Calm, NoBug, Alone, Faulting, OneOwner, InMemOwns, OwnersInMem,
     UsedOwned, FreeUnowned, HeadWithTail, Filling, Taking, Leaving
-----------------------------------------------------------------------------
(* raced is never taken back. *)
LEMMA RacedStays == [Next]_vars /\ raced => raced'
<1>1. \A t \in Threads :
        /\ FaultCheck(t) \/ FillFree(t) \/ FillEvict(t) => UNCHANGED raced
        /\ PageinLock(t) \/ PageinRead(t) \/ FillUse(t) => UNCHANGED raced
  BY DEF FaultCheck, FillFree, FillEvict, PageinLock, PageinRead, FillUse, Die, hist
<1>2. \A t \in Threads :
        /\ EvictLock(t) \/ EvictWrite(t) \/ EvictZap(t) => UNCHANGED raced
        /\ EvictMove(t) \/ EvictRead(t) \/ EvictUnlock(t) => UNCHANGED raced
        /\ FaultMap(t) \/ FaultFinish(t) => UNCHANGED raced
  BY DEF EvictLock, EvictWrite, EvictZap, EvictMove, EvictRead, EvictUnlock,
     FaultMap, FaultFinish, Die, hist
<1>3. \A t \in Threads : pcieBase_fault(t) => UNCHANGED raced
  BY <1>1, <1>2 DEF pcieBase_fault
<1>4. \A t \in Threads : User(t) /\ raced => raced'
  BY ZenonT(40) DEF User, UserRead, UserWrite, UserFault, hist
<1>5. \A m \in Vmas : pcieBase_mmap(m) \/ munmap(m) => UNCHANGED raced
  BY DEF pcieBase_mmap, munmap, hist
<1>6. pcie_mm_reset /\ raced => raced'
  BY DEF pcie_mm_reset
<1>7. UNCHANGED vars => UNCHANGED raced
  BY DEF vars, hist
<1>8. QED
  BY <1>3, <1>4, <1>5, <1>6, <1>7 DEF Next

(* The descriptors start calm and stay so until something races.           *)
LEMMA PagingInit == Init => PagingInv
<1> SUFFICES ASSUME Init PROVE PagingInv
  OBVIOUS
<1>1. PagingTypes
  BY PcieAssumption DEF Init, PagingTypes, NoPtes, Pcs
<1>2. \A t \in Threads : pc[t] = "user"
  BY DEF Init
<1>3. LocalTypes
  BY <1>2 DEF LocalTypes, Faulting
<1>4. NoBug /\ Alone /\ \A t \in Threads : FaultState(t)
  BY <1>2 DEF NoBug, Alone, Faulting, FaultState
<1>5. OneOwner /\ InMemOwns /\ OwnersInMem /\ UsedOwned /\ FreeUnowned
  BY DEF Init, OneOwner, InMemOwns, OwnersInMem, UsedOwned, FreeUnowned
<1>6. HeadWithTail
  BY DEF Init, HeadWithTail, NoPtes, Sub
<1>7. QED
  BY <1>1, <1>3, <1>4, <1>5, <1>6 DEF PagingInv, Calm

(* Every step keeps them so. *)
LEMMA PagingStep == PagingInv /\ [Next]_vars => PagingInv'
<1> SUFFICES ASSUME PagingInv, [Next]_vars, ~raced'
             PROVE  Calm'
  BY TypesStep, LocalStep DEF PagingInv
<1>1. PagingTypes /\ LocalTypes /\ PagingTypes' /\ LocalTypes' /\ Calm
  BY TypesStep, LocalStep, RacedStays DEF PagingInv
<1>2. ASSUME NEW m \in Vmas, pcieBase_mmap(m) PROVE Calm'
  BY <1>1, <1>2, OtherCalm DEF pcieBase_mmap, desc, local
<1>3. ASSUME NEW m \in Vmas, munmap(m) PROVE Calm'
  BY <1>1, <1>3, MunmapCalm
<1>4. CASE pcie_mm_reset
  BY <1>1, <1>4, ResetCalm
<1>5. ASSUME NEW t \in Threads, NEW c \in Chunks, NEW s \in Sub, UserRead(t, c, s)
      PROVE  Calm'
  BY <1>1, <1>5, OtherCalm DEF UserRead, desc, local, maps
<1>6. ASSUME NEW t \in Threads, NEW c \in Chunks, NEW s \in Sub, NEW v \in Value,
             UserWrite(t, c, s, v)
      PROVE  Calm'
  BY <1>1, <1>6, OtherCalm DEF UserWrite, desc, local, maps
<1>7. ASSUME NEW t \in Threads, NEW c \in Chunks, NEW s \in Sub, UserFault(t, c, s)
      PROVE  Calm'
  BY <1>1, <1>7, UserFaultCalm
<1>8. ASSUME NEW t \in Threads, pcieBase_fault(t) PROVE Calm'
  BY <1>1, <1>8, FaultCheckCalm, FillFreeCalm, FillEvictCalm, PageinLockCalm,
     PageinReadCalm, FillUseCalm, EvictLockCalm, EvictWriteCalm, EvictZapCalm,
     EvictMoveCalm, EvictReadCalm, EvictUnlockCalm, FaultMapCalm, FaultFinishCalm
  DEF pcieBase_fault
<1>9. CASE UNCHANGED vars
  BY <1>1, <1>9, OtherCalm DEF vars, desc, local, maps
<1>10. QED
  BY <1>2, <1>3, <1>4, <1>5, <1>6, <1>7, <1>8, <1>9 DEF Next, User

(* Until faults overlap, a reset falls into a fault, or a tail is touched  *)
(* first, the descriptors are as the one fault under way leaves them.      *)
THEOREM PagingInvariant == Spec => []PagingInv
<1>1. QED
  BY PagingInit, PagingStep, PTL DEF Spec

(* No BUG() of pcie_mm.c, no double remap_pfn_range and no NULL descriptor *)
(* is reached by any number of threads and processes, with failing         *)
(* transfers and resets at any time, unless something raced.               *)
THEOREM NoBugUnlessRacedHolds == Spec => []NoBugUnlessRaced
<1>1. PagingInv => NoBugUnlessRaced
  BY DEF PagingInv, Calm, NoBugUnlessRaced
<1>2. QED
  BY <1>1, PagingInvariant, PTL

(* Between faults each frame in use has exactly one chunk in memory and a  *)
(* free one none, unless something raced.                                  *)
THEOREM FrameOwnedHolds == Spec => []FrameOwned
<1>1. PagingInv => FrameOwned
  <2>1. SUFFICES ASSUME PagingTypes, Calm, Quiet
                 PROVE  /\ \A c \in Chunks : vstatus[c] = "IN_MEM" <=> phy_desc[c] # NULL
                        /\ \A f \in Frames :
                             Cardinality({c \in Chunks : phy_desc[c] = f}) =
                               (IF pstatus[f] = "IN_USE" THEN 1 ELSE 0)
    BY DEF PagingInv, FrameOwned
  <2>2. \A c \in Chunks : vstatus[c] = "IN_MEM" <=> phy_desc[c] # NULL
    BY <2>1 DEF Calm, InMemOwns, OwnersInMem, Quiet, Faulting, Filling, Taking, Leaving
  <2>3. ASSUME NEW f \in Frames
        PROVE  Cardinality({c \in Chunks : phy_desc[c] = f}) =
                 (IF pstatus[f] = "IN_USE" THEN 1 ELSE 0)
    <3>1. f # NULL
      BY PcieAssumption
    <3>2. CASE pstatus[f] = "IN_USE"
      <4>1. PICK c \in Chunks : phy_desc[c] = f
        BY <2>1, <3>2 DEF Calm, UsedOwned
      <4>2. {d \in Chunks : phy_desc[d] = f} = {c}
        BY <2>1, <3>1, <4>1 DEF Calm, OneOwner
      <4>3. QED
        BY <3>2, <4>2, FS_Singleton
    <3>3. CASE pstatus[f] # "IN_USE"
      <4>1. pstatus[f] = "FREE"
        BY <2>1, <3>3 DEF PagingTypes
      <4>2. {d \in Chunks : phy_desc[d] = f} = {}
        BY <2>1, <3>1, <4>1 DEF Calm, FreeUnowned, Quiet, Faulting, Filling
      <4>3. QED
        BY <3>3, <4>2, FS_EmptySet
    <3>4. QED
      BY <3>2, <3>3
  <2>4. QED
    BY <2>2, <2>3
<1>2. QED
  BY <1>1, PagingInvariant, PTL
-----------------------------------------------------------------------------
(* Steps that add no entry, take no frame from a chunk and let no chunk    *)
(* out of memory keep every entry sound.                                   *)
LEMMA EntriesKeep ==
  ASSUME Entries, UNCHANGED pte, mapped \subseteq mapped',
         \A c \in Chunks : phy_desc[c] # NULL =>
           /\ phy_desc'[c] = phy_desc[c]
           /\ vstatus[c] = "IN_MEM" => vstatus'[c] = "IN_MEM",
         \A t \in Threads : pc[t] = "zap" => pc'[t] = "zap" /\ victim'[t] = victim[t],
         \A t \in Threads : pc'[t] = "move" => pc[t] = "move" /\ victim'[t] = victim[t]
  PROVE  Entries'
<1>1. EntriesInMapped'
  BY DEF Entries, EntriesInMapped
<1>2. PteSound'
  BY DEF Entries, PteSound
<1>3. VictimUnmapped'
  BY DEF Entries, VictimUnmapped
<1>4. QED
  BY <1>1, <1>2, <1>3 DEF Entries

(* Such are the steps of a fault, but for four of them. *)
LEMMA FaultKeepsEntries ==
  ASSUME PagingTypes, LocalTypes, Calm, Entries, NEW t \in Threads,
         \/ FaultCheck(t) \/ FillFree(t) \/ FillEvict(t)
         \/ PageinLock(t) \/ PageinRead(t) \/ FillUse(t)
         \/ EvictLock(t) \/ EvictRead(t) \/ EvictUnlock(t)
  PROVE  Entries'
<1>1. CASE FaultCheck(t)
  BY <1>1, FaultCheckEffect, EntriesKeep DEF PagingTypes
<1>2. CASE FillFree(t)
  <2>1. phy_desc[chunk[t]] = NULL
    BY <1>2, FillFreeEffect DEF FaultState
  <2>2. QED
    BY <1>2, <2>1, FillFreeEffect, EntriesKeep DEF PagingTypes
<1>3. CASE FillEvict(t)
  BY <1>3, FillEvictEffect, EntriesKeep DEF PagingTypes
<1>4. CASE PageinLock(t)
  BY <1>4, PageinLockEffect, EntriesKeep DEF PagingTypes
<1>5. CASE PageinRead(t)
  BY <1>5, PageinReadEffect, EntriesKeep DEF PagingTypes
<1>6. CASE FillUse(t)
  BY <1>6, FillUseEffect, EntriesKeep DEF PagingTypes
<1>7. CASE EvictLock(t)
  BY <1>7, EvictLockEffect, EntriesKeep DEF PagingTypes
<1>8. CASE EvictRead(t)
  BY <1>8, EvictReadEffect, EntriesKeep DEF PagingTypes
<1>9. CASE EvictUnlock(t)
  BY <1>9, EvictUnlockEffect, EntriesKeep DEF PagingTypes
<1>10. QED
  BY <1>1, <1>2, <1>3, <1>4, <1>5, <1>6, <1>7, <1>8, <1>9

(* The victim leaves memory with its entries, but is on its way to the zap. *)
LEMMA EvictWriteEntries ==
  ASSUME PagingTypes, LocalTypes, Calm, Entries, NEW t \in Threads, EvictWrite(t)
  PROVE  Entries'
<1>1. /\ pc[t] = "write" /\ pc' = [pc EXCEPT ![t] = "zap"]
      /\ vstatus' = [vstatus EXCEPT ![victim[t]] = "IN_SWAP"]
      /\ UNCHANGED <<phy_desc, mapped, pte, victim>>
  BY EvictWriteEffect
<1>2. EntriesInMapped'
  BY <1>1 DEF Entries, EntriesInMapped
<1>3. PteSound'
  BY <1>1 DEF Entries, PteSound, PagingTypes
<1>4. VictimUnmapped'
  BY <1>1 DEF Entries, VictimUnmapped, PagingTypes
<1>5. QED
  BY <1>2, <1>3, <1>4 DEF Entries

(* In one process the zapped mapping is the only one with entries.         *)
LEMMA EvictZapEntries ==
  ASSUME OneProcess, PagingTypes, LocalTypes, Calm, Entries, NEW t \in Threads,
         EvictZap(t)
  PROVE  Entries'
<1>1. /\ pc[t] = "zap" /\ pc' = [pc EXCEPT ![t] = "move"] /\ VmaOf[t] \in Vmas
      /\ Faulting(t)
      /\ pte' = [pte EXCEPT ![VmaOf[t]][victim[t]] = [s \in Sub |-> NULL]]
      /\ UNCHANGED <<vstatus, phy_desc, mapped, victim>>
  BY EvictZapEffect
<1>2. victim[t] \in Chunks
  BY <1>1 DEF LocalTypes
<1>3. \A m \in Vmas, c \in Chunks, s \in Sub :
        pte'[m][c][s] = IF m = VmaOf[t] /\ c = victim[t] THEN NULL ELSE pte[m][c][s]
  BY <1>1, <1>2 DEF PagingTypes
<1>4. \A m \in Vmas, c \in Chunks, s \in Sub : pte[m][c][s] # NULL => m = VmaOf[t]
  BY DEF Entries, EntriesInMapped, OneProcess
<1>5. \A u \in Threads : u # t => pc[u] = "user" /\ pc'[u] = "user"
  BY <1>1, OthersAtUser
<1>6. EntriesInMapped'
  BY <1>1, <1>3 DEF Entries, EntriesInMapped
<1>7. PteSound'
  BY <1>1, <1>3, <1>4, <1>5 DEF Entries, PteSound
<1>8. VictimUnmapped'
  BY <1>1, <1>2, <1>3, <1>4, <1>5 DEF VictimUnmapped
<1>9. QED
  BY <1>6, <1>7, <1>8 DEF Entries

(* The frame changes hands when neither chunk has an entry. *)
LEMMA EvictMoveEntries ==
  ASSUME PagingTypes, LocalTypes, Calm, Entries, NEW t \in Threads, EvictMove(t)
  PROVE  Entries'
<1>1. /\ pc[t] = "move" /\ pc' \in {[pc EXCEPT ![t] = p] : p \in {"read", "unlock"}}
      /\ Faulting(t) /\ FaultState(t) /\ chunk[t] \in Chunks
      /\ \A c \in Chunks : c \notin {chunk[t], victim[t]} => phy_desc'[c] = phy_desc[c]
      /\ UNCHANGED <<vstatus, mapped, pte, victim>>
  BY EvictMoveEffect
<1>2. PICK p \in {"read", "unlock"} : pc' = [pc EXCEPT ![t] = p]
  BY <1>1
<1>3. \A u \in Threads : pc'[u] # "move" /\ pc'[u] # "zap" /\ pc[u] # "zap"
  BY <1>1, <1>2, OthersAtUser
<1>4. phy_desc[chunk[t]] = NULL
  BY <1>1 DEF FaultState
<1>5. \A m \in Vmas, s \in Sub :
        pte[m][chunk[t]][s] = NULL /\ pte[m][victim[t]][s] = NULL
  BY <1>1, <1>4 DEF Entries, PteSound, VictimUnmapped
<1>6. EntriesInMapped' /\ VictimUnmapped'
  BY <1>1, <1>3 DEF Entries, EntriesInMapped, VictimUnmapped
<1>7. PteSound'
  BY <1>1, <1>3, <1>5 DEF Entries, PteSound
<1>8. QED
  BY <1>6, <1>7 DEF Entries

(* The end of a fault maps the frame the chunk owns. *)
LEMMA MapEntries ==
  ASSUME PagingTypes, LocalTypes, Calm, Entries, NEW t \in Threads,
         FaultMap(t) \/ FaultFinish(t)
  PROVE  Entries'
<1>1. PICK s \in Sub, p \in {"finish", "user"} :
        /\ pc[t] \in {"map", "finish"} /\ pc' = [pc EXCEPT ![t] = p]
        /\ pte' = [pte EXCEPT ![VmaOf[t]][chunk[t]][s] = phy_desc[chunk[t]]]
  <2>1. CASE FaultMap(t)
    BY <2>1, FaultMapEffect DEF Sub
  <2>2. CASE FaultFinish(t)
    <3>1. /\ pc[t] = "finish" /\ pc' = [pc EXCEPT ![t] = "user"] /\ FaultState(t)
          /\ pte' = [pte EXCEPT ![VmaOf[t]][chunk[t]]["head"] = frame[t]]
      BY <2>2, FaultFinishEffect
    <3>2. frame[t] = phy_desc[chunk[t]]
      BY <3>1 DEF FaultState
    <3>3. QED
      BY <3>1, <3>2 DEF Sub
  <2>3. QED
    BY <2>1, <2>2
<1>2. /\ Faulting(t) /\ FaultState(t) /\ chunk[t] \in Chunks /\ VmaOf[t] \in Vmas
      /\ UNCHANGED <<vstatus, phy_desc, mapped>>
  BY FaultMapEffect, FaultFinishEffect
<1>3. VmaOf[t] \in mapped /\ vstatus[chunk[t]] = "IN_MEM"
  BY <1>1, <1>2 DEF FaultState
<1>4. \A m \in Vmas, c \in Chunks, r \in Sub :
        pte'[m][c][r] = IF m = VmaOf[t] /\ c = chunk[t] /\ r = s
                          THEN phy_desc[chunk[t]] ELSE pte[m][c][r]
  BY <1>1, <1>2 DEF PagingTypes
<1>5. \A u \in Threads : pc'[u] # "move" /\ pc[u] # "zap"
  BY <1>1, <1>2, OthersAtUser
<1>6. EntriesInMapped'
  BY <1>2, <1>3, <1>4 DEF Entries, EntriesInMapped
<1>7. PteSound'
  BY <1>2, <1>3, <1>4, <1>5 DEF Entries, PteSound
<1>8. VictimUnmapped'
  BY <1>5 DEF VictimUnmapped
<1>9. QED
  BY <1>6, <1>7, <1>8 DEF Entries

(* munmap drops the entries of its mapping. *)
LEMMA MunmapEntries ==
  ASSUME PagingTypes, LocalTypes, Entries, NEW m \in Vmas, munmap(m)
  PROVE  Entries'
<1>1. /\ mapped' = mapped \ {m}
      /\ pte' = [pte EXCEPT ![m] = NoPtes]
      /\ UNCHANGED <<vstatus, phy_desc, pc, victim>>
  BY DEF munmap, desc, local
<1>2. \A n \in Vmas, c \in Chunks, s \in Sub :
        pte'[n][c][s] = IF n = m THEN NULL ELSE pte[n][c][s]
  BY <1>1 DEF NoPtes, PagingTypes
<1>3. EntriesInMapped'
  BY <1>1, <1>2 DEF Entries, EntriesInMapped
<1>4. PteSound'
  BY <1>1, <1>2 DEF Entries, PteSound
<1>5. VictimUnmapped'
  <2>1. SUFFICES ASSUME NEW t \in Threads, pc[t] = "move", NEW n \in Vmas, NEW s \in Sub
                 PROVE  pte'[n][victim[t]][s] = NULL
    BY <1>1 DEF VictimUnmapped
  <2>2. pte[n][victim[t]][s] = NULL
    BY <2>1 DEF Entries, VictimUnmapped
  <2>3. victim[t] \in Chunks
    BY <2>1 DEF LocalTypes
  <2>4. QED
    BY <1>2, <2>2, <2>3
<1>6. QED
  BY <1>3, <1>4, <1>5 DEF Entries

(* A reset before the device is touched finds no entry. *)
LEMMA ResetEntries ==
  ASSUME PagingTypes, LocalTypes, ~ResetAnyTime, Entries, pcie_mm_reset
  PROVE  Entries'
<1>1. Untouched /\ UNCHANGED <<mapped, pte, pc, victim>>
  BY DEF pcie_mm_reset, maps, local
<1>2. \A m \in Vmas, c \in Chunks, s \in Sub : pte[m][c][s] = NULL
  BY <1>1 DEF Untouched, NoPtes
<1>3. EntriesInMapped' /\ PteSound'
  BY <1>1, <1>2 DEF EntriesInMapped, PteSound
<1>4. VictimUnmapped'
  BY <1>1 DEF Entries, VictimUnmapped
<1>5. QED
  BY <1>3, <1>4 DEF Entries
-----------------------------------------------------------------------------
(* No entry exists at first. *)
LEMMA PteInit == Init => PteInv
<1> SUFFICES ASSUME Init PROVE PteInv
  OBVIOUS
<1>1. \A m \in Vmas, c \in Chunks, s \in Sub : pte[m][c][s] = NULL
  BY DEF Init, NoPtes
<1>2. EntriesInMapped /\ PteSound
  BY <1>1 DEF EntriesInMapped, PteSound
<1>3. VictimUnmapped
  BY DEF Init, VictimUnmapped
<1>4. QED
  BY <1>2, <1>3, PagingInit DEF PteInv, Entries

(* Every step of one process keeps the entries sound. *)
LEMMA PteStep ==
  ASSUME OneProcess, ~ResetAnyTime
  PROVE  PteInv /\ [Next]_vars => PteInv'
<1> SUFFICES ASSUME PteInv, [Next]_vars, ~raced'
             PROVE  Entries'
  BY PagingStep DEF PteInv
<1>1. PagingTypes /\ LocalTypes /\ Calm /\ Entries
  BY RacedStays DEF PteInv, PagingInv
<1>2. ASSUME NEW m \in Vmas, pcieBase_mmap(m) PROVE Entries'
  BY <1>1, <1>2, EntriesKeep DEF pcieBase_mmap, desc, local
<1>3. ASSUME NEW m \in Vmas, munmap(m) PROVE Entries'
  BY <1>1, <1>3, MunmapEntries
<1>4. CASE pcie_mm_reset
  BY <1>1, <1>4, ResetEntries
<1>5. ASSUME NEW t \in Threads, NEW c \in Chunks, NEW s \in Sub, UserRead(t, c, s)
      PROVE  Entries'
  BY <1>1, <1>5, EntriesKeep DEF UserRead, desc, local, maps
<1>6. ASSUME NEW t \in Threads, NEW c \in Chunks, NEW s \in Sub, NEW v \in Value,
             UserWrite(t, c, s, v)
      PROVE  Entries'
  BY <1>1, <1>6, EntriesKeep DEF UserWrite, desc, local, maps
<1>7. ASSUME NEW t \in Threads, NEW c \in Chunks, NEW s \in Sub, UserFault(t, c, s)
      PROVE  Entries'
  BY <1>1, <1>7, EntriesKeep DEF UserFault, Step, desc, maps, PagingTypes
<1>8. ASSUME NEW t \in Threads, pcieBase_fault(t) PROVE Entries'
  BY <1>1, <1>8, FaultKeepsEntries, EvictWriteEntries, EvictZapEntries,
     EvictMoveEntries, MapEntries
  DEF pcieBase_fault
<1>9. CASE UNCHANGED vars
  BY <1>1, <1>9, EntriesKeep DEF vars, desc, local, maps
<1>10. QED
  BY <1>2, <1>3, <1>4, <1>5, <1>6, <1>7, <1>8, <1>9 DEF Next, User

(* In one process of any number of threads, whose device is not reset      *)
(* once it is touched, an entry leads to the frame its chunk owns until    *)
(* faults overlap, failing transfers or not.                               *)
THEOREM PteSoundUnlessRaced ==
  ASSUME OneProcess, ~ResetAnyTime
  PROVE  Spec => [](PteSound \/ raced)
<1>1. PteInv => PteSound \/ raced
  BY DEF PteInv, Entries
<1>2. QED
  BY <1>1, PteInit, PteStep, PTL DEF Spec

(* One thread that touches heads first cannot race. *)
LEMMA OneThreadStep ==
  ASSUME OneThread, ~ResetAnyTime, ~AnyOrder
  PROVE  PteInv /\ ~raced /\ [Next]_vars => ~raced'
<1> SUFFICES ASSUME PteInv, ~raced, [Next]_vars, raced'
             PROVE  FALSE
  OBVIOUS
<1>1. PagingTypes /\ LocalTypes /\ Calm
  BY DEF PteInv, PagingInv
<1>2. \A t \in Threads : ~pcieBase_fault(t)
  <2>1. SUFFICES ASSUME NEW t \in Threads, pcieBase_fault(t) PROVE FALSE
    OBVIOUS
  <2>2. ~FaultCheck(t) /\ ~FillFree(t) /\ ~FillEvict(t) /\ ~PageinLock(t)
    BY <1>1, FaultCheckEffect, FillFreeEffect, FillEvictEffect, PageinLockEffect
  <2>3. ~PageinRead(t) /\ ~FillUse(t) /\ ~EvictLock(t) /\ ~EvictWrite(t)
    BY <1>1, PageinReadEffect, FillUseEffect, EvictLockEffect, EvictWriteEffect
  <2>4. ~EvictZap(t) /\ ~EvictMove(t) /\ ~EvictRead(t) /\ ~EvictUnlock(t)
    BY <1>1, EvictZapEffect, EvictMoveEffect, EvictReadEffect, EvictUnlockEffect
  <2>5. ~FaultMap(t) /\ ~FaultFinish(t)
    BY <1>1, FaultMapEffect, FaultFinishEffect
  <2>6. QED
    BY <2>1, <2>2, <2>3, <2>4, <2>5 DEF pcieBase_fault
<1>3. ASSUME NEW t \in Threads, NEW c \in Chunks, NEW s \in Sub, UserFault(t, c, s)
      PROVE  FALSE
  <2>1. s = "head" /\ pc[t] = "user"
    BY <1>3 DEF UserFault, Step
  <2>2. PICK u \in Threads : Faulting(u)
    BY <1>3, <2>1 DEF UserFault
  <2>3. QED
    BY <2>1, <2>2 DEF OneThread, Faulting
<1>4. CASE pcie_mm_reset
  <2>1. \A t \in Threads : ~Faulting(t)
    BY <1>4 DEF pcie_mm_reset, Untouched
  <2>2. \E t \in Threads : Faulting(t)
    BY <1>4 DEF pcie_mm_reset
  <2>3. QED
    BY <2>1, <2>2
<1>5. \A t \in Threads : User(t) =>
        \E c \in Chunks, s \in Sub : UserFault(t, c, s)
  BY DEF User, UserRead, UserWrite, hist
<1>6. \A m \in Vmas : ~pcieBase_mmap(m) /\ ~munmap(m)
  BY DEF pcieBase_mmap, munmap, hist
<1>7. ~UNCHANGED vars
  BY DEF vars, hist
<1>8. QED
  BY <1>2, <1>3, <1>4, <1>5, <1>6, <1>7 DEF Next

(* For one thread whose device is not reset once it is touched, an entry   *)
(* never outlives its chunk's stay in memory, failing transfers or not.    *)
THEOREM PteSoundHolds ==
  ASSUME OneThread, ~ResetAnyTime, ~AnyOrder
  PROVE  Spec => []PteSound
<1>1. OneProcess
  BY DEF OneThread, OneProcess
<1>2. Init => ~raced
  BY DEF Init
<1>3. PteInv /\ ~raced => PteSound
  BY DEF PteInv, Entries
<1>4. QED
  BY <1>1, <1>2, <1>3, PteInit, PteStep, OneThreadStep, PTL DEF Spec
-----------------------------------------------------------------------------
(* A chunk read back is in its frame when it comes into memory.  There is  *)
(* one thread, so nothing else writes the frame meanwhile.                 *)
LEMMA ReturnedStep ==
  ASSUME OneThread, ~IoMayFail, MemoryInv, PagingTypes', [Next]_vars, ~raced'
  PROVE  Returned'
<1>1. PagingTypes /\ LocalTypes /\ Calm /\ Returned
  BY DEF MemoryInv, PteInv, PagingInv
<1>2. ASSUME NEW t \in Threads, pc'[t] \notin {"use", "unlock"}
      PROVE  Returned'
  BY <1>2 DEF OneThread, Returned
<1>3. ASSUME NEW t \in Threads, pcieBase_fault(t)
      PROVE  Returned'
  <2>1. CASE FaultCheck(t)
    <3>1. PICK p \in {"map", "fill"} : pc' = [pc EXCEPT ![t] = p]
      BY <1>1, <2>1, FaultCheckEffect
    <3>2. QED
      BY <1>1, <1>2, <3>1 DEF PagingTypes
  <2>2. CASE FillFree(t)
    <3>1. /\ chunk[t] \in Chunks /\ UNCHANGED <<vstatus, chunk>>
          /\ pc' \in {[pc EXCEPT ![t] = p] : p \in {"pagein", "use"}}
          /\ pc'[t] = "use" <=> vstatus[chunk[t]] # "IN_SWAP"
      BY <1>1, <2>2, FillFreeEffect
    <3>2. pc'[t] # "unlock"
      BY <1>1, <3>1 DEF PagingTypes
    <3>3. QED
      BY <3>1, <3>2 DEF Returned, OneThread
  <2>3. CASE FillEvict(t)
    <3>1. pc' = [pc EXCEPT ![t] = "lock"]
      BY <1>1, <2>3, FillEvictEffect
    <3>2. QED
      BY <1>1, <1>2, <3>1 DEF PagingTypes
  <2>4. CASE PageinLock(t)
    <3>1. pc' = [pc EXCEPT ![t] = "pageread"]
      BY <1>1, <2>4, PageinLockEffect
    <3>2. QED
      BY <1>1, <1>2, <3>1 DEF PagingTypes
  <2>5. CASE PageinRead(t)
    <3>1. /\ mem' = [mem EXCEPT ![frame[t]] = swap[chunk[t]]]
          /\ pc[t] = "pageread" /\ Faulting(t)
          /\ UNCHANGED <<swap, chunk, frame>>
      BY <1>1, <2>5, PageinReadEffect
    <3>2. frame[t] \in Frames
      BY <1>1, <3>1 DEF LocalTypes
    <3>3. mem'[frame'[t]] = swap'[chunk'[t]]
      BY <1>1, <3>1, <3>2 DEF PagingTypes
    <3>4. QED
      BY <3>3 DEF Returned, OneThread
  <2>6. CASE FillUse(t)
    <3>1. pc' = [pc EXCEPT ![t] = "map"]
      BY <1>1, <2>6, FillUseEffect
    <3>2. QED
      BY <1>1, <1>2, <3>1 DEF PagingTypes
  <2>7. CASE EvictLock(t)
    <3>1. pc' = [pc EXCEPT ![t] = "write"]
      BY <1>1, <2>7, EvictLockEffect
    <3>2. QED
      BY <1>1, <1>2, <3>1 DEF PagingTypes
  <2>8. CASE EvictWrite(t)
    <3>1. pc' = [pc EXCEPT ![t] = "zap"]
      BY <1>1, <2>8, EvictWriteEffect
    <3>2. QED
      BY <1>1, <1>2, <3>1 DEF PagingTypes
  <2>9. CASE EvictZap(t)
    <3>1. pc' = [pc EXCEPT ![t] = "move"]
      BY <1>1, <2>9, EvictZapEffect
    <3>2. QED
      BY <1>1, <1>2, <3>1 DEF PagingTypes
  <2>10. CASE EvictMove(t)
    <3>1. /\ chunk[t] \in Chunks /\ UNCHANGED <<vstatus, chunk>>
          /\ pc' \in {[pc EXCEPT ![t] = p] : p \in {"read", "unlock"}}
          /\ pc'[t] = "unlock" <=> vstatus[chunk[t]] # "IN_SWAP"
      BY <1>1, <2>10, EvictMoveEffect
    <3>2. pc'[t] # "use"
      BY <1>1, <3>1 DEF PagingTypes
    <3>3. QED
      BY <3>1, <3>2 DEF Returned, OneThread
  <2>11. CASE EvictRead(t)
    <3>1. /\ mem' = [mem EXCEPT ![frame[t]] = swap[chunk[t]]]
          /\ pc[t] = "read" /\ Faulting(t)
          /\ UNCHANGED <<swap, chunk, frame>>
      BY <1>1, <2>11, EvictReadEffect
    <3>2. frame[t] \in Frames
      BY <1>1, <3>1 DEF LocalTypes
    <3>3. mem'[frame'[t]] = swap'[chunk'[t]]
      BY <1>1, <3>1, <3>2 DEF PagingTypes
    <3>4. QED
      BY <3>3 DEF Returned, OneThread
  <2>12. CASE EvictUnlock(t)
    <3>1. pc' = [pc EXCEPT ![t] = "map"]
      BY <1>1, <2>12, EvictUnlockEffect
    <3>2. QED
      BY <1>1, <1>2, <3>1 DEF PagingTypes
  <2>13. CASE FaultMap(t)
    <3>1. pc' = [pc EXCEPT ![t] = "finish"]
      BY <1>1, <2>13, FaultMapEffect
    <3>2. QED
      BY <1>1, <1>2, <3>1 DEF PagingTypes
  <2>14. CASE FaultFinish(t)
    <3>1. pc' = [pc EXCEPT ![t] = "user"]
      BY <1>1, <2>14, FaultFinishEffect
    <3>2. QED
      BY <1>1, <1>2, <3>1 DEF PagingTypes
  <2>15. QED
    BY <1>3, <2>1, <2>2, <2>3, <2>4, <2>5, <2>6, <2>7, <2>8, <2>9, <2>10, <2>11,
       <2>12, <2>13, <2>14
    DEF pcieBase_fault
<1>4. ASSUME NEW t \in Threads, User(t)
      PROVE  Returned'
  <2>1. pc'[t] \in {"user", "fault"}
    BY <1>1, <1>4 DEF User, UserRead, UserWrite, UserFault, Step, PagingTypes
  <2>2. QED
    BY <1>2, <2>1
<1>5. ASSUME NEW m \in Vmas, pcieBase_mmap(m) \/ munmap(m)
      PROVE  Returned'
  BY <1>1, <1>5 DEF pcieBase_mmap, munmap, desc, store, local, Returned
<1>6. CASE pcie_mm_reset
  <2>1. UNCHANGED <<pc, chunk>> /\ \A t \in Threads : ~Faulting(t)
    BY <1>6 DEF pcie_mm_reset, local
  <2>2. QED
    BY <2>1 DEF Returned, Faulting
<1>7. CASE UNCHANGED vars
  BY <1>1, <1>7 DEF vars, desc, store, local, Returned
<1>8. QED
  BY <1>3, <1>4, <1>5, <1>6, <1>7 DEF Next

(* The invariant of one thread, step by step. *)
LEMMA MemoryInvStep ==
  ASSUME OneThread, ~ResetAnyTime, ~AnyOrder, ~IoMayFail
  PROVE  MemoryInv /\ [Next]_vars => MemoryInv'
<1> SUFFICES ASSUME MemoryInv, [Next]_vars PROVE MemoryInv'
  OBVIOUS
<1>1. OneProcess
  BY DEF OneThread, OneProcess
<1>2. PteInv' /\ ~raced'
  BY <1>1, PteStep, OneThreadStep DEF MemoryInv
<1>3. Returned'
  BY <1>2, ReturnedStep DEF PteInv, PagingInv
<1>4. QED
  BY <1>2, <1>3 DEF MemoryInv
-----------------------------------------------------------------------------
(* What a chunk holds for the program, by where the chunk is.              *)
LEMMA ContentFacts ==
  ASSUME PagingTypes, PagingTypes'
  PROVE  /\ Content = [c \in Chunks |-> Content[c]]
         /\ Content' = [c \in Chunks |-> Content'[c]]
         /\ \A c \in Chunks :
              /\ vstatus[c] = "NO_MAP" => Content[c] = NULL
              /\ vstatus[c] = "IN_SWAP" => Content[c] = swap[c]
              /\ vstatus[c] = "IN_MEM" => Content[c] = mem[phy_desc[c]]
              /\ vstatus'[c] = "NO_MAP" => Content'[c] = NULL
              /\ vstatus'[c] = "IN_SWAP" => Content'[c] = swap'[c]
              /\ vstatus'[c] = "IN_MEM" => Content'[c] = mem'[phy_desc'[c]]
<1>1. /\ Content = [c \in Chunks |-> Content[c]]
      /\ Content' = [c \in Chunks |-> Content'[c]]
      /\ \A c \in Chunks : Content[c] = Held(c) /\ Content'[c] = Held(c)'
  BY DEF Content
<1>2. ASSUME NEW c \in Chunks
      PROVE  /\ vstatus[c] = "NO_MAP" => Held(c) = NULL
             /\ vstatus[c] = "IN_SWAP" => Held(c) = swap[c]
             /\ vstatus[c] = "IN_MEM" => Held(c) = mem[phy_desc[c]]
  BY DEF Held
<1>3. ASSUME NEW c \in Chunks
      PROVE  /\ vstatus'[c] = "NO_MAP" => Held(c)' = NULL
             /\ vstatus'[c] = "IN_SWAP" => Held(c)' = swap'[c]
             /\ vstatus'[c] = "IN_MEM" => Held(c)' = mem'[phy_desc'[c]]
  BY DEF Held
<1>4. QED
  BY <1>1, <1>2, <1>3

(* The chunks hold the same when each does. *)
LEMMA ContentSame ==
  ASSUME PagingTypes, PagingTypes', \A c \in Chunks : Content'[c] = Content[c]
  PROVE  Content' = Content
<1>1. /\ Content = [c \in Chunks |-> Content[c]]
      /\ Content' = [c \in Chunks |-> Content'[c]]
  BY ContentFacts
<1>2. QED
  BY <1>1

(* They hold the same when no chunk moves, and what is stored of those     *)
(* swapped out and in memory does not change.                              *)
LEMMA ContentKeep ==
  ASSUME PagingTypes, PagingTypes',
         \A c \in Chunks :
           /\ vstatus'[c] = vstatus[c]
           /\ vstatus[c] = "IN_SWAP" => swap'[c] = swap[c]
           /\ vstatus[c] = "IN_MEM" => mem'[phy_desc'[c]] = mem[phy_desc[c]]
  PROVE  Content' = Content
<1>1. ASSUME NEW c \in Chunks PROVE Content'[c] = Content[c]
  <2>1. vstatus[c] \in {"NO_MAP", "IN_MEM", "IN_SWAP"}
    BY DEF PagingTypes
  <2>2. QED
    BY <2>1, ContentFacts
<1>2. QED
  BY <1>1, ContentSame

(* A chunk that comes into memory keeps what was read back, or holds what  *)
(* the frame held when it was never swapped out.                           *)
LEMMA ComesIn ==
  ASSUME MemoryInv, PagingTypes', NEW t \in Threads, chunk[t] \in Chunks,
         pc[t] \in {"use", "unlock"}, FaultState(t), frame[t] \in Frames,
         vstatus' = [vstatus EXCEPT ![chunk[t]] = "IN_MEM"],
         UNCHANGED <<phy_desc, mem, swap, last>>
  PROVE  [Memory!MemNext]_<<Content, last>>
<1>1. PagingTypes /\ Returned
  BY DEF MemoryInv, PteInv, PagingInv
<1>2. vstatus[chunk[t]] # "IN_MEM" /\ phy_desc[chunk[t]] = frame[t]
  BY DEF FaultState
<1>3. \A c \in Chunks : c # chunk[t] => Content'[c] = Content[c]
  <2>1. SUFFICES ASSUME NEW c \in Chunks, c # chunk[t]
                 PROVE  Content'[c] = Content[c]
    OBVIOUS
  <2>2. vstatus[c] \in {"NO_MAP", "IN_MEM", "IN_SWAP"} /\ vstatus'[c] = vstatus[c]
    BY <1>1, <2>1 DEF PagingTypes
  <2>3. QED
    BY <1>1, <2>2, ContentFacts
<1>4. Content'[chunk[t]] = mem[frame[t]]
  <2>1. vstatus'[chunk[t]] = "IN_MEM"
    BY <1>1 DEF PagingTypes
  <2>2. QED
    BY <1>1, <1>2, <2>1, ContentFacts
<1>5. CASE vstatus[chunk[t]] = "IN_SWAP"
  <2>1. Content[chunk[t]] = mem[frame[t]]
    BY <1>1, <1>5, ContentFacts DEF Returned
  <2>2. QED
    BY <1>1, <1>3, <1>4, <2>1, ContentSame
<1>6. CASE vstatus[chunk[t]] # "IN_SWAP"
  <2>1. Content[chunk[t]] = NULL
    BY <1>1, <1>2, <1>6, ContentFacts DEF PagingTypes
  <2>2. mem[frame[t]] \in Value
    BY <1>1 DEF PagingTypes
  <2>3. Content' = [Content EXCEPT ![chunk[t]] = mem[frame[t]]]
    <3>1. /\ Content = [c \in Chunks |-> Content[c]]
          /\ Content' = [c \in Chunks |-> Content'[c]]
      BY <1>1, ContentFacts
    <3>2. QED
      BY <1>3, <1>4, <3>1
  <2>4. Memory!Touch(chunk[t])
    BY <2>1, <2>2, <2>3 DEF Memory!Touch
  <2>5. QED
    BY <2>4 DEF Memory!MemNext
<1>7. QED
  BY <1>5, <1>6

(* Every step of a fault is Touch or no step of the memory. *)
LEMMA FaultIsMemoryStep ==
  ASSUME ~IoMayFail, MemoryInv, PagingTypes', NEW t \in Threads, pcieBase_fault(t)
  PROVE  [Memory!MemNext]_<<Content, last>>
<1>1. PagingTypes /\ LocalTypes /\ Calm
  BY DEF MemoryInv, PteInv, PagingInv
<1>2. CASE \/ FaultCheck(t) \/ FillEvict(t) \/ PageinLock(t) \/ EvictLock(t)
           \/ EvictZap(t) \/ FaultMap(t) \/ FaultFinish(t)
  <2>1. UNCHANGED <<vstatus, phy_desc, mem, swap, last>>
    BY <1>1, <1>2, FaultCheckEffect, FillEvictEffect, PageinLockEffect,
       EvictLockEffect, EvictZapEffect, FaultMapEffect, FaultFinishEffect
  <2>2. QED
    BY <1>1, <2>1, ContentKeep
<1>3. CASE FillFree(t)
  <2>1. /\ vstatus[chunk[t]] # "IN_MEM" /\ chunk[t] \in Chunks
        /\ phy_desc' = [phy_desc EXCEPT ![chunk[t]] = Min(FreeFrames)]
        /\ UNCHANGED <<vstatus, mem, swap, last>>
    BY <1>1, <1>3, FillFreeEffect DEF FaultState
  <2>2. QED
    BY <1>1, <2>1, ContentKeep DEF PagingTypes
<1>4. CASE EvictMove(t)
  <2>1. /\ vstatus[chunk[t]] # "IN_MEM" /\ vstatus[victim[t]] # "IN_MEM"
        /\ \A c \in Chunks : c \notin {chunk[t], victim[t]} => phy_desc'[c] = phy_desc[c]
        /\ UNCHANGED <<vstatus, mem, swap, last>>
    BY <1>1, <1>4, EvictMoveEffect DEF FaultState
  <2>2. QED
    BY <1>1, <2>1, ContentKeep
<1>5. CASE PageinRead(t) \/ EvictRead(t)
  <2>1. /\ mem' = [mem EXCEPT ![frame[t]] = swap[chunk[t]]]
        /\ vstatus[chunk[t]] # "IN_MEM" /\ chunk[t] \in Chunks
        /\ phy_desc[chunk[t]] = frame[t]
        /\ pc[t] \in {"pageread", "read"} /\ Faulting(t)
        /\ UNCHANGED <<vstatus, phy_desc, swap, last>>
    BY <1>1, <1>5, PageinReadEffect, EvictReadEffect DEF FaultState
  <2>2. frame[t] \in Frames /\ frame[t] # NULL
    BY <1>1, <2>1, PcieAssumption DEF LocalTypes
  <2>3. \A c \in Chunks : vstatus[c] = "IN_MEM" =>
          phy_desc[c] \in Frames /\ phy_desc[c] # frame[t]
    BY <1>1, <2>1, <2>2 DEF Calm, OneOwner, InMemOwns, PagingTypes
  <2>4. \A c \in Chunks : vstatus[c] = "IN_MEM" => mem'[phy_desc[c]] = mem[phy_desc[c]]
    BY <1>1, <2>1, <2>3 DEF PagingTypes
  <2>5. QED
    BY <1>1, <2>1, <2>4, ContentKeep
<1>6. CASE EvictWrite(t)
  <2>1. /\ swap' = [swap EXCEPT ![victim[t]] = mem[frame[t]]]
        /\ vstatus' = [vstatus EXCEPT ![victim[t]] = "IN_SWAP"]
        /\ vstatus[victim[t]] = "IN_MEM" /\ phy_desc[victim[t]] = frame[t]
        /\ pc[t] = "write"
        /\ UNCHANGED <<phy_desc, mem, last>>
    BY <1>1, <1>6, EvictWriteEffect DEF FaultState
  <2>2. victim[t] \in Chunks
    BY <1>1, <2>1 DEF LocalTypes
  <2>3. ASSUME NEW c \in Chunks PROVE Content'[c] = Content[c]
    <3>1. CASE c = victim[t]
      <4>1. Content[c] = mem[frame[t]]
        BY <1>1, <2>1, <3>1, ContentFacts
      <4>2. vstatus'[c] = "IN_SWAP" /\ swap'[c] = mem[frame[t]]
        BY <1>1, <2>1, <2>2, <3>1 DEF PagingTypes
      <4>3. QED
        BY <1>1, <4>1, <4>2, ContentFacts
    <3>2. CASE c # victim[t]
      <4>1. /\ vstatus[c] \in {"NO_MAP", "IN_MEM", "IN_SWAP"}
            /\ vstatus'[c] = vstatus[c] /\ swap'[c] = swap[c]
        BY <1>1, <2>1, <3>2 DEF PagingTypes
      <4>2. QED
        BY <1>1, <2>1, <4>1, ContentFacts
    <3>3. QED
      BY <3>1, <3>2
  <2>4. QED
    BY <1>1, <2>1, <2>3, ContentSame
<1>7. CASE FillUse(t)
  <2>1. frame[t] \in Frames
    BY <1>1, <1>7, FillUseEffect DEF LocalTypes
  <2>2. QED
    BY <1>1, <1>7, <2>1, FillUseEffect, ComesIn
<1>8. CASE EvictUnlock(t)
  <2>1. frame[t] \in Frames
    BY <1>1, <1>8, EvictUnlockEffect DEF LocalTypes
  <2>2. QED
    BY <1>1, <1>8, <2>1, EvictUnlockEffect, ComesIn
<1>9. QED
  BY <1>2, <1>3, <1>4, <1>5, <1>6, <1>7, <1>8 DEF pcieBase_fault

(* The thread finds each entry leading to a chunk in memory.               *)
LEMMA EntryInMem ==
  ASSUME OneThread, MemoryInv, NEW t \in Threads, NEW c \in Chunks, NEW s \in Sub,
         pc[t] = "user", Entry(t, c, s) # NULL
  PROVE  /\ vstatus[c] = "IN_MEM" /\ phy_desc[c] = Entry(t, c, s)
         /\ Entry(t, c, s) \in Frames
<1>1. PagingTypes /\ PteSound
  BY DEF MemoryInv, PteInv, Entries, PagingInv
<1>2. VmaOf[t] \in Vmas
  BY PcieAssumption
<1>3. \A u \in Threads : pc[u] # "zap"
  BY DEF OneThread
<1>4. vstatus[c] = "IN_MEM" /\ phy_desc[c] = Entry(t, c, s)
  BY <1>1, <1>2, <1>3 DEF PteSound, Entry
<1>5. QED
  BY <1>1, <1>2, <1>4 DEF Entry, PagingTypes

(* A read returns what the chunk holds, a write sets it, and only it.      *)
LEMMA UserIsMemoryStep ==
  ASSUME OneThread, MemoryInv, PagingTypes', NEW t \in Threads, User(t)
  PROVE  [Memory!MemNext]_<<Content, last>>
<1>1. PagingTypes /\ Calm
  BY DEF MemoryInv, PteInv, PagingInv
<1>2. ASSUME NEW c \in Chunks, NEW s \in Sub, UserFault(t, c, s)
      PROVE  [Memory!MemNext]_<<Content, last>>
  <2>1. UNCHANGED <<vstatus, phy_desc, mem, swap, last>>
    BY <1>2 DEF UserFault, desc, store
  <2>2. QED
    BY <1>1, <2>1, ContentKeep
<1>3. ASSUME NEW c \in Chunks, NEW s \in Sub, UserRead(t, c, s)
      PROVE  [Memory!MemNext]_<<Content, last>>
  <2>1. /\ UNCHANGED <<vstatus, phy_desc, mem, swap>>
        /\ pc[t] = "user" /\ Entry(t, c, s) # NULL
        /\ last' = [op |-> "read", chunk |-> c, value |-> mem[Entry(t, c, s)]]
    BY <1>3 DEF UserRead, desc, store
  <2>2. /\ vstatus[c] = "IN_MEM" /\ phy_desc[c] = Entry(t, c, s)
        /\ Entry(t, c, s) \in Frames
    BY <2>1, EntryInMem
  <2>3. Content[c] = mem[Entry(t, c, s)] /\ Content[c] # NULL
    BY <1>1, <2>2, ContentFacts, PcieAssumption DEF PagingTypes
  <2>4. Content' = Content
    BY <1>1, <2>1, ContentKeep
  <2>5. Memory!Read(c)
    BY <2>1, <2>3, <2>4 DEF Memory!Read
  <2>6. QED
    BY <2>5 DEF Memory!MemNext
<1>4. ASSUME NEW c \in Chunks, NEW s \in Sub, NEW v \in Value, UserWrite(t, c, s, v)
      PROVE  [Memory!MemNext]_<<Content, last>>
  <2>1. /\ UNCHANGED <<vstatus, phy_desc, swap>>
        /\ pc[t] = "user" /\ Entry(t, c, s) # NULL
        /\ mem' = [mem EXCEPT ![Entry(t, c, s)] = v]
        /\ last' = [op |-> "write", chunk |-> c, value |-> v]
    BY <1>4 DEF UserWrite, desc
  <2>2. /\ vstatus[c] = "IN_MEM" /\ phy_desc[c] = Entry(t, c, s)
        /\ Entry(t, c, s) \in Frames
    BY <2>1, EntryInMem
  <2>3. Content[c] # NULL
    BY <1>1, <2>2, ContentFacts, PcieAssumption DEF PagingTypes
  <2>4. Content'[c] = v
    <3>1. mem'[phy_desc'[c]] = v /\ vstatus'[c] = "IN_MEM"
      BY <1>1, <2>1, <2>2 DEF PagingTypes
    <3>2. QED
      BY <1>1, <3>1, ContentFacts
  <2>5. ASSUME NEW d \in Chunks, d # c PROVE Content'[d] = Content[d]
    <3>1. vstatus[d] \in {"NO_MAP", "IN_MEM", "IN_SWAP"}
      BY <1>1 DEF PagingTypes
    <3>2. vstatus[d] = "IN_MEM" => mem'[phy_desc[d]] = mem[phy_desc[d]]
      <4>1. vstatus[d] = "IN_MEM" => phy_desc[d] \in Frames /\ phy_desc[d] # phy_desc[c]
        BY <1>1, <2>1, <2>2, <2>5 DEF Calm, OneOwner, InMemOwns, PagingTypes
      <4>2. QED
        BY <1>1, <2>1, <2>2, <4>1 DEF PagingTypes
    <3>3. QED
      BY <1>1, <2>1, <3>1, <3>2, ContentFacts
  <2>6. Content' = [Content EXCEPT ![c] = v]
    <3>1. /\ Content = [d \in Chunks |-> Content[d]]
          /\ Content' = [d \in Chunks |-> Content'[d]]
      BY <1>1, ContentFacts
    <3>2. QED
      BY <2>4, <2>5, <3>1
  <2>7. Memory!Write(c, v)
    BY <2>1, <2>3, <2>6 DEF Memory!Write
  <2>8. QED
    BY <2>7 DEF Memory!MemNext
<1>5. QED
  BY <1>2, <1>3, <1>4 DEF User

(* Every step is a step of the memory, or none. *)
LEMMA MemoryStep ==
  ASSUME OneThread, ~IoMayFail, MemoryInv, MemoryInv', [Next]_vars
  PROVE  [Memory!MemNext]_<<Content, last>>
<1>1. PagingTypes /\ PagingTypes'
  BY DEF MemoryInv, PteInv, PagingInv
<1>2. ASSUME NEW t \in Threads, User(t) \/ pcieBase_fault(t)
      PROVE  [Memory!MemNext]_<<Content, last>>
  BY <1>1, <1>2, UserIsMemoryStep, FaultIsMemoryStep
<1>3. CASE pcie_mm_reset
  <2>1. UNCHANGED last /\ \A c \in Chunks : vstatus'[c] = "NO_MAP"
    BY <1>3 DEF pcie_mm_reset
  <2>2. /\ Content' = [c \in Chunks |-> Content'[c]]
        /\ \A c \in Chunks : Content'[c] = NULL
    BY <1>1, <2>1, ContentFacts
  <2>3. Memory!ResetAll
    BY <2>1, <2>2 DEF Memory!ResetAll
  <2>4. QED
    BY <2>3 DEF Memory!MemNext
<1>4. CASE (\E m \in Vmas : pcieBase_mmap(m) \/ munmap(m)) \/ UNCHANGED vars
  <2>1. UNCHANGED <<vstatus, phy_desc, mem, swap, last>>
    BY <1>4 DEF pcieBase_mmap, munmap, vars, desc, store, hist
  <2>2. QED
    BY <1>1, <2>1, ContentKeep
<1>5. QED
  BY <1>2, <1>3, <1>4 DEF Next

(* For one thread, whose device is not reset once it is touched and whose  *)
(* transfers do not fail, the paging driver is a memory: what is read is   *)
(* what was last written, through any number of evictions and returns.     *)
THEOREM MemorySpecHolds ==
  ASSUME OneThread, ~ResetAnyTime, ~AnyOrder, ~IoMayFail
  PROVE  Spec => MemorySpec
<1>1. Init => MemoryInv
  <2>1. Init => ~raced /\ Returned
    BY DEF Init, Returned
  <2>2. QED
    BY <2>1, PteInit DEF MemoryInv
<1>2. Init => Memory!MemInit
  <2>1. SUFFICES ASSUME Init PROVE Memory!MemInit
    OBVIOUS
  <2>2. Content = [c \in Chunks |-> NULL]
    BY <2>1 DEF Init, Content, Held
  <2>3. QED
    BY <2>1, <2>2 DEF Init, Memory!MemInit
<1>3. MemoryInv /\ MemoryInv' /\ [Next]_vars => [Memory!MemNext]_<<Content, last>>
  BY MemoryStep
<1>4. QED
  BY <1>1, <1>2, <1>3, MemoryInvStep, PTL DEF Spec, MemorySpec, Memory!MemSpec
-----------------------------------------------------------------------------
(* s holds the partial sums of the counter cnt, up to frame n. *)
Sums(s, cnt, n) ==
  /\ s \in [0..n -> Nat]
  /\ s[0] = 0
  /\ \A i \in 1..n : s[i] = s[i - 1] + cnt[i - 1]

(* There are such sums: the least n without them would follow one that     *)
(* has them.                                                               *)
LEMMA SumsExist ==
  ASSUME NEW cnt \in [Frames -> Nat], NEW n \in 0..NumFrames
  PROVE  \E s : Sums(s, cnt, n)
<1> DEFINE Bad == {k \in 0..NumFrames : ~\E s : Sums(s, cnt, k)}
<1>1. SUFFICES ASSUME Bad # {} PROVE FALSE
  OBVIOUS
<1>2. PICK k \in Bad : \A j \in Bad : k <= j
  <2>1. Bad \subseteq Nat
    BY PcieAssumption
  <2>2. QED
    BY <1>1, <2>1, LeastFacts
<1>3. k # 0
  <2>1. Sums([i \in 0..0 |-> 0], cnt, 0)
    BY DEF Sums
  <2>2. QED
    BY <1>2, <2>1
<1>4. k - 1 \in 0..NumFrames /\ k - 1 \notin Bad
  BY <1>2, <1>3, PcieAssumption
<1>5. PICK s : Sums(s, cnt, k - 1)
  BY <1>4
<1> DEFINE u == [i \in 0..k |-> IF i = k THEN s[k - 1] + cnt[k - 1] ELSE s[i]]
<1>6. k \in Nat \ {0} /\ k - 1 \in Frames
  BY <1>2, <1>3, PcieAssumption DEF Frames
<1>7. cnt[k - 1] \in Nat
  BY <1>6
<1>8. Sums(u, cnt, k)
  BY <1>5, <1>6, <1>7 DEF Sums
<1>9. QED
  BY <1>2, <1>8

(* FrameSum adds a counter up. *)
LEMMA FrameSumFacts ==
  ASSUME NEW cnt \in [Frames -> Nat]
  PROVE  \E s : Sums(s, cnt, NumFrames) /\ FrameSum(cnt) = s[NumFrames]
<1> DEFINE F(s) == [n \in 0..NumFrames |-> IF n = 0 THEN 0 ELSE s[n - 1] + cnt[n - 1]]
<1>1. PICK s : Sums(s, cnt, NumFrames)
  BY SumsExist, PcieAssumption
<1>2. s = F(s)
  BY <1>1, PcieAssumption DEF Sums
<1> DEFINE c == CHOOSE u : u = F(u)
<1>3. c = F(c)
  BY <1>2, Zenon
<1>4. FrameSum(cnt) = c[NumFrames]
  BY Zenon DEF FrameSum
<1> HIDE DEF c
<1>5. Sums(c, cnt, NumFrames)
  <2>1. DOMAIN c = 0..NumFrames /\ c = [n \in 0..NumFrames |-> c[n]]
    BY <1>3
  <2>2. c[0] = 0 /\ \A i \in 1..NumFrames : c[i] = c[i - 1] + cnt[i - 1]
    BY <1>3, PcieAssumption
  <2>3. \A n \in 0..NumFrames : c[n] = s[n]
    <3> DEFINE Bad == {k \in 0..NumFrames : c[k] # s[k]}
    <3>1. SUFFICES ASSUME Bad # {} PROVE FALSE
      OBVIOUS
    <3>2. PICK k \in Bad : \A j \in Bad : k <= j
      <4>1. Bad \subseteq Nat
        BY PcieAssumption
      <4>2. QED
        BY <3>1, <4>1, LeastFacts
    <3>3. k # 0
      BY <1>1, <2>2, <3>2 DEF Sums
    <3>4. c[k - 1] = s[k - 1]
      BY <3>2, <3>3, PcieAssumption
    <3>5. QED
      BY <1>1, <2>2, <3>2, <3>3, <3>4, PcieAssumption DEF Sums
  <2>4. QED
    BY <1>1, <2>1, <2>2, <2>3 DEF Sums
<1>6. QED
  BY <1>4, <1>5

(* The sum is a number. *)
LEMMA FrameSumNat ==
  ASSUME NEW cnt \in [Frames -> Nat]
  PROVE  FrameSum(cnt) \in Nat
BY FrameSumFacts, PcieAssumption DEF Sums

(* A frame counted once more adds one to the sum. *)
LEMMA FrameSumCounts ==
  ASSUME NEW cnt \in [Frames -> Nat], NEW f \in Frames
  PROVE  FrameSum([cnt EXCEPT ![f] = @ + 1]) = FrameSum(cnt) + 1
<1> DEFINE d == [cnt EXCEPT ![f] = @ + 1]
<1>1. PICK s : Sums(s, cnt, NumFrames) /\ FrameSum(cnt) = s[NumFrames]
  BY FrameSumFacts
<1>2. d \in [Frames -> Nat]
  OBVIOUS
<1>3. PICK u : Sums(u, d, NumFrames) /\ FrameSum(d) = u[NumFrames]
  BY <1>2, FrameSumFacts
<1>4. \A n \in 0..NumFrames : u[n] = s[n] + IF f < n THEN 1 ELSE 0
  <2> DEFINE Bad == {k \in 0..NumFrames : u[k] # s[k] + IF f < k THEN 1 ELSE 0}
  <2>1. SUFFICES ASSUME Bad # {} PROVE FALSE
    OBVIOUS
  <2>2. PICK k \in Bad : \A j \in Bad : k <= j
    <3>1. Bad \subseteq Nat
      BY PcieAssumption
    <3>2. QED
      BY <2>1, <3>1, LeastFacts
  <2>3. k # 0
    BY <1>1, <1>3, <2>2, PcieAssumption DEF Sums, Frames
  <2>4. k - 1 \in 0..NumFrames /\ k \in 1..NumFrames /\ k - 1 \in Frames
    BY <2>2, <2>3, PcieAssumption DEF Frames
  <2>5. u[k - 1] = s[k - 1] + IF f < k - 1 THEN 1 ELSE 0
    BY <2>2, <2>4
  <2>6. d[k - 1] = cnt[k - 1] + IF f = k - 1 THEN 1 ELSE 0
    BY <2>4
  <2>7. u[k] = u[k - 1] + d[k - 1] /\ s[k] = s[k - 1] + cnt[k - 1]
    BY <1>1, <1>3, <2>4 DEF Sums
  <2>8. s[k - 1] \in Nat /\ cnt[k - 1] \in Nat /\ f \in Nat /\ k \in Nat
    BY <1>1, <2>4, PcieAssumption DEF Sums, Frames
  <2>9. u[k] = s[k] + IF f < k THEN 1 ELSE 0
    <3> HIDE DEF d, Bad
    <3> QED BY <2>5, <2>6, <2>7, <2>8
  <2>10. QED
    BY <2>2, <2>9
<1>5. f < NumFrames /\ NumFrames \in 0..NumFrames
  BY PcieAssumption DEF Frames
<1>6. QED
  BY <1>1, <1>3, <1>4, <1>5

(* Whatever happens, each transfer is counted in its frame and in total.   *)
Counters ==
  /\ read_cnt \in [Frames -> Nat] /\ write_cnt \in [Frames -> Nat]
  /\ total_read \in Nat /\ total_write \in Nat

LEMMA CountersStep ==
  ASSUME PagingTypes, LocalTypes, Counters, FrameCountsCover, [Next]_vars
  PROVE  Counters' /\ FrameCountsCover'
<1>1. ASSUME UNCHANGED counts PROVE Counters' /\ FrameCountsCover'
  BY <1>1 DEF counts, Counters, FrameCountsCover
<1>2. ASSUME NEW t \in Threads, Faulting(t), phy_desc[chunk[t]] # NULL, read_pages(t)
      PROVE  Counters' /\ FrameCountsCover'
  <2> DEFINE f == phy_desc[chunk[t]]
  <2>1. f \in Frames
    BY <1>2 DEF PagingTypes, LocalTypes
  <2>2. /\ read_cnt' = [read_cnt EXCEPT ![f] = @ + 1] /\ total_read' = total_read + 1
        /\ UNCHANGED <<write_cnt, total_write>>
    BY <1>2 DEF read_pages
  <2> HIDE DEF f
  <2>3. FrameSum(read_cnt') = FrameSum(read_cnt) + 1 /\ FrameSum(read_cnt) \in Nat
    BY <2>1, <2>2, FrameSumCounts, FrameSumNat DEF Counters
  <2>4. FrameCountsCover'
    BY <2>2, <2>3 DEF FrameCountsCover, Counters
  <2>5. Counters'
    BY <2>1, <2>2 DEF Counters
  <2>6. QED
    BY <2>4, <2>5
<1>3. ASSUME NEW t \in Threads, EvictWrite(t) PROVE Counters' /\ FrameCountsCover'
  <2>1. CASE phy_desc[victim[t]] = NULL
    BY <1>1, <1>3, <2>1 DEF EvictWrite, Die
  <2>2. CASE phy_desc[victim[t]] # NULL
    <3> DEFINE f == phy_desc[victim[t]]
    <3>1. f \in Frames
      BY <1>3, <2>2 DEF EvictWrite, PagingTypes, LocalTypes
    <3>2. /\ write_cnt' = [write_cnt EXCEPT ![f] = @ + 1] /\ total_write' = total_write + 1
          /\ UNCHANGED <<read_cnt, total_read>>
      BY <1>3, <2>2 DEF EvictWrite
    <3> HIDE DEF f
    <3>3. FrameSum(write_cnt') = FrameSum(write_cnt) + 1 /\ FrameSum(write_cnt) \in Nat
      BY <3>1, <3>2, FrameSumCounts, FrameSumNat DEF Counters
    <3>4. FrameCountsCover'
      BY <3>2, <3>3 DEF FrameCountsCover, Counters
    <3>5. Counters'
      BY <3>1, <3>2 DEF Counters
    <3>6. QED
      BY <3>4, <3>5
  <2>3. QED
    BY <2>1, <2>2
<1>4. ASSUME NEW t \in Threads, PageinRead(t) \/ EvictRead(t)
      PROVE  Counters' /\ FrameCountsCover'
  <2>1. CASE phy_desc[chunk[t]] = NULL
    BY <1>1, <1>4, <2>1 DEF PageinRead, EvictRead, Die
  <2>2. CASE phy_desc[chunk[t]] # NULL
    <3>1. Faulting(t) /\ read_pages(t)
      BY <1>4, <2>2 DEF PageinRead, EvictRead, Faulting
    <3>2. QED
      BY <1>2, <2>2, <3>1
  <2>3. QED
    BY <2>1, <2>2
<1>5. ASSUME pcie_mm_reset PROVE Counters' /\ FrameCountsCover'
  <2>1. /\ read_cnt' = [read_cnt EXCEPT ![0] = 0] /\ write_cnt' = [write_cnt EXCEPT ![0] = 0]
        /\ total_read' = 0 /\ total_write' = 0
    BY <1>5 DEF pcie_mm_reset
  <2>2. Counters'
    BY <2>1 DEF Counters
  <2>3. FrameSum(read_cnt') \in Nat /\ FrameSum(write_cnt') \in Nat
    BY <2>2, FrameSumNat DEF Counters
  <2>4. QED
    BY <2>1, <2>2, <2>3 DEF FrameCountsCover
<1>6. ASSUME NEW t \in Threads, pcieBase_fault(t) PROVE Counters' /\ FrameCountsCover'
  <2>1. UNCHANGED counts \/ EvictWrite(t) \/ PageinRead(t) \/ EvictRead(t)
    BY <1>6 DEF pcieBase_fault, FaultCheck, FillFree, FillEvict, PageinLock, FillUse,
                EvictLock, EvictZap, EvictMove, EvictUnlock, FaultMap, FaultFinish, Die
  <2>2. QED
    BY <1>1, <1>3, <1>4, <2>1
<1>7. ASSUME NEW t \in Threads, User(t) PROVE UNCHANGED counts
  BY <1>7 DEF User, UserRead, UserWrite, UserFault
<1>8. ASSUME (\E m \in Vmas : pcieBase_mmap(m) \/ munmap(m)) \/ UNCHANGED vars
      PROVE  UNCHANGED counts
  BY <1>8 DEF pcieBase_mmap, munmap, vars
<1>9. QED
  BY <1>1, <1>5, <1>6, <1>7, <1>8 DEF Next

(* The counters of the frames cover the totals of /proc, for any number of *)
(* threads, failing transfers and resets at any time, races or not.        *)
THEOREM FrameCountsCoverHolds == Spec => []FrameCountsCover
<1>1. Init => Counters /\ FrameCountsCover
  <2>1. SUFFICES ASSUME Init PROVE Counters /\ FrameCountsCover
    OBVIOUS
  <2>2. Counters /\ total_read = 0 /\ total_write = 0
    BY <2>1 DEF Init, Counters
  <2>3. FrameSum(read_cnt) \in Nat /\ FrameSum(write_cnt) \in Nat
    BY <2>2, FrameSumNat DEF Counters
  <2>4. QED
    BY <2>2, <2>3 DEF FrameCountsCover
<1>2. PagingInv /\ Counters /\ FrameCountsCover /\ [Next]_vars => (Counters /\ FrameCountsCover)'
  BY CountersStep DEF PagingInv
<1>3. QED
  BY <1>1, <1>2, PagingInvariant, PTL DEF Spec
-----------------------------------------------------------------------------
(* With one thread at most one chunk is read back and not yet in memory.   *)
LEMMA CountBack ==
  ASSUME OneThread, NEW t \in Threads
  PROVE  /\ Cardinality(ReadBack) =
              IF pc[t] = "unlock" /\ vstatus[chunk[t]] = "IN_SWAP" THEN 1 ELSE 0
         /\ Cardinality(ReadBack') =
              IF pc'[t] = "unlock" /\ vstatus'[chunk'[t]] = "IN_SWAP" THEN 1 ELSE 0
<1>1. ReadBack = IF pc[t] = "unlock" /\ vstatus[chunk[t]] = "IN_SWAP" THEN {t} ELSE {}
  BY DEF OneThread, ReadBack
<1>2. ReadBack' =
        IF pc'[t] = "unlock" /\ vstatus'[chunk'[t]] = "IN_SWAP" THEN {t} ELSE {}
  BY DEF OneThread, ReadBack
<1>3. QED
  BY <1>1, <1>2, FS_EmptySet, FS_Singleton

(* The chunks are finitely many. *)
LEMMA SwappedOutFinite == IsFiniteSet(SwappedOut) /\ Cardinality(SwappedOut) \in Nat
<1>1. IsFiniteSet(Chunks)
  BY PcieAssumption, FS_Interval DEF Chunks
<1>2. SwappedOut \in SUBSET Chunks
  BY DEF SwappedOut
<1>3. IsFiniteSet(SwappedOut)
  BY <1>1, <1>2, FS_Subset
<1>4. QED
  BY <1>3, FS_CardinalityType

(* Steps of a fault that transfer nothing and move no chunk. *)
LEMMA QuietSwap ==
  ASSUME OneThread, SwapFull, Totals, NEW t \in Threads,
         UNCHANGED <<vstatus, pstatus, total_read, total_write>>,
         pc[t] # "unlock",
         pc'[t] = "unlock" => vstatus'[chunk'[t]] # "IN_SWAP",
         pc'[t] \in {"lock", "write"} => FreeFrames = {},
         pc'[t] \in {"pagein", "pageread", "read"} => vstatus'[chunk'[t]] = "IN_SWAP"
  PROVE  SwapFull' /\ Totals'
<1>1. SwappedOut' = SwappedOut /\ FreeFrames' = FreeFrames
  BY DEF SwappedOut, FreeFrames
<1>2. Cardinality(ReadBack') = 0 /\ Cardinality(ReadBack) = 0
  BY CountBack
<1>3. SwapFull'
  BY <1>1 DEF SwapFull, OneThread
<1>4. Totals'
  BY <1>1, <1>2 DEF Totals
<1>5. QED
  BY <1>3, <1>4

(* A free frame is taken when nothing is swapped out. *)
LEMMA FillUseSwap ==
  ASSUME OneThread, PagingTypes, LocalTypes, Calm, SwapFull, Totals,
         NEW t \in Threads, FillUse(t)
  PROVE  SwapFull' /\ Totals'
<1>1. /\ pc[t] = "use" /\ pc' = [pc EXCEPT ![t] = "map"]
      /\ chunk[t] \in Chunks /\ frame[t] \in Frames /\ pstatus[frame[t]] = "FREE"
      /\ vstatus' = [vstatus EXCEPT ![chunk[t]] = "IN_MEM"]
      /\ UNCHANGED <<total_read, total_write>>
  BY FillUseEffect DEF FaultState, LocalTypes
<1>2. SwappedOut = {}
  BY <1>1 DEF SwapFull, FreeFrames
<1>3. SwappedOut' = {}
  BY <1>1, <1>2 DEF SwappedOut, PagingTypes
<1>4. pc'[t] = "map"
  BY <1>1 DEF PagingTypes
<1>5. Cardinality(ReadBack') = 0 /\ Cardinality(ReadBack) = 0
  BY <1>1, <1>4, CountBack
<1>6. SwapFull'
  BY <1>3, <1>4 DEF SwapFull, OneThread
<1>7. Totals'
  BY <1>1, <1>2, <1>3, <1>5 DEF Totals
<1>8. QED
  BY <1>6, <1>7

(* write_pages takes one more chunk out, when no frame is free. *)
LEMMA EvictWriteSwap ==
  ASSUME OneThread, PagingTypes, LocalTypes, Calm, SwapFull, Totals,
         NEW t \in Threads, EvictWrite(t)
  PROVE  SwapFull' /\ Totals'
<1>1. /\ pc[t] = "write" /\ pc' = [pc EXCEPT ![t] = "zap"]
      /\ victim[t] \in Chunks /\ vstatus[victim[t]] = "IN_MEM"
      /\ vstatus' = [vstatus EXCEPT ![victim[t]] = "IN_SWAP"]
      /\ total_write' = total_write + 1
      /\ UNCHANGED <<pstatus, total_read>>
  BY EvictWriteEffect DEF FaultState, LocalTypes
<1>2. FreeFrames' = {}
  BY <1>1 DEF SwapFull, FreeFrames
<1>3. SwappedOut' = SwappedOut \cup {victim[t]} /\ victim[t] \notin SwappedOut
  BY <1>1 DEF SwappedOut, PagingTypes
<1>4. Cardinality(SwappedOut') = Cardinality(SwappedOut) + 1
  BY <1>3, SwappedOutFinite, FS_AddElement
<1>5. pc'[t] = "zap"
  BY <1>1 DEF PagingTypes
<1>6. Cardinality(ReadBack') = 0 /\ Cardinality(ReadBack) = 0
  BY <1>1, <1>5, CountBack
<1>7. SwapFull'
  BY <1>2, <1>5 DEF SwapFull, OneThread
<1>8. Totals'
  BY <1>1, <1>4, <1>6, SwappedOutFinite DEF Totals
<1>9. QED
  BY <1>7, <1>8

(* read_pages reads one of them back ... *)
LEMMA EvictReadSwap ==
  ASSUME OneThread, PagingTypes, LocalTypes, Calm, SwapFull, Totals,
         NEW t \in Threads, EvictRead(t)
  PROVE  SwapFull' /\ Totals'
<1>1. /\ pc[t] = "read" /\ pc' = [pc EXCEPT ![t] = "unlock"]
      /\ total_read' = total_read + 1
      /\ UNCHANGED <<vstatus, pstatus, chunk, total_write>>
  BY EvictReadEffect
<1>2. vstatus[chunk[t]] = "IN_SWAP"
  BY <1>1 DEF SwapFull
<1>3. SwappedOut' = SwappedOut /\ FreeFrames' = FreeFrames
  BY <1>1 DEF SwappedOut, FreeFrames
<1>4. pc'[t] = "unlock"
  BY <1>1 DEF PagingTypes
<1>5. Cardinality(ReadBack') = 1 /\ Cardinality(ReadBack) = 0
  BY <1>1, <1>2, <1>4, CountBack
<1>6. SwapFull'
  BY <1>3, <1>4 DEF SwapFull, OneThread
<1>7. Totals'
  BY <1>1, <1>3, <1>5, SwappedOutFinite DEF Totals
<1>8. QED
  BY <1>6, <1>7

(* ... and it is in memory again. *)
LEMMA EvictUnlockSwap ==
  ASSUME OneThread, PagingTypes, LocalTypes, Calm, SwapFull, Totals,
         NEW t \in Threads, EvictUnlock(t)
  PROVE  SwapFull' /\ Totals'
<1>1. /\ pc[t] = "unlock" /\ pc' = [pc EXCEPT ![t] = "map"]
      /\ chunk[t] \in Chunks
      /\ vstatus' = [vstatus EXCEPT ![chunk[t]] = "IN_MEM"]
      /\ UNCHANGED <<pstatus, total_read, total_write>>
  BY EvictUnlockEffect
<1>2. SwappedOut' = SwappedOut \ {chunk[t]} /\ FreeFrames' = FreeFrames
  BY <1>1 DEF SwappedOut, FreeFrames, PagingTypes
<1>3. Cardinality(SwappedOut') =
        IF vstatus[chunk[t]] = "IN_SWAP" THEN Cardinality(SwappedOut) - 1
                                         ELSE Cardinality(SwappedOut)
  <2>1. chunk[t] \in SwappedOut <=> vstatus[chunk[t]] = "IN_SWAP"
    BY <1>1 DEF SwappedOut
  <2>2. QED
    BY <1>2, <2>1, SwappedOutFinite, FS_RemoveElement
<1>4. pc'[t] = "map"
  BY <1>1 DEF PagingTypes
<1>5. /\ Cardinality(ReadBack') = 0
      /\ Cardinality(ReadBack) = IF vstatus[chunk[t]] = "IN_SWAP" THEN 1 ELSE 0
  BY <1>1, <1>4, CountBack
<1>6. SwapFull'
  BY <1>2, <1>4 DEF SwapFull, OneThread
<1>7. Totals'
  BY <1>1, <1>3, <1>5, SwappedOutFinite DEF Totals
<1>8. QED
  BY <1>6, <1>7

(* Every step of a fault; the branch that reads a chunk back into a free   *)
(* frame is never taken.                                                   *)
LEMMA FaultSwap ==
  ASSUME OneThread, PagingTypes, LocalTypes, Calm, SwapFull, Totals,
         NEW t \in Threads, pcieBase_fault(t)
  PROVE  SwapFull' /\ Totals'
<1>1. CASE FaultCheck(t)
  <2>1. PICK p \in {"map", "fill"} : pc' = [pc EXCEPT ![t] = p]
    BY <1>1, FaultCheckEffect
  <2>2. pc[t] # "unlock" /\ pc'[t] \in {"map", "fill"}
    BY <1>1, <2>1, FaultCheckEffect DEF PagingTypes
  <2>3. QED
    BY <1>1, <2>2, FaultCheckEffect, QuietSwap
<1>2. CASE FillFree(t)
  <2>1. PICK p \in {"pagein", "use"} : pc' = [pc EXCEPT ![t] = p]
    BY <1>2, FillFreeEffect
  <2>2. pc[t] # "unlock" /\ pc'[t] \in {"pagein", "use"}
    BY <1>2, <2>1, FillFreeEffect DEF PagingTypes
  <2>3. /\ UNCHANGED <<vstatus, pstatus, total_read, total_write, chunk>>
        /\ pc'[t] = "use" <=> vstatus[chunk[t]] # "IN_SWAP"
    BY <1>2, FillFreeEffect
  <2>4. QED
    BY <2>2, <2>3, QuietSwap
<1>3. CASE FillEvict(t)
  <2>1. /\ pc' = [pc EXCEPT ![t] = "lock"] /\ pc[t] = "fill"
        /\ \A f \in Frames : pstatus[f] = "IN_USE"
        /\ UNCHANGED <<vstatus, pstatus, total_read, total_write>>
    BY <1>3, FillEvictEffect
  <2>2. pc'[t] = "lock" /\ FreeFrames = {}
    BY <2>1 DEF PagingTypes, FreeFrames
  <2>3. QED
    BY <2>1, <2>2, QuietSwap
<1>4. ~PageinLock(t) /\ ~PageinRead(t)
  <2>1. SUFFICES ASSUME PageinLock(t) \/ PageinRead(t) PROVE FALSE
    OBVIOUS
  <2>2. /\ chunk[t] \in Chunks /\ frame[t] \in Frames /\ pstatus[frame[t]] = "FREE"
        /\ pc[t] \in {"pagein", "pageread"}
    BY <2>1, PageinLockEffect, PageinReadEffect DEF FaultState, LocalTypes
  <2>3. vstatus[chunk[t]] = "IN_SWAP"
    BY <2>2 DEF SwapFull
  <2>4. QED
    BY <2>2, <2>3 DEF SwapFull, SwappedOut, FreeFrames
<1>5. CASE EvictLock(t)
  <2>1. /\ pc' = [pc EXCEPT ![t] = "write"] /\ pc[t] = "lock"
        /\ UNCHANGED <<vstatus, pstatus, total_read, total_write>>
    BY <1>5, EvictLockEffect
  <2>2. pc'[t] = "write" /\ FreeFrames = {}
    BY <2>1 DEF PagingTypes, SwapFull
  <2>3. QED
    BY <2>1, <2>2, QuietSwap
<1>6. CASE EvictZap(t)
  <2>1. /\ pc' = [pc EXCEPT ![t] = "move"] /\ pc[t] = "zap"
        /\ UNCHANGED <<vstatus, pstatus, total_read, total_write>>
    BY <1>6, EvictZapEffect
  <2>2. pc'[t] = "move"
    BY <2>1 DEF PagingTypes
  <2>3. QED
    BY <2>1, <2>2, QuietSwap
<1>7. CASE EvictMove(t)
  <2>1. /\ pc' \in {[pc EXCEPT ![t] = p] : p \in {"read", "unlock"}} /\ pc[t] = "move"
        /\ UNCHANGED <<vstatus, pstatus, total_read, total_write, chunk>>
        /\ pc'[t] = "unlock" <=> vstatus[chunk[t]] # "IN_SWAP"
    BY <1>7, EvictMoveEffect
  <2>2. pc'[t] \in {"read", "unlock"}
    BY <2>1 DEF PagingTypes
  <2>3. QED
    BY <2>1, <2>2, QuietSwap
<1>8. CASE FaultMap(t)
  <2>1. /\ pc' = [pc EXCEPT ![t] = "finish"] /\ pc[t] = "map"
        /\ UNCHANGED <<vstatus, pstatus, total_read, total_write>>
    BY <1>8, FaultMapEffect
  <2>2. pc'[t] = "finish"
    BY <2>1 DEF PagingTypes
  <2>3. QED
    BY <2>1, <2>2, QuietSwap
<1>9. CASE FaultFinish(t)
  <2>1. /\ pc' = [pc EXCEPT ![t] = "user"] /\ pc[t] = "finish"
        /\ UNCHANGED <<vstatus, pstatus, total_read, total_write>>
    BY <1>9, FaultFinishEffect
  <2>2. pc'[t] = "user"
    BY <2>1 DEF PagingTypes
  <2>3. QED
    BY <2>1, <2>2, QuietSwap
<1>10. QED
  BY <1>1, <1>2, <1>3, <1>4, <1>5, <1>6, <1>7, <1>8, <1>9, FillUseSwap,
     EvictWriteSwap, EvictReadSwap, EvictUnlockSwap
  DEF pcieBase_fault

(* Every step of one thread keeps the balance. *)
LEMMA SwapStep ==
  ASSUME OneThread, ~ResetAnyTime, ~AnyOrder
  PROVE  SwapInv /\ [Next]_vars => SwapInv'
<1> SUFFICES ASSUME SwapInv, [Next]_vars PROVE SwapInv'
  OBVIOUS
<1>1. PteInv' /\ ~raced'
  <2>1. OneProcess
    BY DEF OneThread, OneProcess
  <2>2. QED
    BY <2>1, PteStep, OneThreadStep DEF SwapInv
<1>2. PagingTypes /\ LocalTypes /\ Calm /\ SwapFull /\ Totals
  BY DEF SwapInv, PteInv, PagingInv
<1>3. ASSUME NEW t \in Threads, pcieBase_fault(t)
      PROVE  SwapFull' /\ Totals'
  BY <1>2, <1>3, FaultSwap
<1>4. ASSUME NEW t \in Threads, User(t)
      PROVE  SwapFull' /\ Totals'
  <2>1. /\ UNCHANGED <<vstatus, pstatus, total_read, total_write>>
        /\ pc[t] = "user" /\ pc'[t] \in {"user", "fault"}
    BY <1>2, <1>4
    DEF User, UserRead, UserWrite, UserFault, Step, desc, counts, PagingTypes
  <2>2. QED
    BY <1>2, <2>1, QuietSwap
<1>5. ASSUME pcie_mm_reset PROVE SwapFull' /\ Totals'
  <2>1. /\ vstatus' = [c \in Chunks |-> "NO_MAP"] /\ total_read' = 0 /\ total_write' = 0
        /\ UNCHANGED pc /\ \A t \in Threads : ~Faulting(t)
    BY <1>1, <1>5 DEF pcie_mm_reset
  <2>2. SwappedOut' = {} /\ ReadBack' = {}
    BY <2>1 DEF SwappedOut, ReadBack, Faulting
  <2>3. SwapFull'
    BY <2>1, <2>2 DEF SwapFull, Faulting
  <2>4. Totals'
    BY <2>1, <2>2, FS_EmptySet DEF Totals
  <2>5. QED
    BY <2>3, <2>4
<1>6. ASSUME (\E m \in Vmas : pcieBase_mmap(m) \/ munmap(m)) \/ UNCHANGED vars
      PROVE  SwapFull' /\ Totals'
  <2>1. UNCHANGED <<vstatus, pstatus, total_read, total_write, pc, chunk>>
    BY <1>6 DEF pcieBase_mmap, munmap, vars, desc, counts, local
  <2>2. SwappedOut' = SwappedOut /\ FreeFrames' = FreeFrames /\ ReadBack' = ReadBack
    BY <2>1 DEF SwappedOut, FreeFrames, ReadBack
  <2>3. QED
    BY <1>2, <2>1, <2>2 DEF SwapFull, Totals
<1>7. SwapFull' /\ Totals'
  BY <1>3, <1>4, <1>5, <1>6 DEF Next
<1>8. QED
  BY <1>1, <1>7 DEF SwapInv

(* For one thread chunks are swapped out only when no frame is free, the   *)
(* totals of /proc tell how many are out, and the counters of the frames   *)
(* cover them, failing transfers or not.                                   *)
THEOREM SwapBalanceHolds ==
  ASSUME OneThread, ~ResetAnyTime, ~AnyOrder
  PROVE  Spec => []SwapBalance
<1>1. Init => SwapInv
  <2>1. SUFFICES ASSUME Init PROVE SwapInv
    OBVIOUS
  <2>2. SwappedOut = {} /\ ReadBack = {}
    BY <2>1 DEF Init, SwappedOut, ReadBack
  <2>3. SwapFull
    BY <2>1, <2>2 DEF Init, SwapFull
  <2>4. Totals
    BY <2>1, <2>2, FS_EmptySet DEF Init, Totals
  <2>5. QED
    BY <2>1, <2>3, <2>4, PteInit DEF SwapInv, Init
<1>2. SwapInv /\ FrameCountsCover => SwapBalance
  BY DEF SwapInv, SwapFull, Totals, SwapBalance
<1>3. QED
  BY <1>1, <1>2, SwapStep, FrameCountsCoverHolds, PTL DEF Spec
====
