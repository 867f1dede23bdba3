------------------------------ MODULE VirtTemp ------------------------------
(***************************************************************************)
(* The virtual temperature sensor (virt_temp.c): one stored temperature,   *)
(* shown and set through a sysfs file.  temp_lock is never initialised:    *)
(* devm_kzalloc leaves it zeroed, in which state it can be taken, but a    *)
(* thread that has to wait for it follows a NULL pointer.                  *)
(***************************************************************************)
EXTENDS Integers

CONSTANTS
  TempUsers,   \* processes that use the file
  Inputs       \* numbers that are written to it

ASSUME TempAssumption == Inputs \subseteq Nat

TempNone == "none"

VARIABLES
  temp,        \* data->temp
  temp_lock,   \* who holds the lock
  temp_file,   \* "none", "live", or "closing" once unregistration waits
  temp_thr,    \* per user: pc and value
  asked,       \* history: every number written so far
  temp_oops

tempVars == <<temp, temp_lock, temp_file, temp_thr, asked, temp_oops>>

TempIdle == [pc |-> "idle", val |-> 0]

TempInit ==
  /\ temp = 0 /\ temp_lock = TempNone /\ temp_file = "none"
  /\ temp_thr = [u \in TempUsers |-> TempIdle]
  /\ asked = {} /\ temp_oops = FALSE

(* Mutant: the file is registered before the temperature is set. *)
temp_probe_late ==
  /\ temp_file = "none" /\ temp = 0
  /\ temp_file' = "live"
  /\ UNCHANGED <<temp, temp_lock, temp_thr, asked, temp_oops>>

(* temp_probe: the default is stored before there is a file.  Either       *)
(* allocation may fail and nothing is left.                                *)
temp_probe ==
  /\ temp_file = "none" /\ temp = 0
  /\ temp' = 25000
  /\ temp_file' = "live"
  /\ UNCHANGED <<temp_lock, temp_thr, asked, temp_oops>>

(* devm unregisters the device after the empty temp_remove: no new calls,  *)
(* the memory is freed when the last one has returned.                     *)
temp_remove ==
  /\ temp_file = "live"
  /\ temp_file' = "closing"
  /\ UNCHANGED <<temp, temp_lock, temp_thr, asked, temp_oops>>

TempFree ==
  /\ temp_file = "closing"
  /\ \A u \in TempUsers : temp_thr[u] = TempIdle
  /\ temp_file' = "none" /\ temp' = 0 /\ asked' = {}
  /\ UNCHANGED <<temp_lock, temp_thr, temp_oops>>

clamp_val(v, lo, hi) == IF v < lo THEN lo ELSE IF v > hi THEN hi ELSE v

TempCall(u, pc, v) ==
  /\ temp_file = "live" /\ temp_thr[u].pc = "idle"
  /\ temp_thr' = [temp_thr EXCEPT ![u] = [pc |-> pc, val |-> v]]
  /\ UNCHANGED <<temp, temp_lock, temp_file, temp_oops>>

show_temp(u) == TempCall(u, "show_lock", 0) /\ UNCHANGED asked
set_temp(u, v) ==
  TempCall(u, "set_lock", clamp_val(v, 0, 100000)) /\ asked' = asked \cup {v}

(* mutex_lock of either call *)
TempLock(u) ==
  /\ temp_thr[u].pc \in {"show_lock", "set_lock"}
  /\ IF temp_lock = TempNone
       THEN /\ temp_lock' = u
            /\ temp_thr' = [temp_thr EXCEPT ![u].pc = IF @ = "show_lock" THEN "show" ELSE "set"]
            /\ UNCHANGED temp_oops
       ELSE temp_oops' = TRUE /\ UNCHANGED <<temp_lock, temp_thr>>
  /\ UNCHANGED <<temp, temp_file, asked>>

(* The access, mutex_unlock and the return; a show keeps what it prints. *)
TempAccess(u) ==
  /\ temp_thr[u].pc \in {"show", "set"}
  /\ temp_lock' = TempNone
  /\ IF temp_thr[u].pc = "show"
       THEN temp_thr' = [temp_thr EXCEPT ![u] = [pc |-> "shown", val |-> temp]] /\ UNCHANGED temp
       ELSE temp_thr' = [temp_thr EXCEPT ![u] = TempIdle] /\ temp' = temp_thr[u].val
  /\ UNCHANGED <<temp_file, asked, temp_oops>>

TempReturn(u) ==
  /\ temp_thr[u].pc = "shown"
  /\ temp_thr' = [temp_thr EXCEPT ![u] = TempIdle]
  /\ UNCHANGED <<temp, temp_lock, temp_file, asked, temp_oops>>

TempStep ==
  /\ ~temp_oops
  /\ \/ temp_probe \/ temp_remove \/ TempFree
     \/ \E u \in TempUsers :
          \/ show_temp(u) \/ TempLock(u) \/ TempAccess(u) \/ TempReturn(u)
          \/ \E v \in Inputs : set_temp(u, v)

TempSpec == TempInit /\ [][TempStep]_tempVars

-----------------------------------------------------------------------------
(* The default, and what somebody wrote since the probe, clamped *)
Stored == {25000} \cup {clamp_val(v, 0, 100000) : v \in asked}

(* What the file shows is the default or what somebody wrote since the     *)
(* probe, brought into the range 0..100000: never the zero that            *)
(* devm_kzalloc left, and never a value of an earlier device.              *)
ShownWasStored ==
  \A u \in TempUsers : temp_thr[u].pc = "shown" => temp_thr[u].val \in Stored
=============================================================================
