--------------------------- MODULE VirtTempProofs ---------------------------
(***************************************************************************)
(* The temperature file shows only what was stored, for any set of users   *)
(* and of numbers written.  A value passes from a call to data->temp and   *)
(* from there to another call, so that the invariant follows it through    *)
(* all three; and since the history of a device is forgotten when it is    *)
(* freed, it needs that nobody is in a call then.                          *)
(***************************************************************************)
EXTENDS VirtTemp, TLAPS

TempPcs == {"idle", "show_lock", "set_lock", "show", "set", "shown"}

ThrInv == temp_thr \in [TempUsers -> [pc : TempPcs, val : Int]] /\ temp \in Int

(* Without a file nobody is in a call. *)
NoFileIdle ==
  /\ temp_file \in {"none", "live", "closing"}
  /\ temp_file = "none" => temp_thr = [u \in TempUsers |-> TempIdle]

(* The device and every call that carries a value carry a stored one. *)
CarriesStored ==
  /\ temp_file # "none" => temp \in Stored
  /\ \A u \in TempUsers :
       temp_thr[u].pc \in {"set_lock", "set", "shown"} => temp_thr[u].val \in Stored

TempInv == ThrInv /\ NoFileIdle /\ CarriesStored

(* clamp_val of a number is a number. *)
LEMMA ClampInt == \A v \in Nat : clamp_val(v, 0, 100000) \in Int
  BY DEF clamp_val

(* Before the probe. *)
LEMMA TempInvInit == TempInit => TempInv
  BY DEF TempInit, TempInv, ThrInv, NoFileIdle, CarriesStored, TempIdle, TempPcs

(* Probe, unregistration and the freeing of the memory. *)
LEMMA TempInvDevice == TempInv /\ (temp_probe \/ temp_remove \/ TempFree) => TempInv'
<1> USE DEF TempInv
<1>1. ASSUME TempInv, temp_probe PROVE TempInv'
  BY <1>1 DEF temp_probe, ThrInv, NoFileIdle, CarriesStored, Stored
<1>2. ASSUME TempInv, temp_remove PROVE TempInv'
  BY <1>2 DEF temp_remove, ThrInv, NoFileIdle, CarriesStored, Stored
<1>3. ASSUME TempInv, TempFree PROVE TempInv'
  <2>1. temp_thr = [u \in TempUsers |-> TempIdle]
    BY <1>3 DEF TempFree, ThrInv
  <2>2. ThrInv' /\ NoFileIdle'
    BY <1>3, <2>1 DEF TempFree, ThrInv, NoFileIdle
  <2>3. CarriesStored'
    BY <1>3, <2>1 DEF TempFree, CarriesStored, TempIdle
  <2> QED
    BY <2>2, <2>3
<1> QED
  BY <1>1, <1>2, <1>3

(* A user reads or writes the file: set_temp is where a value enters. *)
LEMMA TempInvCall ==
  ASSUME TempInv, NEW u \in TempUsers, show_temp(u) \/ \E v \in Inputs : set_temp(u, v)
  PROVE  TempInv'
<1> USE DEF TempInv
<1>1. CASE show_temp(u)
  BY <1>1 DEF show_temp, TempCall, ThrInv, NoFileIdle, CarriesStored, Stored, TempPcs
<1>2. ASSUME NEW v \in Inputs, set_temp(u, v) PROVE TempInv'
  <2>1. asked' = asked \cup {v} /\ Stored \subseteq Stored'
    BY <1>2 DEF set_temp, Stored
  <2>2. clamp_val(v, 0, 100000) \in Stored'
    BY <2>1 DEF Stored
  <2>3. clamp_val(v, 0, 100000) \in Int
    BY ClampInt, TempAssumption
  <2>4. /\ temp_file = "live" /\ UNCHANGED <<temp, temp_file>>
        /\ temp_thr' = [temp_thr EXCEPT ![u] = [pc |-> "set_lock", val |-> clamp_val(v, 0, 100000)]]
    BY <1>2 DEF set_temp, TempCall
  <2>5. ThrInv' /\ NoFileIdle'
    BY <2>3, <2>4 DEF ThrInv, NoFileIdle, TempPcs
  <2>6. CarriesStored'
    BY <2>1, <2>2, <2>4 DEF CarriesStored, ThrInv
  <2> QED
    BY <2>5, <2>6
<1> QED
  BY <1>1, <1>2

(* The steps of a call: values move between the call and the device. *)
LEMMA TempInvInCall ==
  ASSUME TempInv, NEW u \in TempUsers, TempLock(u) \/ TempAccess(u) \/ TempReturn(u)
  PROVE  TempInv'
<1> USE DEF TempInv
<1>0. temp_thr[u] \in [pc : TempPcs, val : Int]
  BY DEF ThrInv
<1>1. temp_thr[u].pc # "idle" => temp_file # "none"
  BY DEF NoFileIdle, TempIdle
<1>2. CASE TempLock(u)
  BY <1>0, <1>1, <1>2 DEF TempLock, ThrInv, NoFileIdle, CarriesStored, Stored, TempPcs
<1>3. CASE TempAccess(u)
  <2>1. UNCHANGED <<Stored, temp_file>> /\ temp_file # "none"
    BY <1>1, <1>3 DEF TempAccess, Stored
  <2>2. CASE temp_thr[u].pc = "show"
    BY <1>3, <2>1, <2>2 DEF TempAccess, ThrInv, NoFileIdle, CarriesStored, TempPcs
  <2>3. CASE temp_thr[u].pc = "set"
    BY <1>0, <1>3, <2>1, <2>3 DEF TempAccess, ThrInv, NoFileIdle, CarriesStored, TempPcs, TempIdle
  <2> QED
    BY <1>3, <2>2, <2>3 DEF TempAccess
<1>4. CASE TempReturn(u)
  BY <1>1, <1>4 DEF TempReturn, ThrInv, NoFileIdle, CarriesStored, Stored, TempPcs, TempIdle
<1> QED
  BY <1>2, <1>3, <1>4

(* TempInv is an invariant of the driver. *)
LEMMA TempInvHolds == TempSpec => []TempInv
<1>1. TempInv /\ [TempStep]_tempVars => TempInv'
  <2>1. TempInv /\ TempStep => TempInv'
    BY TempInvDevice, TempInvCall, TempInvInCall DEF TempStep
  <2>2. TempInv /\ UNCHANGED tempVars => TempInv'
    BY DEF TempInv, ThrInv, NoFileIdle, CarriesStored, Stored, tempVars
  <2> QED
    BY <2>1, <2>2
<1> QED
  BY <1>1, TempInvInit, PTL DEF TempSpec

(* ShownWasStored of show_temp and set_temp, across removal and a new      *)
(* probe, for any number of concurrent calls.                              *)
THEOREM TempShownWasStored == TempSpec => []ShownWasStored
<1>1. TempInv => ShownWasStored
  BY DEF TempInv, CarriesStored, ShownWasStored
<1> QED
  BY <1>1, TempInvHolds, PTL
=============================================================================
