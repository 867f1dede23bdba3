------------------------------ MODULE VirtFan ------------------------------
(***************************************************************************)
(* The virtual fan driver (virt_fan.c) with either of its transports: the  *)
(* one the Makefile links (virt_trans.c, "virt"), which answers from the   *)
(* PWM buffer, and the I2C one (fan_trans.c, "i2c"), which talks to a fan  *)
(* controller.  Threads are the users of the sysfs files, the kernel       *)
(* workers that run the work item a timer queues every second, and the     *)
(* thread that probes and removes the device.  Each step of a thread is    *)
(* one lock operation, one transfer or one access to shared data.          *)
(*                                                                         *)
(* A PWM value is represented by how many set_pwm of that fan came before  *)
(* (0: the default of fan_pwm_init), so that an old value can be told from *)
(* a new one; clamping and the conversion to RPM are left out.             *)
(***************************************************************************)
EXTENDS Integers, FiniteSets

CONSTANTS
  Users,              \* processes that read and write the sysfs files
  Workers,            \* kernel workers of the work queue, one per CPU
  FAN_MAX_NUM,        \* length of the PWM buffer (16 in the driver)
  FAN_FAIL_MAX_RETRY, \* attempts of a transfer (50 in the driver)
  NumFans,            \* what the module parameter num_fans may be set to
  Transports,         \* which of "i2c" and "virt" may be linked in
  MaxQueue,           \* bound: work items that wait; more ticks are ignored
  MaxWrites,          \* bound: writes to the parameter
  MaxStores,          \* bound: calls of set_pwm
  MaxFails            \* bound: I2C transfers that fail

Drv == "drv"
None == "none"
Threads == Users \cup Workers \cup {Drv}
Fans == 1..FAN_MAX_NUM

ASSUME FanAssumption ==
  /\ FAN_MAX_NUM \in Nat \ {0}
  /\ FAN_FAIL_MAX_RETRY \in Nat \ {0}
  /\ NumFans \subseteq Int
  /\ Transports \subseteq {"i2c", "virt"}
  /\ {MaxQueue, MaxWrites, MaxStores, MaxFails} \subseteq Nat
  /\ Drv \notin Users \cup Workers
  /\ None \notin Users \cup Workers
  /\ Users \cap Workers = {}

VARIABLES
  transport,  \* the transport of this build
  num_fans,   \* module parameter, writable at run time
  lock,       \* mcu_lock and pwm_buf_lock: initialised?  owner?
  pwm,        \* data->pwm, by fan
  nattr,      \* fans whose sysfs files were added
  sysfs,      \* the files can be opened
  timer,      \* pwm_timer is armed
  queued,     \* work items waiting
  thr,        \* per thread: pc and local variables
  mcu,        \* controller: the PWM each fan runs at
  reply,      \* controller: the answer to the last command
  stores,     \* history: calls of set_pwm so far
  fails,      \* history: failed transfers
  early,      \* history: a lock was taken before fan_init initialised it
  lost,       \* history: fan_pwm_init overwrote a stored PWM
  writes,     \* history: writes to num_fans
  oops        \* a NULL pointer was followed; nothing goes on

fanData == <<pwm, nattr, sysfs, timer, queued>>
device  == <<mcu, reply, fails>>
history == <<stores, early, lost, writes, oops>>
fanVars == <<transport, num_fans, lock, fanData, thr, device, history>>

NoReply == [cmd |-> None, nr |-> 0, val |-> 0]
Local == [pc |-> "idle", cmd |-> None, nr |-> 0, i |-> 0, val |-> 0,
          out |-> NoReply, since |-> 0]

NoLocks == [l \in {"mcu", "buf"} |-> [ready |-> FALSE, owner |-> None]]
NoPwm == [f \in Fans |-> 0]
Idle == [t \in Threads |-> Local]

FanInit ==
  /\ transport \in Transports
  /\ num_fans \in NumFans
  /\ lock = NoLocks /\ thr = Idle
  /\ pwm = NoPwm /\ mcu = NoPwm /\ reply = NoReply
  /\ nattr = 0 /\ queued = 0
  /\ sysfs = FALSE /\ timer = FALSE
  /\ stores = 0 /\ fails = 0 /\ writes = 0
  /\ early = FALSE /\ lost = FALSE /\ oops = FALSE

(* A NULL pointer followed in the kernel: nothing goes on, and what was in *)
(* memory no longer matters.                                               *)
Panic ==
  /\ oops' = TRUE
  /\ lock' = NoLocks /\ thr' = Idle
  /\ pwm' = NoPwm /\ mcu' = NoPwm /\ reply' = NoReply
  /\ nattr' = 0 /\ queued' = 0
  /\ sysfs' = FALSE /\ timer' = FALSE
  /\ stores' = 0 /\ fails' = 0 /\ writes' = 0
  /\ early' = FALSE /\ lost' = FALSE
  /\ UNCHANGED <<transport, num_fans>>

-----------------------------------------------------------------------------
At(t, p) == thr[t].pc = p
Goto(t, p) == thr' = [thr EXCEPT ![t].pc = p]
Return(t) == thr' = [thr EXCEPT ![t] = Local]

(* mutex_lock.  fan_data comes zeroed from devm_kzalloc, and a zeroed      *)
(* mutex can be taken while nobody holds it; to wait for one follows the   *)
(* NULL pointers of its wait list.                                         *)
Lock(t, l) ==
  /\ lock[l].owner = None
  /\ lock' = [lock EXCEPT ![l].owner = t]
  /\ early' = (early \/ ~lock[l].ready)
  /\ UNCHANGED <<stores, lost, writes, oops>>

(* A lock taken for one access and released.  Nothing blocks in between,   *)
(* so it is one step.                                                      *)
Momentarily(l) ==
  /\ lock[l].owner = None
  /\ early' = (early \/ ~lock[l].ready)
  /\ UNCHANGED <<lock, stores, lost, writes, oops>>

(* mutex_unlock: it does not look at who unlocks. *)
Unlock(l) == lock' = [lock EXCEPT ![l].owner = None]

(* mutex_init: whatever the state, the mutex is free afterwards. *)
mutex_init(l) == lock' = [lock EXCEPT ![l] = [ready |-> TRUE, owner |-> None]]

(* The lock a thread is about to take, by its pc. *)
Wants(t) ==
  CASE thr[t].pc \in {"show_mcu", "work_mcu"} -> "mcu"
    [] thr[t].pc \in {"show_buf", "work_buf", "set_buf", "init_buf"} -> "buf"
    [] OTHER -> None

MutexOops(t) ==
  /\ Wants(t) # None
  /\ lock[Wants(t)].owner # None /\ ~lock[Wants(t)].ready
  /\ Panic

-----------------------------------------------------------------------------
(* The I2C transfers.  A transfer that fails may still have reached the    *)
(* controller; a damaged answer is found by its length or PEC byte and     *)
(* counts as a failure.                                                    *)

(* The end of one attempt of fan_read or fan_write: leave the loop when    *)
(* the transport returned 0 or the attempts are used up.                   *)
Attempted(t, zero, again, done) ==
  IF zero \/ thr[t].i + 1 = FAN_FAIL_MAX_RETRY
    THEN [thr EXCEPT ![t].pc = done]
    ELSE [thr EXCEPT ![t].pc = again, ![t].i = @ + 1]

Fail == fails < MaxFails /\ fails' = fails + 1

(* _fan_read, first half: the command, which names the fan. *)
ReadSend(t) ==
  /\ At(t, "read_send")
  /\ LET answer == [cmd |-> thr[t].cmd, nr |-> thr[t].nr, val |-> mcu[thr[t].nr]]
     IN \/ reply' = answer /\ Goto(t, "read_recv") /\ UNCHANGED fails
        \/ /\ Fail /\ reply' \in {reply, answer}
           /\ thr' = Attempted(t, FALSE, "read_send", "read_done")
  /\ UNCHANGED <<transport, num_fans, lock, fanData, mcu, history>>

(* _fan_read, second half: the answer, after a pause. *)
ReadRecv(t) ==
  /\ At(t, "read_recv")
  /\ \/ /\ reply # NoReply
        /\ thr' = [thr EXCEPT ![t].pc = "read_done", ![t].out = reply]
        /\ reply' = NoReply
        /\ UNCHANGED fails
     \/ /\ Fail \/ (reply = NoReply /\ UNCHANGED fails)
        /\ reply' = NoReply
        /\ thr' = Attempted(t, FALSE, "read_send", "read_done")
  /\ UNCHANGED <<transport, num_fans, lock, fanData, mcu, history>>

(* _fan_read of virt_trans.c: the buffer's value, under the other lock. *)
ReadBuffer(t) ==
  /\ At(t, "show_buf")
  /\ Momentarily("buf")
  /\ thr' = [thr EXCEPT ![t].pc = "read_done",
                        ![t].out = [cmd |-> thr[t].cmd, nr |-> thr[t].nr,
                                   val |-> pwm[thr[t].nr]]]
  /\ UNCHANGED <<transport, num_fans, fanData, device>>

(* _fan_write: over I2C it returns the number of bytes sent, which is not  *)
(* 0, so that fan_write sends again what has arrived.                      *)
WriteSend(t) ==
  /\ At(t, "write_send")
  /\ LET set == IF thr[t].nr \in Fans THEN [mcu EXCEPT ![thr[t].nr] = thr[t].val] ELSE mcu
     IN CASE transport = "virt" ->
               thr' = Attempted(t, TRUE, "write_send", "write_done") /\ UNCHANGED device
          [] transport = "i2c" ->
               /\ thr' = Attempted(t, FALSE, "write_send", "write_done")
               /\ \/ mcu' = set /\ UNCHANGED fails
                  \/ mcu' \in {mcu, set} /\ Fail
               /\ UNCHANGED reply
  /\ UNCHANGED <<transport, num_fans, lock, fanData, history>>

-----------------------------------------------------------------------------
(* The sysfs files of fan f. *)
Open(t, f) == t \in Users /\ At(t, "idle") /\ sysfs /\ f <= nattr

(* The entry of show_fan and show_pwm, which differ in their command. *)
Show(t, f, cmd) ==
  /\ Open(t, f)
  /\ thr' = [thr EXCEPT ![t] = [Local EXCEPT
                !.pc = "show_mcu", !.cmd = cmd, !.nr = f,
                !.since = IF transport = "i2c" THEN mcu[f] ELSE pwm[f]]]
  /\ UNCHANGED <<transport, num_fans, lock, fanData, device, history>>

show_fan(t, f) == Show(t, f, "FAN_CMD_GET_RPM")
show_pwm(t, f) == Show(t, f, "FAN_CMD_GET_PWM")

(* Mutants: no lock; the buffer's lock over either transport. *)
ReadLockForgotten(t) ==
  /\ At(t, "show_mcu")
  /\ Goto(t, IF transport = "i2c" THEN "read_send" ELSE "show_buf")
  /\ UNCHANGED <<transport, num_fans, lock, fanData, device, history>>
ReadLockBoth(t) ==
  /\ At(t, "show_mcu")
  /\ Lock(t, "mcu")
  /\ Goto(t, "show_buf")
  /\ UNCHANGED <<transport, num_fans, fanData, device>>

(* fan_read: mcu_lock around the attempts. *)
ReadLock(t) ==
  /\ At(t, "show_mcu")
  /\ Lock(t, "mcu")
  /\ Goto(t, IF transport = "i2c" THEN "read_send" ELSE "show_buf")
  /\ UNCHANGED <<transport, num_fans, fanData, device>>

(* Mutant: the lock is kept. *)
ReadDoneNoUnlock(t) ==
  /\ At(t, "read_done")
  /\ Return(t)
  /\ UNCHANGED <<transport, num_fans, lock, fanData, device, history>>

ReadDone(t) ==
  /\ At(t, "read_done")
  /\ Unlock("mcu")
  /\ Return(t)
  /\ UNCHANGED <<transport, num_fans, fanData, device, history>>

(* set_pwm; a string that is not a number changes nothing. *)
set_pwm(t, f) ==
  /\ Open(t, f)
  /\ stores < MaxStores
  /\ stores' = stores + 1
  /\ thr' = [thr EXCEPT ![t] = [Local EXCEPT !.pc = "set_buf", !.nr = f]]
  /\ UNCHANGED <<transport, num_fans, lock, fanData, device, early, lost, writes, oops>>

SetStore(t) ==
  /\ At(t, "set_buf")
  /\ Momentarily("buf")
  /\ pwm' = [pwm EXCEPT ![thr[t].nr] = @ + 1]
  /\ Return(t)
  /\ UNCHANGED <<transport, num_fans, nattr, sysfs, timer, queued, device>>

(* A write to /sys/module/virt_fan_drv/parameters/num_fans. *)
SetNumFans ==
  /\ writes < MaxWrites
  /\ writes' = writes + 1
  /\ num_fans' \in NumFans \ {num_fans}
  /\ UNCHANGED <<transport, lock, fanData, thr, device, stores, early, lost, oops>>

-----------------------------------------------------------------------------
(* The timer queues a work item of its own each time, whether or not the   *)
(* last one is done, and arms itself again.  The allocation is not         *)
(* checked.                                                                *)
TimerQueue ==
  /\ timer
  /\ queued < MaxQueue
  /\ queued' = queued + 1
  /\ UNCHANGED <<transport, num_fans, lock, pwm, nattr, sysfs, timer,
                 thr, device, history>>

TimerOops == timer /\ Panic

fan_update_pwm_timer_callback == TimerQueue \/ TimerOops

(* fan_update_pwm_work_callback: the buffer is locked while each fan is    *)
(* written, so that no set_pwm comes between the read of a value and its   *)
(* transfer.                                                               *)
WorkStart(t) ==
  /\ t \in Workers /\ At(t, "idle")
  /\ queued > 0
  /\ queued' = queued - 1
  /\ Goto(t, "work_buf")
  /\ UNCHANGED <<transport, num_fans, lock, pwm, nattr, sysfs, timer, device, history>>

(* Mutants: the buffer's lock is not held during the transfer; the last    *)
(* fan is left out.                                                        *)
WorkNextUnlocks(t, nr, locks) ==
  IF nr <= num_fans
    THEN /\ thr' = [thr EXCEPT ![t] = [Local EXCEPT
              !.pc = "work_mcu", !.nr = nr, !.val = IF nr \in Fans THEN pwm[nr] ELSE 0]]
         /\ lock' = [locks EXCEPT !["buf"].owner = None]
    ELSE /\ Return(t)
         /\ lock' = [locks EXCEPT !["buf"].owner = None]
WorkNextSkipsLast(t, nr, locks) ==
  IF nr < num_fans
    THEN /\ thr' = [thr EXCEPT ![t] = [Local EXCEPT
              !.pc = "work_mcu", !.nr = nr, !.val = IF nr \in Fans THEN pwm[nr] ELSE 0]]
         /\ lock' = locks
    ELSE /\ Return(t)
         /\ lock' = [locks EXCEPT !["buf"].owner = None]

(* The head of its loop: num_fans is read again before each fan. *)
WorkNext(t, nr, locks) ==
  IF nr <= num_fans
    THEN /\ thr' = [thr EXCEPT ![t] = [Local EXCEPT
              !.pc = "work_mcu", !.nr = nr, !.val = IF nr \in Fans THEN pwm[nr] ELSE 0]]
         /\ lock' = locks
    ELSE /\ Return(t)
         /\ lock' = [locks EXCEPT !["buf"].owner = None]

WorkLock(t) ==
  /\ At(t, "work_buf")
  /\ lock["buf"].owner = None
  /\ WorkNext(t, 1, [lock EXCEPT !["buf"].owner = t])
  /\ UNCHANGED <<transport, num_fans, fanData, device, history>>

(* Mutant: no lock. *)
WriteLockForgotten(t) ==
  /\ At(t, "work_mcu")
  /\ Goto(t, "write_send")
  /\ UNCHANGED <<transport, num_fans, lock, fanData, device, history>>

(* update_pwm, fan_write: mcu_lock around the attempts. *)
WriteLock(t) ==
  /\ At(t, "work_mcu")
  /\ Lock(t, "mcu")
  /\ Goto(t, "write_send")
  /\ UNCHANGED <<transport, num_fans, fanData, device>>

WriteDone(t) ==
  /\ At(t, "write_done")
  /\ WorkNext(t, thr[t].nr + 1, [lock EXCEPT !["mcu"].owner = None])
  /\ UNCHANGED <<transport, num_fans, fanData, device, history>>

-----------------------------------------------------------------------------
(* fan_probe.  The parameter is checked, then read again for each turn of  *)
(* the loop that fills data->attrs.                                        *)
ProbeCheck ==
  /\ At(Drv, "idle")
  /\ Goto(Drv, IF num_fans <= 0 \/ num_fans > FAN_MAX_NUM THEN "gone" ELSE "alloc")
  /\ UNCHANGED <<transport, num_fans, lock, fanData, device, history>>

ProbeAlloc ==
  /\ At(Drv, "alloc")
  /\ Goto(Drv, "attrs") \/ Goto(Drv, "gone")
  /\ UNCHANGED <<transport, num_fans, lock, fanData, device, history>>

ProbeAttrs ==
  /\ At(Drv, "attrs")
  /\ nattr < num_fans
  /\ \/ /\ nattr' = nattr + 1
        /\ UNCHANGED thr
     \/ Goto(Drv, "gone") /\ UNCHANGED nattr
  /\ UNCHANGED <<transport, num_fans, lock, pwm, sysfs, timer, queued, device, history>>

(* devm_hwmon_device_register_with_groups: from here on there are files. *)
ProbeRegister ==
  /\ At(Drv, "attrs")
  /\ nattr >= num_fans
  /\ \/ sysfs' = TRUE /\ Goto(Drv, "init_mcu")
     \/ UNCHANGED sysfs /\ Goto(Drv, "gone")
  /\ UNCHANGED <<transport, num_fans, lock, pwm, nattr, timer, queued, device, history>>

(* fan_init: the locks, the work queue, the default PWM, the timer. *)
InitMcuLock ==
  /\ At(Drv, "init_mcu")
  /\ mutex_init("mcu")
  /\ Goto(Drv, "init_bufl")
  /\ UNCHANGED <<transport, num_fans, fanData, device, history>>

InitBufLock ==
  /\ At(Drv, "init_bufl")
  /\ mutex_init("buf")
  /\ Goto(Drv, "init_buf") \/ Goto(Drv, "release")   \* create_workqueue
  /\ UNCHANGED <<transport, num_fans, fanData, device, history>>

fan_pwm_init ==
  /\ At(Drv, "init_buf")
  /\ lock["buf"].owner = None
  /\ pwm' = [f \in Fans |-> IF f <= num_fans THEN 0 ELSE pwm[f]]
  /\ lost' = (lost \/ \E f \in Fans : pwm[f] # pwm'[f])
  /\ timer' = TRUE
  /\ Goto(Drv, "bound")
  /\ UNCHANGED <<transport, num_fans, lock, nattr, sysfs, queued, device,
                 stores, early, writes, oops>>

(* Mutant: the timer goes on. *)
RemoveTimerForgotten ==
  /\ At(Drv, "bound")
  /\ Goto(Drv, "flush")
  /\ UNCHANGED <<transport, num_fans, lock, fanData, device, history>>

(* fan_remove: del_timer_sync, then flush_workqueue and destroy_workqueue. *)
RemoveTimer ==
  /\ At(Drv, "bound")
  /\ timer' = FALSE
  /\ Goto(Drv, "flush")
  /\ UNCHANGED <<transport, num_fans, lock, pwm, nattr, sysfs, queued, device, history>>

RemoveFlush ==
  /\ At(Drv, "flush")
  /\ queued = 0 /\ \A w \in Workers : At(w, "idle")
  /\ Goto(Drv, "release")
  /\ UNCHANGED <<transport, num_fans, lock, fanData, device, history>>

(* The driver core releases what devm registered: the files go, calls in   *)
(* progress are waited for, then the memory is freed.                      *)
ReleaseSysfs ==
  /\ At(Drv, "release")
  /\ sysfs' = FALSE
  /\ Goto(Drv, "drain")
  /\ UNCHANGED <<transport, num_fans, lock, pwm, nattr, timer, queued, device, history>>

ReleaseMemory ==
  /\ At(Drv, "drain")
  /\ \A u \in Users : At(u, "idle")
  /\ Goto(Drv, "gone")
  /\ UNCHANGED <<transport, num_fans, lock, fanData, device, history>>

-----------------------------------------------------------------------------
fan_read(t) == ReadLock(t) \/ ReadSend(t) \/ ReadRecv(t)
                 \/ ReadBuffer(t) \/ ReadDone(t)
fan_write(t) == WriteLock(t) \/ WriteSend(t) \/ WriteDone(t)
fan_update_pwm_work_callback(t) ==
  WorkStart(t) \/ WorkLock(t) \/ fan_write(t)
fan_init == InitMcuLock \/ InitBufLock \/ fan_pwm_init
fan_probe == ProbeCheck \/ ProbeAlloc \/ ProbeAttrs \/ ProbeRegister \/ fan_init
fan_remove == RemoveTimer \/ RemoveFlush
Release == ReleaseSysfs \/ ReleaseMemory

InCall(t) == fan_read(t) \/ SetStore(t)

FanNext ==
  /\ ~oops
  /\ \/ \E u \in Users : InCall(u) \/ \E f \in Fans : show_fan(u, f) \/ show_pwm(u, f) \/ set_pwm(u, f)
     \/ \E w \in Workers : fan_update_pwm_work_callback(w)
     \/ \E t \in Threads : MutexOops(t)
     \/ fan_update_pwm_timer_callback
     \/ SetNumFans
     \/ fan_probe \/ fan_remove \/ Release

(* Fairness: a call, a work item, a probe or a removal once begun goes on; *)
(* strong, because a mutex is handed on in turn but is seen taken and free *)
(* in between; the armed timer fires.  Nothing makes a user call.          *)
FanSpec ==
  /\ FanInit /\ [][FanNext]_fanVars
  /\ \A u \in Users : SF_fanVars(~oops /\ InCall(u))
  /\ \A w \in Workers : SF_fanVars(~oops /\ fan_update_pwm_work_callback(w))
  /\ WF_fanVars(~oops /\ TimerQueue)
  /\ SF_fanVars(~oops /\ (fan_probe \/ RemoveFlush \/ Release))

-----------------------------------------------------------------------------
(* The threads between mutex_lock and mutex_unlock. *)
Inside(l) ==
  {t \in Threads : thr[t].pc \in
     IF l = "mcu" THEN {"read_send", "read_recv", "show_buf", "read_done",
                        "write_send", "write_done"}
                  ELSE {"work_mcu", "write_send", "write_done"}}

(* mcu_lock and pwm_buf_lock exclude, although fan_probe publishes the     *)
(* files before fan_init initialises the locks: exclusion is lost only if  *)
(* a call took a lock in that window.                                      *)
LocksExclude ==
  ~early => \A l \in {"mcu", "buf"} : Cardinality(Inside(l)) <= 1

(* Threads t and u hold the lock the other one waits for. *)
WaitsFor(t, u) ==
  /\ Wants(t) # None
  /\ lock[Wants(t)].owner = u

(* The work item takes pwm_buf_lock, then mcu_lock; a read takes mcu_lock, *)
(* then, in virt_trans.c only, pwm_buf_lock.  No other pair of threads     *)
(* ever waits for each other: over I2C there is no deadlock, and with the  *)
(* virtual transport it is this one.                                       *)
DeadlockOnlyReadVsWork ==
  \A t, u \in Threads :
    (WaitsFor(t, u) /\ WaitsFor(u, t)) =>
       /\ transport = "virt"
       /\ {thr[t].pc, thr[u].pc} = {"show_buf", "work_mcu"}

(* What a file shows is about its own fan and not older than the call: two *)
(* transfers make a read over I2C, and no other command comes between.     *)
ReadIsOwnAndFresh ==
  \A u \in Users :
    (At(u, "read_done") /\ thr[u].out # NoReply /\ ~early /\ ~lost) =>
       /\ thr[u].out.cmd = thr[u].cmd /\ thr[u].out.nr = thr[u].nr
       /\ thr[u].out.val >= thr[u].since

(* The controller never goes back to an older PWM, although two work items *)
(* may run at once and a transfer that failed may have arrived.            *)
McuNeverGoesBack ==
  [][\A f \in Fans : ~early /\ ~oops' => mcu'[f] >= mcu[f]]_fanVars

(* fan_remove stops the timer before it flushes the queue: after that no   *)
(* work item exists, and when the memory is freed nobody is in a call.     *)
NothingAfterRemove ==
  /\ At(Drv, "release") \/ At(Drv, "drain") \/ At(Drv, "gone") =>
       ~timer /\ queued = 0 /\ \A w \in Workers : At(w, "idle")
  /\ At(Drv, "gone") => \A t \in Users : At(t, "idle")

(* A set PWM reaches the controller, unless the driver is removed or       *)
(* num_fans is lowered below the fan; a failed transfer is made up for.    *)
PwmReachesMcu ==
  \A f \in Fans, k \in 1..MaxStores :
    (transport = "i2c" /\ timer /\ ~early /\ pwm[f] >= k)
       ~> (mcu[f] >= k \/ ~timer \/ num_fans < f \/ oops)

(* Over I2C every call of a file, every work item and a removal ends. *)
FanCallsReturn ==
  /\ \A t \in Users \cup Workers :
       (transport = "i2c" /\ ~At(t, "idle")) ~> (At(t, "idle") \/ oops)
  /\ (transport = "i2c" /\ At(Drv, "flush")) ~> (At(Drv, "gone") \/ oops)
=============================================================================
