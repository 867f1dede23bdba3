--------------------------- MODULE VirtFanProofs ---------------------------
(***************************************************************************)
(* Proofs about the virtual fan driver, for any number of users, workers   *)
(* and fans, either transport and every bound: what the two locks exclude, *)
(* the one deadlock there is, what a read may show, that the controller    *)
(* never goes back, and that nothing is left when the driver has gone.     *)
(***************************************************************************)
EXTENDS VirtFan, FiniteSetTheorems, TLAPS

UserPcs == {"idle", "show_mcu", "show_buf", "read_send", "read_recv", "read_done", "set_buf"}
WorkerPcs == {"idle", "work_buf", "work_mcu", "write_send", "write_done"}
DrvPcs == {"idle", "alloc", "attrs", "init_mcu", "init_bufl", "init_buf", "bound",
           "flush", "release", "drain", "gone"}

(* Where fan_probe is before the timer runs, and where calls are possible. *)
BeforeTimer == {"idle", "alloc", "attrs", "init_mcu", "init_bufl", "init_buf"}
FilesExist == {"init_mcu", "init_bufl", "init_buf", "bound", "flush", "release"}

InsideMcu == {"read_send", "read_recv", "show_buf", "read_done", "write_send", "write_done"}
InsideBuf == {"work_mcu", "write_send", "write_done"}

Pcs == UserPcs \cup WorkerPcs \cup DrvPcs
Cmds == {"none", "FAN_CMD_GET_RPM", "FAN_CMD_GET_PWM"}
Replies == [cmd : Cmds, nr : Nat, val : Nat]
Locals == [pc : Pcs, cmd : Cmds, nr : Nat, i : Nat, val : Nat, out : Replies, since : Nat]

FanTypes ==
  /\ transport \in {"i2c", "virt"} /\ num_fans \in Int
  /\ lock \in [{"mcu", "buf"} -> [ready : BOOLEAN, owner : Threads \cup {None}]]
  /\ pwm \in [Fans -> Nat] /\ mcu \in [Fans -> Nat] /\ reply \in Replies
  /\ nattr \in Nat /\ queued \in Nat
  /\ thr \in [Threads -> Locals]

FanFlags == early \in BOOLEAN /\ lost \in BOOLEAN

PcInv ==
  /\ \A u \in Users : thr[u].pc \in UserPcs
  /\ \A w \in Workers : thr[w].pc \in WorkerPcs
  /\ thr[Drv].pc \in DrvPcs

(* Who owns a lock is inside; unless a lock was taken too early, who is    *)
(* inside owns it.                                                         *)
OwnerInv ==
  /\ lock["mcu"].owner # None => thr[lock["mcu"].owner].pc \in InsideMcu
  /\ lock["buf"].owner # None => thr[lock["buf"].owner].pc \in InsideBuf
ExcludeInv ==
  ~early => \A t \in Threads :
    /\ thr[t].pc \in InsideMcu => lock["mcu"].owner = t
    /\ thr[t].pc \in InsideBuf => lock["buf"].owner = t

(* A lock is initialised once, by fan_init, and before the first work item *)
ReadyInv ==
  /\ ~early /\ ~lock["mcu"].ready => lock["mcu"].owner = None
  /\ ~early /\ ~lock["buf"].ready => lock["buf"].owner = None
  /\ thr[Drv].pc \in {"idle", "alloc", "attrs", "init_mcu"} =>
       ~lock["mcu"].ready /\ ~lock["buf"].ready
  /\ thr[Drv].pc = "init_bufl" => ~lock["buf"].ready
  /\ thr[Drv].pc \in {"init_buf", "bound", "flush"} => lock["buf"].ready

PhaseInv ==
  /\ timer => thr[Drv].pc = "bound"
  /\ queued > 0 => thr[Drv].pc \in {"bound", "flush"}
  /\ \A w \in Workers : thr[w].pc # "idle" => thr[Drv].pc \in {"bound", "flush"}
  /\ sysfs => thr[Drv].pc \in FilesExist
  /\ \A u \in Users : thr[u].pc # "idle" => thr[Drv].pc \in FilesExist \cup {"drain"}

(* A transfer writes what the buffer holds, which the controller is never  *)
(* ahead of.                                                               *)
WriteInv ==
  /\ ~early => \A f \in Fans : mcu[f] <= pwm[f]
  /\ ~early => \A w \in Workers :
       (thr[w].pc \in InsideBuf /\ thr[w].nr \in Fans) => thr[w].val = pwm[thr[w].nr]
  /\ thr[Drv].pc \in BeforeTimer => \A f \in Fans : mcu[f] = 0

(* The PWM a read must not fall behind *)
Current(f) == IF transport = "i2c" THEN mcu[f] ELSE pwm[f]

ReadInv ==
  \A u \in Users :
    /\ thr[u].pc # "idle" => thr[u].nr \in Fans
    /\ thr[u].pc = "show_buf" => transport = "virt"
    /\ thr[u].pc \in {"read_send", "read_recv"} => transport = "i2c"
    /\ thr[u].pc \in {"show_mcu", "show_buf", "read_send", "read_recv"} => thr[u].out = NoReply
    /\ (thr[u].pc # "idle" /\ ~early /\ ~lost) => thr[u].since <= Current(thr[u].nr)
    /\ (thr[u].pc = "read_recv" /\ reply # NoReply /\ ~early /\ ~lost) =>
         reply.cmd = thr[u].cmd /\ reply.nr = thr[u].nr /\ reply.val >= thr[u].since

FanInv ==
  /\ FanTypes /\ FanFlags /\ PcInv /\ OwnerInv /\ ExcludeInv /\ ReadyInv /\ PhaseInv
  /\ WriteInv /\ ReadInv /\ ReadIsOwnAndFresh

-----------------------------------------------------------------------------
(* Only thread t moves. *)
Others(t) == thr' \in [Threads -> Locals] /\ \A x \in Threads \ {t} : thr'[x] = thr[x]

(* Its local variables, but for pc and i, are kept. *)
Kept(t) ==
  /\ thr'[t].cmd = thr[t].cmd /\ thr'[t].nr = thr[t].nr /\ thr'[t].val = thr[t].val
  /\ thr'[t].out = thr[t].out /\ thr'[t].since = thr[t].since

(* What the helpers of a step do to the threads *)
LEMMA GotoFacts ==
  ASSUME thr \in [Threads -> Locals], NEW t \in Threads, NEW p \in Pcs, Goto(t, p)
  PROVE  /\ Others(t)
         /\ thr'[t].pc = p /\ Kept(t)
BY DEF Others, Kept, Goto, Locals

(* A call that returns forgets its local variables. *)
LEMMA ReturnFacts ==
  ASSUME thr \in [Threads -> Locals], NEW t \in Threads, Return(t)
  PROVE  /\ Others(t)
         /\ thr'[t] = Local
BY DEF Others, Return, Locals, Local, NoReply, Replies, None, Pcs, UserPcs, WorkerPcs, DrvPcs, Cmds

(* An attempt of a transfer ends in one of two places. *)
LEMMA AttemptedFacts ==
  ASSUME thr \in [Threads -> Locals], NEW t \in Threads, NEW zero \in BOOLEAN,
         NEW again \in Pcs, NEW done \in Pcs, thr' = Attempted(t, zero, again, done)
  PROVE  /\ Others(t)
         /\ thr'[t].pc \in {again, done}
         /\ Kept(t)
BY DEF Others, Kept, Attempted, Locals

(* The head of the work item's loop holds the PWM of the next fan, or      *)
(* gives the buffer's lock back.                                           *)
LEMMA WorkNextFacts ==
  ASSUME FanTypes, NEW w \in Workers, NEW nr \in Nat, NEW locks, WorkNext(w, nr, locks)
  PROVE  /\ Others(w)
         /\ \/ /\ thr'[w].pc = "work_mcu" /\ thr'[w].nr = nr
               /\ nr \in Fans => thr'[w].val = pwm[nr]
               /\ lock' = locks
            \/ thr'[w].pc = "idle" /\ lock' = [locks EXCEPT !["buf"].owner = None]
<1> USE DEF FanTypes, Locals, Local, NoReply, Replies, None, Pcs, UserPcs, WorkerPcs, DrvPcs,
            Cmds, Threads
<1>1. CASE nr <= num_fans
  <2>1. /\ thr' = [thr EXCEPT ![w] = [Local EXCEPT
              !.pc = "work_mcu", !.nr = nr, !.val = IF nr \in Fans THEN pwm[nr] ELSE 0]]
        /\ lock' = locks
    BY <1>1 DEF WorkNext
  <2> QED BY <2>1 DEF Others
<1>2. CASE ~(nr <= num_fans)
  <2>1. Return(w) /\ lock' = [locks EXCEPT !["buf"].owner = None]
    BY <1>2 DEF WorkNext
  <2> QED BY <2>1, ReturnFacts
<1> QED BY <1>1, <1>2

-----------------------------------------------------------------------------
(* A call of a sysfs file begins with fresh local variables. *)
LEMMA EntryFacts ==
  ASSUME thr \in [Threads -> Locals], NEW t \in Threads, NEW p \in Pcs, NEW cmd \in Cmds,
         NEW f \in Fans, NEW since \in Nat,
         thr' = [thr EXCEPT ![t] = [Local EXCEPT !.pc = p, !.cmd = cmd, !.nr = f, !.since = since]]
  PROVE  /\ Others(t) /\ thr'[t].pc = p /\ thr'[t].nr = f /\ thr'[t].out = NoReply
         /\ thr'[t].since = since
<1>1. f \in Nat
  BY FanAssumption DEF Fans
<1>2. NoReply \in Replies
  BY DEF NoReply, Replies, Cmds, None
<1>3. [Local EXCEPT !.pc = p, !.cmd = cmd, !.nr = f, !.since = since] \in Locals
  BY <1>1, <1>2 DEF Local, Locals
<1> QED BY <1>3 DEF Others, Local

(* What the controller answers to the command of thread t *)
Answer(t) == [cmd |-> thr[t].cmd, nr |-> thr[t].nr, val |-> mcu[thr[t].nr]]

(* fan_read keeps the invariant: each of its steps, with either transport. *)
LEMMA ReadKeeps ==
  ASSUME FanInv, NEW u \in Users, fan_read(u)
  PROVE  FanInv'
<1> USE FanAssumption DEF FanInv, FanTypes, FanFlags, Threads, Drv, None, Pcs, UserPcs, WorkerPcs,
            DrvPcs, At
<1>1. CASE ReadLock(u)
  <2>1. thr[u].pc = "show_mcu" /\ thr[u] \in Locals
    BY <1>1 DEF ReadLock
  <2>2. /\ Others(u) /\ Kept(u)
        /\ thr'[u].pc \in {"read_send", "show_buf"}
        /\ thr'[u].pc = "read_send" <=> transport = "i2c"
    BY <1>1 DEF ReadLock, Goto, Others, Locals, Kept
  <2>3. /\ lock["mcu"].owner = None /\ lock' = [lock EXCEPT !["mcu"].owner = u]
        /\ early' = (early \/ ~lock["mcu"].ready) /\ lost' = lost
        /\ UNCHANGED <<transport, num_fans, pwm, mcu, reply, nattr, queued, sysfs, timer>>
    BY <1>1 DEF ReadLock, Lock, fanData, device
  <2>4. thr'[Drv] = thr[Drv] /\ (~early' => ~early /\ lock["mcu"].ready)
    BY <2>2, <2>3 DEF Others
  <2>5. FanTypes' /\ FanFlags'
    BY <2>1, <2>2, <2>3, <2>4 DEF Others, Replies, Cmds
  <2>6. PcInv' /\ PhaseInv' /\ ReadyInv'
    BY <2>1, <2>2, <2>3, <2>4 DEF Others, PcInv, PhaseInv, ReadyInv, FilesExist
  <2>7. OwnerInv' /\ ExcludeInv'
    BY <2>1, <2>2, <2>3, <2>4 DEF Others, PcInv, OwnerInv, ExcludeInv, ReadyInv, PhaseInv,
           InsideMcu, InsideBuf
  <2>8. WriteInv'
    BY <2>1, <2>2, <2>3, <2>4 DEF Others, Kept, PcInv, WriteInv, ExcludeInv, OwnerInv, PhaseInv,
           InsideMcu, InsideBuf, BeforeTimer
  <2>9. ReadInv' /\ ReadIsOwnAndFresh'
    BY <2>1, <2>2, <2>3, <2>4 DEF Others, Kept, Locals, PcInv, ReadInv, ReadIsOwnAndFresh,
           WriteInv, ExcludeInv, OwnerInv, PhaseInv, Current, InsideMcu, InsideBuf
  <2> QED BY <2>5, <2>6, <2>7, <2>8, <2>9
<1>2. CASE ReadSend(u)
  <2>1. thr[u].pc = "read_send" /\ thr[u].nr \in Fans /\ transport = "i2c" /\ thr[u] \in Locals
    BY <1>2 DEF ReadSend, ReadInv
  <2>2. Answer(u) \in Replies
    BY <2>1 DEF Answer, Replies, Locals
  <2>3. /\ Others(u) /\ Kept(u) /\ reply' \in Replies
        /\ \/ thr'[u].pc = "read_recv" /\ reply' = Answer(u)
           \/ thr'[u].pc \in {"read_send", "read_done"}
    <3>1. CASE reply' = Answer(u) /\ Goto(u, "read_recv")
      BY <2>1, <2>2, <3>1, GotoFacts
    <3>2. CASE reply' \in {reply, Answer(u)} /\ thr' = Attempted(u, FALSE, "read_send", "read_done")
      BY <2>1, <2>2, <3>2, AttemptedFacts
    <3> QED BY <1>2, <3>1, <3>2 DEF ReadSend, Answer
  <2>4. UNCHANGED <<transport, num_fans, lock, pwm, mcu, nattr, queued, sysfs, timer, early,
                    lost>>
    BY <1>2 DEF ReadSend, fanData, history
  <2>5. \/ reply'.cmd = thr[u].cmd /\ reply'.nr = thr[u].nr /\ reply'.val = mcu[thr[u].nr]
        \/ thr'[u].pc # "read_recv"
    BY <2>3 DEF Answer
  <2>6. FanTypes' /\ FanFlags'
    BY <2>1, <2>2, <2>3, <2>4, <2>5 DEF Others, Replies, Cmds
  <2>7. PcInv' /\ PhaseInv' /\ ReadyInv'
    BY <2>1, <2>2, <2>3, <2>4, <2>5 DEF Others, PcInv, PhaseInv, ReadyInv, FilesExist
  <2>8. OwnerInv' /\ ExcludeInv'
    BY <2>1, <2>2, <2>3, <2>4, <2>5 DEF Others, PcInv, OwnerInv, ExcludeInv, ReadyInv, PhaseInv,
           InsideMcu, InsideBuf
  <2>9. WriteInv'
    BY <2>1, <2>2, <2>3, <2>4, <2>5 DEF Others, Kept, PcInv, WriteInv, ExcludeInv, OwnerInv,
           PhaseInv, InsideMcu, InsideBuf, BeforeTimer
  <2>10. ReadInv' /\ ReadIsOwnAndFresh'
    BY <2>1, <2>2, <2>3, <2>4, <2>5 DEF Others, Kept, Locals, PcInv, ReadInv, ReadIsOwnAndFresh,
           WriteInv, ExcludeInv, OwnerInv, PhaseInv, Current, InsideMcu, InsideBuf
  <2> QED BY <2>6, <2>7, <2>8, <2>9, <2>10
<1>3. CASE ReadRecv(u)
  <2>1. thr[u].pc = "read_recv" /\ transport = "i2c" /\ thr[u].out = NoReply /\ thr[u] \in Locals
    BY <1>3 DEF ReadRecv, ReadInv
  <2>2. /\ Others(u) /\ thr'[u].cmd = thr[u].cmd /\ thr'[u].nr = thr[u].nr
        /\ thr'[u].since = thr[u].since
        /\ \/ thr'[u].pc = "read_done" /\ thr'[u].out = reply /\ reply # NoReply
           \/ thr'[u].pc \in {"read_send", "read_done"} /\ thr'[u].out = NoReply
    <3>1. CASE reply # NoReply /\ thr' = [thr EXCEPT ![u].pc = "read_done", ![u].out = reply]
      BY <2>1, <3>1 DEF Others, Locals
    <3>2. CASE thr' = Attempted(u, FALSE, "read_send", "read_done")
      BY <2>1, <3>2, AttemptedFacts DEF Kept
    <3> QED BY <1>3, <3>1, <3>2 DEF ReadRecv
  <2>3. NoReply \in Replies
    BY DEF NoReply, Replies, Cmds
  <2>4. /\ reply' = NoReply /\ UNCHANGED <<transport, num_fans, lock, pwm, mcu, nattr, queued,
                                           sysfs, timer, early, lost>>
    BY <1>3 DEF ReadRecv, fanData, history
  <2>5. FanTypes' /\ FanFlags'
    BY <2>1, <2>2, <2>3, <2>4 DEF Others, Replies, Cmds
  <2>6. PcInv' /\ PhaseInv' /\ ReadyInv'
    BY <2>1, <2>2, <2>3, <2>4 DEF Others, PcInv, PhaseInv, ReadyInv, FilesExist
  <2>7. OwnerInv' /\ ExcludeInv'
    BY <2>1, <2>2, <2>3, <2>4 DEF Others, PcInv, OwnerInv, ExcludeInv, ReadyInv, PhaseInv,
           InsideMcu, InsideBuf
  <2>8. WriteInv'
    BY <2>1, <2>2, <2>3, <2>4 DEF Others, Kept, PcInv, WriteInv, ExcludeInv, OwnerInv, PhaseInv,
           InsideMcu, InsideBuf, BeforeTimer
  <2>9. ReadInv' /\ ReadIsOwnAndFresh'
    BY <2>1, <2>2, <2>3, <2>4 DEF Others, Kept, Locals, PcInv, ReadInv, ReadIsOwnAndFresh,
           WriteInv, ExcludeInv, OwnerInv, PhaseInv, Current, InsideMcu, InsideBuf
  <2> QED BY <2>5, <2>6, <2>7, <2>8, <2>9
<1>4. CASE ReadBuffer(u)
  <2>1. thr[u].pc = "show_buf" /\ transport = "virt" /\ thr[u].nr \in Fans /\ thr[u] \in Locals
    BY <1>4 DEF ReadBuffer, ReadInv
  <2>2. /\ Others(u) /\ thr'[u].cmd = thr[u].cmd /\ thr'[u].nr = thr[u].nr
        /\ thr'[u].since = thr[u].since
        /\ thr'[u].pc = "read_done" 
        /\ thr'[u].out = [cmd |-> thr[u].cmd, nr |-> thr[u].nr, val |-> pwm[thr[u].nr]]
    BY <1>4, <2>1 DEF ReadBuffer, Others, Locals, Replies, Cmds
  <2>3. /\ lost' = lost /\ early' = (early \/ ~lock["buf"].ready) /\ lock' = lock
        /\ UNCHANGED <<transport, num_fans, pwm, mcu, reply, nattr, queued, sysfs, timer>>
    BY <1>4 DEF ReadBuffer, Momentarily, fanData, device
  <2>4. FanTypes' /\ FanFlags'
    BY <2>1, <2>2, <2>3 DEF Others, Replies, Cmds
  <2>5. PcInv' /\ PhaseInv' /\ ReadyInv'
    BY <2>1, <2>2, <2>3 DEF Others, PcInv, PhaseInv, ReadyInv, FilesExist
  <2>6. OwnerInv' /\ ExcludeInv'
    BY <2>1, <2>2, <2>3 DEF Others, PcInv, OwnerInv, ExcludeInv, ReadyInv, PhaseInv, InsideMcu,
           InsideBuf
  <2>7. WriteInv'
    BY <2>1, <2>2, <2>3 DEF Others, Kept, PcInv, WriteInv, ExcludeInv, OwnerInv, PhaseInv,
           InsideMcu, InsideBuf, BeforeTimer
  <2>8. ReadInv' /\ ReadIsOwnAndFresh'
    BY <2>1, <2>2, <2>3 DEF Others, Kept, Locals, PcInv, ReadInv, ReadIsOwnAndFresh, WriteInv,
           ExcludeInv, OwnerInv, PhaseInv, Current, InsideMcu, InsideBuf
  <2> QED BY <2>4, <2>5, <2>6, <2>7, <2>8
<1>5. CASE ReadDone(u)
  <2>1. thr[u].pc = "read_done"
    BY <1>5 DEF ReadDone
  <2>2. Others(u) /\ thr'[u] = Local /\ thr'[u].pc = "idle"
    BY <1>5, ReturnFacts DEF ReadDone, Local
  <2>3. /\ lock' = [lock EXCEPT !["mcu"].owner = None]
        /\ UNCHANGED <<transport, num_fans, pwm, mcu, reply, nattr, queued, sysfs, timer>>
        /\ UNCHANGED <<early, lost>>
    BY <1>5 DEF ReadDone, Unlock, fanData, device, history
  <2>4. FanTypes' /\ FanFlags'
    BY <2>1, <2>2, <2>3 DEF Others, Replies, Cmds
  <2>5. PcInv' /\ PhaseInv' /\ ReadyInv'
    BY <2>1, <2>2, <2>3 DEF Others, PcInv, PhaseInv, ReadyInv, FilesExist
  <2>6. OwnerInv' /\ ExcludeInv'
    BY <2>1, <2>2, <2>3 DEF Others, PcInv, OwnerInv, ExcludeInv, ReadyInv, PhaseInv, InsideMcu,
           InsideBuf
  <2>7. WriteInv'
    BY <2>1, <2>2, <2>3 DEF Others, Kept, PcInv, WriteInv, ExcludeInv, OwnerInv, PhaseInv,
           InsideMcu, InsideBuf, BeforeTimer
  <2>8. ReadInv' /\ ReadIsOwnAndFresh'
    BY <2>1, <2>2, <2>3 DEF Others, Kept, Locals, PcInv, ReadInv, ReadIsOwnAndFresh, WriteInv,
           ExcludeInv, OwnerInv, PhaseInv, Current, InsideMcu, InsideBuf
  <2> QED BY <2>4, <2>5, <2>6, <2>7, <2>8
<1> QED BY <1>1, <1>2, <1>3, <1>4, <1>5 DEF fan_read

(* The entries of the sysfs files, and the store of set_pwm. *)
LEMMA SysfsKeeps ==
  ASSUME FanInv, NEW u \in Users, NEW f \in Fans,
         show_fan(u, f) \/ show_pwm(u, f) \/ set_pwm(u, f) \/ SetStore(u)
  PROVE  FanInv'
<1> USE FanAssumption DEF FanInv, FanTypes, FanFlags, Threads, Drv, None, Pcs, UserPcs, WorkerPcs,
            DrvPcs, At
<1>1. CASE show_fan(u, f) \/ show_pwm(u, f)
  <2>1. PICK cmd \in Cmds : Show(u, f, cmd)
    BY <1>1 DEF show_fan, show_pwm, Cmds
  <2>2. thr[u].pc = "idle" /\ thr[u] \in Locals /\ sysfs
    BY <2>1 DEF Show, Open
  <2>3. Current(f) \in Nat
    BY DEF Current
  <2>4. /\ Others(u) /\ thr'[u].pc = "show_mcu" /\ thr'[u].nr = f /\ thr'[u].out = NoReply
        /\ thr'[u].since = Current(f)
    <3>1. thr' = [thr EXCEPT ![u] = [Local EXCEPT
                !.pc = "show_mcu", !.cmd = cmd, !.nr = f, !.since = Current(f)]]
      BY <2>1 DEF Show, Current
    <3> QED BY <2>3, <3>1, EntryFacts
  <2>5. /\ UNCHANGED <<lock, early, lost>>
        /\ UNCHANGED <<transport, num_fans, pwm, mcu, reply, nattr, queued, sysfs, timer>>
    BY <2>1 DEF Show, fanData, device, history
  <2>6. FanTypes' /\ FanFlags'
    BY <2>1, <2>2, <2>3, <2>4, <2>5 DEF Others, Replies, Cmds
  <2>7. PcInv' /\ PhaseInv' /\ ReadyInv'
    BY <2>1, <2>2, <2>3, <2>4, <2>5 DEF Others, PcInv, PhaseInv, ReadyInv, FilesExist
  <2>8. OwnerInv' /\ ExcludeInv'
    BY <2>1, <2>2, <2>3, <2>4, <2>5 DEF Others, PcInv, OwnerInv, ExcludeInv, ReadyInv, PhaseInv,
           InsideMcu, InsideBuf
  <2>9. WriteInv'
    BY <2>1, <2>2, <2>3, <2>4, <2>5 DEF Others, Kept, PcInv, WriteInv, ExcludeInv, OwnerInv,
           PhaseInv, InsideMcu, InsideBuf, BeforeTimer
  <2>10. ReadInv' /\ ReadIsOwnAndFresh'
    BY <2>1, <2>2, <2>3, <2>4, <2>5 DEF Others, Kept, Locals, PcInv, ReadInv, ReadIsOwnAndFresh,
           WriteInv, ExcludeInv, OwnerInv, PhaseInv, Current, InsideMcu, InsideBuf
  <2> QED BY <2>6, <2>7, <2>8, <2>9, <2>10
<1>2. CASE set_pwm(u, f)
  <2>1. thr[u].pc = "idle" /\ thr[u] \in Locals /\ sysfs
    BY <1>2 DEF set_pwm, Open
  <2>2. Others(u) /\ thr'[u].pc = "set_buf" /\ thr'[u].nr = f /\ thr'[u].since = 0
    <3>1. NoReply \in Replies /\ f \in Nat
      BY DEF NoReply, Replies, Cmds, Fans
    <3>2. [Local EXCEPT !.pc = "set_buf", !.nr = f] \in Locals
      BY <3>1 DEF Local, Locals, Cmds
    <3> QED BY <1>2, <3>2 DEF set_pwm, Others, Local
  <2>3. /\ UNCHANGED <<lock, early, lost>>
        /\ UNCHANGED <<transport, num_fans, pwm, mcu, reply, nattr, queued, sysfs, timer>>
    BY <1>2 DEF set_pwm, fanData, device, history
  <2>4. FanTypes' /\ FanFlags'
    BY <2>1, <2>2, <2>3 DEF Others, Replies, Cmds
  <2>5. PcInv' /\ PhaseInv' /\ ReadyInv'
    BY <2>1, <2>2, <2>3 DEF Others, PcInv, PhaseInv, ReadyInv, FilesExist
  <2>6. OwnerInv' /\ ExcludeInv'
    BY <2>1, <2>2, <2>3 DEF Others, PcInv, OwnerInv, ExcludeInv, ReadyInv, PhaseInv, InsideMcu,
           InsideBuf
  <2>7. WriteInv'
    BY <2>1, <2>2, <2>3 DEF Others, Kept, PcInv, WriteInv, ExcludeInv, OwnerInv, PhaseInv,
           InsideMcu, InsideBuf, BeforeTimer
  <2>8. ReadInv' /\ ReadIsOwnAndFresh'
    BY <2>1, <2>2, <2>3 DEF Others, Kept, Locals, PcInv, ReadInv, ReadIsOwnAndFresh, WriteInv,
           ExcludeInv, OwnerInv, PhaseInv, Current, InsideMcu, InsideBuf
  <2> QED BY <2>4, <2>5, <2>6, <2>7, <2>8
<1>3. CASE SetStore(u)
  <2>1. thr[u].pc = "set_buf" /\ thr[u] \in Locals /\ thr[u].nr \in Fans
    BY <1>3 DEF SetStore, ReadInv
  <2>2. Others(u) /\ thr'[u].pc = "idle"
    BY <1>3, ReturnFacts DEF SetStore, Local
  <2>3. /\ pwm' \in [Fans -> Nat] /\ \A g \in Fans : pwm'[g] >= pwm[g]
        /\ lock["buf"].owner = None /\ lock' = lock
        /\ early' = (early \/ ~lock["buf"].ready) /\ lost' = lost
        /\ UNCHANGED <<transport, num_fans, mcu, reply, nattr, queued, sysfs, timer>>
    BY <1>3, <2>1 DEF SetStore, Momentarily, device
  <2>4. FanTypes' /\ FanFlags'
    BY <2>1, <2>2, <2>3 DEF Others, Replies, Cmds
  <2>5. PcInv' /\ PhaseInv' /\ ReadyInv'
    BY <2>1, <2>2, <2>3 DEF Others, PcInv, PhaseInv, ReadyInv, FilesExist
  <2>6. OwnerInv' /\ ExcludeInv'
    BY <2>1, <2>2, <2>3 DEF Others, PcInv, OwnerInv, ExcludeInv, ReadyInv, PhaseInv, InsideMcu,
           InsideBuf
  <2>7. WriteInv'
    BY <2>1, <2>2, <2>3 DEF Others, Kept, PcInv, WriteInv, ExcludeInv, OwnerInv, PhaseInv,
           InsideMcu, InsideBuf, BeforeTimer
  <2>8. ReadInv' /\ ReadIsOwnAndFresh'
    BY <2>1, <2>2, <2>3 DEF Others, Kept, Locals, PcInv, ReadInv, ReadIsOwnAndFresh, WriteInv,
           ExcludeInv, OwnerInv, PhaseInv, Current, InsideMcu, InsideBuf
  <2> QED BY <2>4, <2>5, <2>6, <2>7, <2>8
<1> QED BY <1>1, <1>2, <1>3

(* The work item and fan_write. *)
LEMMA WorkKeeps ==
  ASSUME FanInv, NEW w \in Workers, fan_update_pwm_work_callback(w)
  PROVE  FanInv'
<1> USE FanAssumption DEF FanInv, FanTypes, FanFlags, Threads, Drv, None, Pcs, UserPcs, WorkerPcs,
            DrvPcs, At
<1>1. CASE WorkStart(w)
  <2>1. thr[w].pc = "idle" /\ queued > 0
    BY <1>1 DEF WorkStart
  <2>2. Others(w) /\ thr'[w].pc = "work_buf"
    BY <1>1, GotoFacts DEF WorkStart
  <2>3. queued' \in Nat /\ (queued' > 0 => queued > 0)
    BY <1>1 DEF WorkStart
  <2>4. /\ UNCHANGED <<lock, early, lost>>
        /\ UNCHANGED <<transport, num_fans, pwm, mcu, reply, nattr, sysfs, timer>>
    BY <1>1 DEF WorkStart, device, history
  <2>5. FanTypes' /\ FanFlags'
    BY <2>1, <2>2, <2>3, <2>4 DEF Others, Replies, Cmds
  <2>6. PcInv' /\ PhaseInv' /\ ReadyInv'
    BY <2>1, <2>2, <2>3, <2>4 DEF Others, PcInv, PhaseInv, ReadyInv, FilesExist
  <2>7. OwnerInv' /\ ExcludeInv'
    BY <2>1, <2>2, <2>3, <2>4 DEF Others, PcInv, OwnerInv, ExcludeInv, ReadyInv, PhaseInv,
           InsideMcu, InsideBuf
  <2>8. WriteInv'
    BY <2>1, <2>2, <2>3, <2>4 DEF Others, Kept, PcInv, WriteInv, ExcludeInv, OwnerInv, PhaseInv,
           InsideMcu, InsideBuf, BeforeTimer
  <2>9. ReadInv' /\ ReadIsOwnAndFresh'
    BY <2>1, <2>2, <2>3, <2>4 DEF Others, Kept, Locals, PcInv, ReadInv, ReadIsOwnAndFresh,
           WriteInv, ExcludeInv, OwnerInv, PhaseInv, Current, InsideMcu, InsideBuf
  <2> QED BY <2>5, <2>6, <2>7, <2>8, <2>9
<1>2. CASE WorkLock(w)
  <2>1. thr[w].pc = "work_buf" /\ lock["buf"].owner = None
    BY <1>2 DEF WorkLock
  <2>2. /\ Others(w) /\ thr'[w] \in Locals
        /\ \/ /\ thr'[w].pc = "work_mcu"
              /\ thr'[w].nr \in Fans => thr'[w].val = pwm[thr'[w].nr]
              /\ lock' = [lock EXCEPT !["buf"].owner = w]
           \/ thr'[w].pc = "idle" /\ 
              lock' = [lock EXCEPT !["buf"].owner = w, !["buf"].owner = None]
    BY <1>2, WorkNextFacts DEF WorkLock, Others
  <2>3. /\ UNCHANGED <<early, lost>>
        /\ UNCHANGED <<transport, num_fans, pwm, mcu, reply, nattr, queued, sysfs, timer>>
    BY <1>2 DEF WorkLock, fanData, device, history
  <2>4. FanTypes' /\ FanFlags'
    BY <2>1, <2>2, <2>3 DEF Others, Replies, Cmds
  <2>5. PcInv' /\ PhaseInv' /\ ReadyInv'
    BY <2>1, <2>2, <2>3 DEF Others, PcInv, PhaseInv, ReadyInv, FilesExist
  <2>6. OwnerInv' /\ ExcludeInv'
    BY <2>1, <2>2, <2>3 DEF Others, PcInv, OwnerInv, ExcludeInv, ReadyInv, PhaseInv, InsideMcu,
           InsideBuf
  <2>7. WriteInv'
    BY <2>1, <2>2, <2>3 DEF Others, Kept, PcInv, WriteInv, ExcludeInv, OwnerInv, PhaseInv,
           InsideMcu, InsideBuf, BeforeTimer
  <2>8. ReadInv' /\ ReadIsOwnAndFresh'
    BY <2>1, <2>2, <2>3 DEF Others, Kept, Locals, PcInv, ReadInv, ReadIsOwnAndFresh, WriteInv,
           ExcludeInv, OwnerInv, PhaseInv, Current, InsideMcu, InsideBuf
  <2> QED BY <2>4, <2>5, <2>6, <2>7, <2>8
<1>3. CASE WriteLock(w)
  <2>1. thr[w].pc = "work_mcu" /\ thr[w] \in Locals
    BY <1>3 DEF WriteLock
  <2>2. Others(w) /\ Kept(w) /\ thr'[w].pc = "write_send"
    BY <1>3, GotoFacts DEF WriteLock
  <2>3. /\ lock["mcu"].owner = None /\ lock' = [lock EXCEPT !["mcu"].owner = w]
        /\ early' = (early \/ ~lock["mcu"].ready) /\ lost' = lost
        /\ UNCHANGED <<transport, num_fans, pwm, mcu, reply, nattr, queued, sysfs, timer>>
    BY <1>3 DEF WriteLock, Lock, fanData, device
  <2>4. FanTypes' /\ FanFlags'
    BY <2>1, <2>2, <2>3 DEF Others, Replies, Cmds
  <2>5. PcInv' /\ PhaseInv' /\ ReadyInv'
    BY <2>1, <2>2, <2>3 DEF Others, PcInv, PhaseInv, ReadyInv, FilesExist
  <2>6. OwnerInv' /\ ExcludeInv'
    BY <2>1, <2>2, <2>3 DEF Others, PcInv, OwnerInv, ExcludeInv, ReadyInv, PhaseInv, InsideMcu,
           InsideBuf
  <2>7. WriteInv'
    BY <2>1, <2>2, <2>3 DEF Others, Kept, PcInv, WriteInv, ExcludeInv, OwnerInv, PhaseInv,
           InsideMcu, InsideBuf, BeforeTimer
  <2>8. ReadInv' /\ ReadIsOwnAndFresh'
    BY <2>1, <2>2, <2>3 DEF Others, Kept, Locals, PcInv, ReadInv, ReadIsOwnAndFresh, WriteInv,
           ExcludeInv, OwnerInv, PhaseInv, Current, InsideMcu, InsideBuf
  <2> QED BY <2>4, <2>5, <2>6, <2>7, <2>8
<1>4. CASE WriteSend(w)
  <2>1. thr[w].pc = "write_send" /\ thr[w] \in Locals
    BY <1>4 DEF WriteSend
  <2>2. Others(w) /\ Kept(w) /\ thr'[w].pc \in {"write_send", "write_done"}
    BY <1>4, AttemptedFacts DEF WriteSend
  <2>3. /\ mcu' \in [Fans -> Nat]
        /\ \A f \in Fans : mcu'[f] = mcu[f] \/ (f = thr[w].nr /\ mcu'[f] = thr[w].val)
    BY <1>4, <2>1 DEF WriteSend, device, Locals
  <2>4. /\ UNCHANGED <<lock, early, lost>>
        /\ UNCHANGED <<transport, num_fans, pwm, reply, nattr, queued, sysfs, timer>>
    BY <1>4 DEF WriteSend, fanData, device, history
  <2>5. FanTypes' /\ FanFlags'
    BY <2>1, <2>2, <2>3, <2>4 DEF Others, Replies, Cmds
  <2>6. PcInv' /\ PhaseInv' /\ ReadyInv'
    BY <2>1, <2>2, <2>3, <2>4 DEF Others, PcInv, PhaseInv, ReadyInv, FilesExist
  <2>7. OwnerInv' /\ ExcludeInv'
    BY <2>1, <2>2, <2>3, <2>4 DEF Others, PcInv, OwnerInv, ExcludeInv, ReadyInv, PhaseInv,
           InsideMcu, InsideBuf
  <2>8. WriteInv'
    BY <2>1, <2>2, <2>3, <2>4 DEF Others, Kept, PcInv, WriteInv, ExcludeInv, OwnerInv, PhaseInv,
           InsideMcu, InsideBuf, BeforeTimer
  <2>9. ReadInv' /\ ReadIsOwnAndFresh'
    BY <2>1, <2>2, <2>3, <2>4 DEF Others, Kept, Locals, PcInv, ReadInv, ReadIsOwnAndFresh,
           WriteInv, ExcludeInv, OwnerInv, PhaseInv, Current, InsideMcu, InsideBuf
  <2> QED BY <2>5, <2>6, <2>7, <2>8, <2>9
<1>5. CASE WriteDone(w)
  <2>1. thr[w].pc = "write_done" /\ thr[w] \in Locals
    BY <1>5 DEF WriteDone
  <2>2. thr[w].nr + 1 \in Nat
    BY <2>1 DEF Locals
  <2>3. /\ Others(w) /\ thr'[w] \in Locals
        /\ \/ /\ thr'[w].pc = "work_mcu"
              /\ thr'[w].nr \in Fans => thr'[w].val = pwm[thr'[w].nr]
              /\ lock' = [lock EXCEPT !["mcu"].owner = None]
           \/ thr'[w].pc = "idle" /\ 
              lock' = [lock EXCEPT !["mcu"].owner = None, !["buf"].owner = None]
    BY <1>5, <2>2, WorkNextFacts DEF WriteDone, Others
  <2>4. /\ UNCHANGED <<early, lost>>
        /\ UNCHANGED <<transport, num_fans, pwm, mcu, reply, nattr, queued, sysfs, timer>>
    BY <1>5 DEF WriteDone, fanData, device, history
  <2>5. FanTypes' /\ FanFlags'
    BY <2>1, <2>2, <2>3, <2>4 DEF Others, Replies, Cmds
  <2>6. PcInv' /\ PhaseInv' /\ ReadyInv'
    BY <2>1, <2>2, <2>3, <2>4 DEF Others, PcInv, PhaseInv, ReadyInv, FilesExist
  <2>7. OwnerInv' /\ ExcludeInv'
    BY <2>1, <2>2, <2>3, <2>4 DEF Others, PcInv, OwnerInv, ExcludeInv, ReadyInv, PhaseInv,
           InsideMcu, InsideBuf
  <2>8. WriteInv'
    BY <2>1, <2>2, <2>3, <2>4 DEF Others, Kept, PcInv, WriteInv, ExcludeInv, OwnerInv, PhaseInv,
           InsideMcu, InsideBuf, BeforeTimer
  <2>9. ReadInv' /\ ReadIsOwnAndFresh'
    BY <2>1, <2>2, <2>3, <2>4 DEF Others, Kept, Locals, PcInv, ReadInv, ReadIsOwnAndFresh,
           WriteInv, ExcludeInv, OwnerInv, PhaseInv, Current, InsideMcu, InsideBuf
  <2> QED BY <2>5, <2>6, <2>7, <2>8, <2>9
<1> QED BY <1>1, <1>2, <1>3, <1>4, <1>5 DEF fan_update_pwm_work_callback, fan_write

(* fan_probe and fan_init. *)
LEMMA ProbeKeeps ==
  ASSUME FanInv, fan_probe
  PROVE  FanInv'
<1> USE FanAssumption DEF FanInv, FanTypes, FanFlags, Threads, Drv, None, Pcs, UserPcs, WorkerPcs,
            DrvPcs, At
<1>1. CASE ProbeCheck
  <2>1. thr[Drv].pc = "idle"
    BY <1>1 DEF ProbeCheck
  <2>2. Others(Drv) /\ thr'[Drv].pc \in {"gone", "alloc"}
    BY <1>1, GotoFacts DEF ProbeCheck
  <2>3. /\ UNCHANGED <<lock, early, lost>>
        /\ UNCHANGED <<transport, num_fans, pwm, mcu, reply, nattr, queued, sysfs, timer>>
    BY <1>1 DEF ProbeCheck, fanData, device, history
  <2>4. FanTypes' /\ FanFlags'
    BY <2>1, <2>2, <2>3 DEF Others, Replies, Cmds
  <2>5. PcInv' /\ PhaseInv' /\ ReadyInv'
    BY <2>1, <2>2, <2>3 DEF Others, PcInv, PhaseInv, ReadyInv, FilesExist
  <2>6. OwnerInv' /\ ExcludeInv'
    BY <2>1, <2>2, <2>3 DEF Others, PcInv, OwnerInv, ExcludeInv, ReadyInv, PhaseInv, InsideMcu,
           InsideBuf
  <2>7. WriteInv'
    BY <2>1, <2>2, <2>3 DEF Others, Kept, PcInv, WriteInv, ExcludeInv, OwnerInv, PhaseInv,
           InsideMcu, InsideBuf, BeforeTimer
  <2>8. ReadInv' /\ ReadIsOwnAndFresh'
    BY <2>1, <2>2, <2>3 DEF Others, Kept, Locals, PcInv, ReadInv, ReadIsOwnAndFresh, WriteInv,
           ExcludeInv, OwnerInv, PhaseInv, Current, InsideMcu, InsideBuf
  <2> QED BY <2>4, <2>5, <2>6, <2>7, <2>8
<1>2. CASE ProbeAlloc
  <2>1. thr[Drv].pc = "alloc"
    BY <1>2 DEF ProbeAlloc
  <2>2. Others(Drv) /\ thr'[Drv].pc \in {"gone", "attrs"}
    BY <1>2, GotoFacts DEF ProbeAlloc
  <2>3. /\ UNCHANGED <<lock, early, lost>>
        /\ UNCHANGED <<transport, num_fans, pwm, mcu, reply, nattr, queued, sysfs, timer>>
    BY <1>2 DEF ProbeAlloc, fanData, device, history
  <2>4. FanTypes' /\ FanFlags'
    BY <2>1, <2>2, <2>3 DEF Others, Replies, Cmds
  <2>5. PcInv' /\ PhaseInv' /\ ReadyInv'
    BY <2>1, <2>2, <2>3 DEF Others, PcInv, PhaseInv, ReadyInv, FilesExist
  <2>6. OwnerInv' /\ ExcludeInv'
    BY <2>1, <2>2, <2>3 DEF Others, PcInv, OwnerInv, ExcludeInv, ReadyInv, PhaseInv, InsideMcu,
           InsideBuf
  <2>7. WriteInv'
    BY <2>1, <2>2, <2>3 DEF Others, Kept, PcInv, WriteInv, ExcludeInv, OwnerInv, PhaseInv,
           InsideMcu, InsideBuf, BeforeTimer
  <2>8. ReadInv' /\ ReadIsOwnAndFresh'
    BY <2>1, <2>2, <2>3 DEF Others, Kept, Locals, PcInv, ReadInv, ReadIsOwnAndFresh, WriteInv,
           ExcludeInv, OwnerInv, PhaseInv, Current, InsideMcu, InsideBuf
  <2> QED BY <2>4, <2>5, <2>6, <2>7, <2>8
<1>3. CASE ProbeAttrs
  <2>1. thr[Drv].pc = "attrs"
    BY <1>3 DEF ProbeAttrs
  <2>2. Others(Drv) /\ thr'[Drv].pc \in {"attrs", "gone"}
    BY <1>3, GotoFacts DEF ProbeAttrs, Others
  <2>3. nattr' \in Nat
    BY <1>3 DEF ProbeAttrs
  <2>4. /\ UNCHANGED <<lock, early, lost>>
        /\ UNCHANGED <<transport, num_fans, pwm, mcu, reply, queued, sysfs, timer>>
    BY <1>3 DEF ProbeAttrs, device, history
  <2>5. FanTypes' /\ FanFlags'
    BY <2>1, <2>2, <2>3, <2>4 DEF Others, Replies, Cmds
  <2>6. PcInv' /\ PhaseInv' /\ ReadyInv'
    BY <2>1, <2>2, <2>3, <2>4 DEF Others, PcInv, PhaseInv, ReadyInv, FilesExist
  <2>7. OwnerInv' /\ ExcludeInv'
    BY <2>1, <2>2, <2>3, <2>4 DEF Others, PcInv, OwnerInv, ExcludeInv, ReadyInv, PhaseInv,
           InsideMcu, InsideBuf
  <2>8. WriteInv'
    BY <2>1, <2>2, <2>3, <2>4 DEF Others, Kept, PcInv, WriteInv, ExcludeInv, OwnerInv, PhaseInv,
           InsideMcu, InsideBuf, BeforeTimer
  <2>9. ReadInv' /\ ReadIsOwnAndFresh'
    BY <2>1, <2>2, <2>3, <2>4 DEF Others, Kept, Locals, PcInv, ReadInv, ReadIsOwnAndFresh,
           WriteInv, ExcludeInv, OwnerInv, PhaseInv, Current, InsideMcu, InsideBuf
  <2> QED BY <2>5, <2>6, <2>7, <2>8, <2>9
<1>4. CASE ProbeRegister
  <2>1. thr[Drv].pc = "attrs"
    BY <1>4 DEF ProbeRegister
  <2>2. Others(Drv) /\ thr'[Drv].pc \in {"init_mcu", "gone"}
    BY <1>4, GotoFacts DEF ProbeRegister
  <2>3. sysfs' => thr'[Drv].pc \in FilesExist
    BY <1>4, <2>1, <2>2, GotoFacts DEF ProbeRegister, PhaseInv, FilesExist
  <2>4. /\ UNCHANGED <<lock, early, lost>>
        /\ UNCHANGED <<transport, num_fans, pwm, mcu, reply, nattr, queued, timer>>
    BY <1>4 DEF ProbeRegister, fanData, device, history
  <2>5. FanTypes' /\ FanFlags'
    BY <2>1, <2>2, <2>3, <2>4 DEF Others, Replies, Cmds
  <2>6. PcInv' /\ PhaseInv' /\ ReadyInv'
    BY <2>1, <2>2, <2>3, <2>4 DEF Others, PcInv, PhaseInv, ReadyInv, FilesExist
  <2>7. OwnerInv' /\ ExcludeInv'
    BY <2>1, <2>2, <2>3, <2>4 DEF Others, PcInv, OwnerInv, ExcludeInv, ReadyInv, PhaseInv,
           InsideMcu, InsideBuf
  <2>8. WriteInv'
    BY <2>1, <2>2, <2>3, <2>4 DEF Others, Kept, PcInv, WriteInv, ExcludeInv, OwnerInv, PhaseInv,
           InsideMcu, InsideBuf, BeforeTimer
  <2>9. ReadInv' /\ ReadIsOwnAndFresh'
    BY <2>1, <2>2, <2>3, <2>4 DEF Others, Kept, Locals, PcInv, ReadInv, ReadIsOwnAndFresh,
           WriteInv, ExcludeInv, OwnerInv, PhaseInv, Current, InsideMcu, InsideBuf
  <2> QED BY <2>5, <2>6, <2>7, <2>8, <2>9
<1>5. CASE InitMcuLock
  <2>1. thr[Drv].pc = "init_mcu"
    BY <1>5 DEF InitMcuLock
  <2>2. Others(Drv) /\ thr'[Drv].pc = "init_bufl"
    BY <1>5, GotoFacts DEF InitMcuLock
  <2>3. lock' = [lock EXCEPT !["mcu"] = [ready |-> TRUE, owner |-> None]]
    BY <1>5 DEF InitMcuLock, mutex_init
  <2>4. /\ UNCHANGED <<early, lost>>
        /\ UNCHANGED <<transport, num_fans, pwm, mcu, reply, nattr, queued, sysfs, timer>>
    BY <1>5 DEF InitMcuLock, fanData, device, history
  <2>5. FanTypes' /\ FanFlags'
    BY <2>1, <2>2, <2>3, <2>4 DEF Others, Replies, Cmds
  <2>6. PcInv' /\ PhaseInv' /\ ReadyInv'
    BY <2>1, <2>2, <2>3, <2>4 DEF Others, PcInv, PhaseInv, ReadyInv, FilesExist
  <2>7. OwnerInv' /\ ExcludeInv'
    BY <2>1, <2>2, <2>3, <2>4 DEF Others, PcInv, OwnerInv, ExcludeInv, ReadyInv, PhaseInv,
           InsideMcu, InsideBuf
  <2>8. WriteInv'
    BY <2>1, <2>2, <2>3, <2>4 DEF Others, Kept, PcInv, WriteInv, ExcludeInv, OwnerInv, PhaseInv,
           InsideMcu, InsideBuf, BeforeTimer
  <2>9. ReadInv' /\ ReadIsOwnAndFresh'
    BY <2>1, <2>2, <2>3, <2>4 DEF Others, Kept, Locals, PcInv, ReadInv, ReadIsOwnAndFresh,
           WriteInv, ExcludeInv, OwnerInv, PhaseInv, Current, InsideMcu, InsideBuf
  <2> QED BY <2>5, <2>6, <2>7, <2>8, <2>9
<1>6. CASE InitBufLock
  <2>1. thr[Drv].pc = "init_bufl"
    BY <1>6 DEF InitBufLock
  <2>2. Others(Drv) /\ thr'[Drv].pc \in {"init_buf", "release"}
    BY <1>6, GotoFacts DEF InitBufLock
  <2>3. lock' = [lock EXCEPT !["buf"] = [ready |-> TRUE, owner |-> None]]
    BY <1>6 DEF InitBufLock, mutex_init
  <2>4. /\ UNCHANGED <<early, lost>>
        /\ UNCHANGED <<transport, num_fans, pwm, mcu, reply, nattr, queued, sysfs, timer>>
    BY <1>6 DEF InitBufLock, fanData, device, history
  <2>5. FanTypes' /\ FanFlags'
    BY <2>1, <2>2, <2>3, <2>4 DEF Others, Replies, Cmds
  <2>6. PcInv' /\ PhaseInv' /\ ReadyInv'
    BY <2>1, <2>2, <2>3, <2>4 DEF Others, PcInv, PhaseInv, ReadyInv, FilesExist
  <2>7. OwnerInv' /\ ExcludeInv'
    BY <2>1, <2>2, <2>3, <2>4 DEF Others, PcInv, OwnerInv, ExcludeInv, ReadyInv, PhaseInv,
           InsideMcu, InsideBuf
  <2>8. WriteInv'
    BY <2>1, <2>2, <2>3, <2>4 DEF Others, Kept, PcInv, WriteInv, ExcludeInv, OwnerInv, PhaseInv,
           InsideMcu, InsideBuf, BeforeTimer
  <2>9. ReadInv' /\ ReadIsOwnAndFresh'
    BY <2>1, <2>2, <2>3, <2>4 DEF Others, Kept, Locals, PcInv, ReadInv, ReadIsOwnAndFresh,
           WriteInv, ExcludeInv, OwnerInv, PhaseInv, Current, InsideMcu, InsideBuf
  <2> QED BY <2>5, <2>6, <2>7, <2>8, <2>9
<1>7. CASE fan_pwm_init
  <2>1. thr[Drv].pc = "init_buf"
    BY <1>7 DEF fan_pwm_init
  <2>2. Others(Drv) /\ thr'[Drv].pc = "bound"
    BY <1>7, GotoFacts DEF fan_pwm_init
  <2>3. /\ pwm' \in [Fans -> Nat] /\ lost' \in BOOLEAN
        /\ ~lost' => ~lost /\ \A f \in Fans : pwm'[f] = pwm[f]
    BY <1>7 DEF fan_pwm_init
  <2>4. /\ lock["buf"].owner = None /\ UNCHANGED <<lock, early>>
        /\ UNCHANGED <<transport, num_fans, mcu, reply, nattr, queued, sysfs>>
    BY <1>7 DEF fan_pwm_init, device
  <2>5. FanTypes' /\ FanFlags'
    BY <2>1, <2>2, <2>3, <2>4 DEF Others, Replies, Cmds
  <2>6. PcInv' /\ PhaseInv' /\ ReadyInv'
    BY <2>1, <2>2, <2>3, <2>4 DEF Others, PcInv, PhaseInv, ReadyInv, FilesExist
  <2>7. OwnerInv' /\ ExcludeInv'
    BY <2>1, <2>2, <2>3, <2>4 DEF Others, PcInv, OwnerInv, ExcludeInv, ReadyInv, PhaseInv,
           InsideMcu, InsideBuf
  <2>8. WriteInv'
    BY <2>1, <2>2, <2>3, <2>4 DEF Others, Kept, PcInv, WriteInv, ExcludeInv, OwnerInv, PhaseInv,
           InsideMcu, InsideBuf, BeforeTimer
  <2>9. ReadInv' /\ ReadIsOwnAndFresh'
    BY <2>1, <2>2, <2>3, <2>4 DEF Others, Kept, Locals, PcInv, ReadInv, ReadIsOwnAndFresh,
           WriteInv, ExcludeInv, OwnerInv, PhaseInv, Current, InsideMcu, InsideBuf
  <2> QED BY <2>5, <2>6, <2>7, <2>8, <2>9
<1> QED BY <1>1, <1>2, <1>3, <1>4, <1>5, <1>6, <1>7 DEF fan_probe, fan_init

(* fan_remove, and the release of what devm registered. *)
LEMMA RemoveKeeps ==
  ASSUME FanInv, fan_remove \/ Release
  PROVE  FanInv'
<1> USE FanAssumption DEF FanInv, FanTypes, FanFlags, Threads, Drv, None, Pcs, UserPcs, WorkerPcs,
            DrvPcs, At
<1>1. CASE RemoveTimer
  <2>1. thr[Drv].pc = "bound"
    BY <1>1 DEF RemoveTimer
  <2>2. Others(Drv) /\ thr'[Drv].pc = "flush"
    BY <1>1, GotoFacts DEF RemoveTimer
  <2>3. timer' = FALSE
    BY <1>1 DEF RemoveTimer, mutex_init
  <2>4. /\ UNCHANGED <<lock, early, lost>>
        /\ UNCHANGED <<transport, num_fans, pwm, mcu, reply, nattr, queued, sysfs>>
    BY <1>1 DEF RemoveTimer, fanData, device, history
  <2>5. FanTypes' /\ FanFlags'
    BY <2>1, <2>2, <2>3, <2>4 DEF Others, Replies, Cmds
  <2>6. PcInv' /\ PhaseInv' /\ ReadyInv'
    BY <2>1, <2>2, <2>3, <2>4 DEF Others, PcInv, PhaseInv, ReadyInv, FilesExist
  <2>7. OwnerInv' /\ ExcludeInv'
    BY <2>1, <2>2, <2>3, <2>4 DEF Others, PcInv, OwnerInv, ExcludeInv, ReadyInv, PhaseInv,
           InsideMcu, InsideBuf
  <2>8. WriteInv'
    BY <2>1, <2>2, <2>3, <2>4 DEF Others, Kept, PcInv, WriteInv, ExcludeInv, OwnerInv, PhaseInv,
           InsideMcu, InsideBuf, BeforeTimer
  <2>9. ReadInv' /\ ReadIsOwnAndFresh'
    BY <2>1, <2>2, <2>3, <2>4 DEF Others, Kept, Locals, PcInv, ReadInv, ReadIsOwnAndFresh,
           WriteInv, ExcludeInv, OwnerInv, PhaseInv, Current, InsideMcu, InsideBuf
  <2> QED BY <2>5, <2>6, <2>7, <2>8, <2>9
<1>2. CASE RemoveFlush
  <2>1. thr[Drv].pc = "flush"
    BY <1>2 DEF RemoveFlush
  <2>2. Others(Drv) /\ thr'[Drv].pc = "release"
    BY <1>2, GotoFacts DEF RemoveFlush
  <2>3. queued = 0 /\ \A w \in Workers : thr[w].pc = "idle"
    BY <1>2 DEF RemoveFlush, mutex_init
  <2>4. /\ UNCHANGED <<lock, early, lost>>
        /\ UNCHANGED <<transport, num_fans, pwm, mcu, reply, nattr, queued, sysfs, timer>>
    BY <1>2 DEF RemoveFlush, fanData, device, history
  <2>5. FanTypes' /\ FanFlags'
    BY <2>1, <2>2, <2>3, <2>4 DEF Others, Replies, Cmds
  <2>6. PcInv' /\ PhaseInv' /\ ReadyInv'
    BY <2>1, <2>2, <2>3, <2>4 DEF Others, PcInv, PhaseInv, ReadyInv, FilesExist
  <2>7. OwnerInv' /\ ExcludeInv'
    BY <2>1, <2>2, <2>3, <2>4 DEF Others, PcInv, OwnerInv, ExcludeInv, ReadyInv, PhaseInv,
           InsideMcu, InsideBuf
  <2>8. WriteInv'
    BY <2>1, <2>2, <2>3, <2>4 DEF Others, Kept, PcInv, WriteInv, ExcludeInv, OwnerInv, PhaseInv,
           InsideMcu, InsideBuf, BeforeTimer
  <2>9. ReadInv' /\ ReadIsOwnAndFresh'
    BY <2>1, <2>2, <2>3, <2>4 DEF Others, Kept, Locals, PcInv, ReadInv, ReadIsOwnAndFresh,
           WriteInv, ExcludeInv, OwnerInv, PhaseInv, Current, InsideMcu, InsideBuf
  <2> QED BY <2>5, <2>6, <2>7, <2>8, <2>9
<1>3. CASE ReleaseSysfs
  <2>1. thr[Drv].pc = "release"
    BY <1>3 DEF ReleaseSysfs
  <2>2. Others(Drv) /\ thr'[Drv].pc = "drain"
    BY <1>3, GotoFacts DEF ReleaseSysfs
  <2>3. sysfs' = FALSE
    BY <1>3 DEF ReleaseSysfs, mutex_init
  <2>4. /\ UNCHANGED <<lock, early, lost>>
        /\ UNCHANGED <<transport, num_fans, pwm, mcu, reply, nattr, queued, timer>>
    BY <1>3 DEF ReleaseSysfs, fanData, device, history
  <2>5. FanTypes' /\ FanFlags'
    BY <2>1, <2>2, <2>3, <2>4 DEF Others, Replies, Cmds
  <2>6. PcInv' /\ PhaseInv' /\ ReadyInv'
    BY <2>1, <2>2, <2>3, <2>4 DEF Others, PcInv, PhaseInv, ReadyInv, FilesExist
  <2>7. OwnerInv' /\ ExcludeInv'
    BY <2>1, <2>2, <2>3, <2>4 DEF Others, PcInv, OwnerInv, ExcludeInv, ReadyInv, PhaseInv,
           InsideMcu, InsideBuf
  <2>8. WriteInv'
    BY <2>1, <2>2, <2>3, <2>4 DEF Others, Kept, PcInv, WriteInv, ExcludeInv, OwnerInv, PhaseInv,
           InsideMcu, InsideBuf, BeforeTimer
  <2>9. ReadInv' /\ ReadIsOwnAndFresh'
    BY <2>1, <2>2, <2>3, <2>4 DEF Others, Kept, Locals, PcInv, ReadInv, ReadIsOwnAndFresh,
           WriteInv, ExcludeInv, OwnerInv, PhaseInv, Current, InsideMcu, InsideBuf
  <2> QED BY <2>5, <2>6, <2>7, <2>8, <2>9
<1>4. CASE ReleaseMemory
  <2>1. thr[Drv].pc = "drain"
    BY <1>4 DEF ReleaseMemory
  <2>2. Others(Drv) /\ thr'[Drv].pc = "gone"
    BY <1>4, GotoFacts DEF ReleaseMemory
  <2>3. \A u \in Users : thr[u].pc = "idle"
    BY <1>4 DEF ReleaseMemory, mutex_init
  <2>4. /\ UNCHANGED <<lock, early, lost>>
        /\ UNCHANGED <<transport, num_fans, pwm, mcu, reply, nattr, queued, sysfs, timer>>
    BY <1>4 DEF ReleaseMemory, fanData, device, history
  <2>5. FanTypes' /\ FanFlags'
    BY <2>1, <2>2, <2>3, <2>4 DEF Others, Replies, Cmds
  <2>6. PcInv' /\ PhaseInv' /\ ReadyInv'
    BY <2>1, <2>2, <2>3, <2>4 DEF Others, PcInv, PhaseInv, ReadyInv, FilesExist
  <2>7. OwnerInv' /\ ExcludeInv'
    BY <2>1, <2>2, <2>3, <2>4 DEF Others, PcInv, OwnerInv, ExcludeInv, ReadyInv, PhaseInv,
           InsideMcu, InsideBuf
  <2>8. WriteInv'
    BY <2>1, <2>2, <2>3, <2>4 DEF Others, Kept, PcInv, WriteInv, ExcludeInv, OwnerInv, PhaseInv,
           InsideMcu, InsideBuf, BeforeTimer
  <2>9. ReadInv' /\ ReadIsOwnAndFresh'
    BY <2>1, <2>2, <2>3, <2>4 DEF Others, Kept, Locals, PcInv, ReadInv, ReadIsOwnAndFresh,
           WriteInv, ExcludeInv, OwnerInv, PhaseInv, Current, InsideMcu, InsideBuf
  <2> QED BY <2>5, <2>6, <2>7, <2>8, <2>9
<1> QED BY <1>1, <1>2, <1>3, <1>4 DEF fan_remove, Release

(* A write to num_fans, a tick of the timer that finds memory, and a step  *)
(* that changes nothing.                                                   *)
LEMMA OtherKeeps ==
  ASSUME FanInv, SetNumFans \/ TimerQueue \/ UNCHANGED fanVars
  PROVE  FanInv'
<1> USE FanAssumption DEF FanInv, FanTypes, FanFlags, Threads, Drv, None, Pcs, UserPcs, WorkerPcs,
            DrvPcs, At
<1>1. CASE SetNumFans
  <2>1. num_fans' \in Int
    BY <1>1 DEF SetNumFans
  <2>2. /\ UNCHANGED <<thr, lock, early, lost>>
        /\ UNCHANGED <<transport, pwm, mcu, reply, nattr, queued, sysfs, timer>>
    BY <1>1 DEF SetNumFans, fanData, device, history
  <2>3. FanTypes' /\ FanFlags'
    BY <2>1, <2>2 DEF Others, Replies, Cmds
  <2>4. PcInv' /\ PhaseInv' /\ ReadyInv'
    BY <2>1, <2>2 DEF Others, PcInv, PhaseInv, ReadyInv, FilesExist
  <2>5. OwnerInv' /\ ExcludeInv'
    BY <2>1, <2>2 DEF Others, PcInv, OwnerInv, ExcludeInv, ReadyInv, PhaseInv, InsideMcu,
           InsideBuf
  <2>6. WriteInv'
    BY <2>1, <2>2 DEF Others, Kept, PcInv, WriteInv, ExcludeInv, OwnerInv, PhaseInv, InsideMcu,
           InsideBuf, BeforeTimer
  <2>7. ReadInv' /\ ReadIsOwnAndFresh'
    BY <2>1, <2>2 DEF Others, Kept, Locals, PcInv, ReadInv, ReadIsOwnAndFresh, WriteInv,
           ExcludeInv, OwnerInv, PhaseInv, Current, InsideMcu, InsideBuf
  <2> QED BY <2>3, <2>4, <2>5, <2>6, <2>7
<1>2. CASE TimerQueue
  <2>1. timer /\ queued' \in Nat
    BY <1>2 DEF TimerQueue
  <2>2. /\ UNCHANGED <<thr, lock, early, lost>>
        /\ UNCHANGED <<transport, num_fans, pwm, mcu, reply, nattr, sysfs, timer>>
    BY <1>2 DEF TimerQueue, fanData, device, history
  <2>3. FanTypes' /\ FanFlags'
    BY <2>1, <2>2 DEF Others, Replies, Cmds
  <2>4. PcInv' /\ PhaseInv' /\ ReadyInv'
    BY <2>1, <2>2 DEF Others, PcInv, PhaseInv, ReadyInv, FilesExist
  <2>5. OwnerInv' /\ ExcludeInv'
    BY <2>1, <2>2 DEF Others, PcInv, OwnerInv, ExcludeInv, ReadyInv, PhaseInv, InsideMcu,
           InsideBuf
  <2>6. WriteInv'
    BY <2>1, <2>2 DEF Others, Kept, PcInv, WriteInv, ExcludeInv, OwnerInv, PhaseInv, InsideMcu,
           InsideBuf, BeforeTimer
  <2>7. ReadInv' /\ ReadIsOwnAndFresh'
    BY <2>1, <2>2 DEF Others, Kept, Locals, PcInv, ReadInv, ReadIsOwnAndFresh, WriteInv,
           ExcludeInv, OwnerInv, PhaseInv, Current, InsideMcu, InsideBuf
  <2> QED BY <2>3, <2>4, <2>5, <2>6, <2>7
<1>3. CASE UNCHANGED fanVars
  <2>1. /\ UNCHANGED <<thr, lock, early, lost>>
        /\ UNCHANGED <<transport, num_fans, pwm, mcu, reply, nattr, queued, sysfs, timer>>
    BY <1>3 DEF fanVars, fanData, device, history
  <2>2. FanTypes' /\ FanFlags'
    BY <2>1 DEF Others, Replies, Cmds
  <2>3. PcInv' /\ PhaseInv' /\ ReadyInv'
    BY <2>1 DEF Others, PcInv, PhaseInv, ReadyInv, FilesExist
  <2>4. OwnerInv' /\ ExcludeInv'
    BY <2>1 DEF Others, PcInv, OwnerInv, ExcludeInv, ReadyInv, PhaseInv, InsideMcu, InsideBuf
  <2>5. WriteInv'
    BY <2>1 DEF Others, Kept, PcInv, WriteInv, ExcludeInv, OwnerInv, PhaseInv, InsideMcu,
           InsideBuf, BeforeTimer
  <2>6. ReadInv' /\ ReadIsOwnAndFresh'
    BY <2>1 DEF Others, Kept, Locals, PcInv, ReadInv, ReadIsOwnAndFresh, WriteInv, ExcludeInv,
           OwnerInv, PhaseInv, Current, InsideMcu, InsideBuf
  <2> QED BY <2>2, <2>3, <2>4, <2>5, <2>6
<1> QED BY <1>1, <1>2, <1>3 DEF fanVars

(* An oops: the model's state is reset and nothing goes on. *)
LEMMA PanicKeeps ==
  ASSUME FanInv, Panic
  PROVE  FanInv'
<1> USE FanAssumption DEF FanInv, FanTypes, FanFlags, Threads, Drv, None, Pcs, UserPcs, WorkerPcs,
            DrvPcs
<1>1. /\ NoReply \in Replies /\ Local \in Locals
      /\ Local.pc = "idle" /\ NoPwm \in [Fans -> Nat] /\ \A f \in Fans : NoPwm[f] = 0
  BY DEF NoReply, Replies, Local, Locals, Cmds, NoPwm
<1>2. /\ thr' \in [Threads -> Locals] /\ \A t \in Threads : thr'[t].pc = "idle"
      /\ lock' = NoLocks /\ pwm' = NoPwm /\ mcu' = NoPwm /\ reply' = NoReply
      /\ nattr' = 0 /\ queued' = 0 /\ ~sysfs' /\ ~timer' /\ early' = FALSE /\ lost' = FALSE
      /\ UNCHANGED <<transport, num_fans>>
  BY <1>1 DEF Panic, Idle
<1>3. FanTypes' /\ FanFlags'
  BY <1>1, <1>2 DEF NoLocks
<1>4. PcInv' /\ PhaseInv' /\ ReadyInv' /\ OwnerInv' /\ ExcludeInv'
  BY <1>2 DEF PcInv, PhaseInv, ReadyInv, OwnerInv, ExcludeInv, NoLocks, InsideMcu, InsideBuf
<1>5. WriteInv' /\ ReadInv' /\ ReadIsOwnAndFresh'
  BY <1>1, <1>2 DEF WriteInv, ReadInv, ReadIsOwnAndFresh, InsideBuf, At
<1> QED BY <1>3, <1>4, <1>5

(* The invariant holds in the initial states and is kept by every step. *)
LEMMA FanInvInit == FanInit => FanInv
<1> SUFFICES ASSUME FanInit PROVE FanInv
  OBVIOUS
<1> USE FanAssumption DEF FanInv, FanTypes, FanFlags, Threads, Drv, None, Pcs, UserPcs, WorkerPcs,
            DrvPcs
<1>1. /\ NoReply \in Replies /\ Local \in Locals
      /\ Local.pc = "idle" /\ NoPwm \in [Fans -> Nat] /\ \A f \in Fans : NoPwm[f] = 0
  BY DEF NoReply, Replies, Local, Locals, Cmds, NoPwm
<1>2. /\ thr \in [Threads -> Locals] /\ \A t \in Threads : thr[t].pc = "idle"
      /\ lock = NoLocks /\ pwm = NoPwm /\ mcu = NoPwm /\ reply = NoReply
      /\ nattr = 0 /\ queued = 0 /\ ~sysfs /\ ~timer /\ early = FALSE /\ lost = FALSE
      /\ transport \in {"i2c", "virt"} /\ num_fans \in Int
  BY <1>1 DEF FanInit, Idle
<1>3. FanTypes /\ FanFlags
  BY <1>1, <1>2 DEF NoLocks
<1>4. PcInv /\ PhaseInv /\ ReadyInv /\ OwnerInv /\ ExcludeInv
  BY <1>2 DEF PcInv, PhaseInv, ReadyInv, OwnerInv, ExcludeInv, NoLocks, InsideMcu, InsideBuf
<1>5. WriteInv /\ ReadInv /\ ReadIsOwnAndFresh
  BY <1>1, <1>2 DEF WriteInv, ReadInv, ReadIsOwnAndFresh, InsideBuf, At
<1> QED BY <1>3, <1>4, <1>5

(* Every step of the driver keeps the invariant. *)
LEMMA FanInvNext == FanInv /\ [FanNext]_fanVars => FanInv'
<1> SUFFICES ASSUME FanInv, [FanNext]_fanVars PROVE FanInv'
  OBVIOUS
<1>1. ASSUME NEW u \in Users, InCall(u) PROVE FanInv'
  <2>1. 1 \in Fans
    BY FanAssumption DEF Fans
  <2> QED BY <1>1, <2>1, ReadKeeps, SysfsKeeps DEF InCall
<1>2. ASSUME NEW u \in Users, NEW f \in Fans, show_fan(u, f) \/ show_pwm(u, f) \/ set_pwm(u, f)
      PROVE  FanInv'
  BY <1>2, SysfsKeeps
<1>3. ASSUME NEW w \in Workers, fan_update_pwm_work_callback(w) PROVE FanInv'
  BY <1>3, WorkKeeps
<1>4. ASSUME NEW t \in Threads, MutexOops(t) PROVE FanInv'
  BY <1>4, PanicKeeps DEF MutexOops
<1>5. CASE fan_update_pwm_timer_callback \/ SetNumFans \/ UNCHANGED fanVars
  BY <1>5, OtherKeeps, PanicKeeps DEF fan_update_pwm_timer_callback, TimerOops
<1>6. CASE fan_probe \/ fan_remove \/ Release
  BY <1>6, ProbeKeeps, RemoveKeeps
<1> QED BY <1>1, <1>2, <1>3, <1>4, <1>5, <1>6 DEF FanNext

(* FanInv, with the types, is an invariant of the driver. *)
THEOREM FanInvariant == FanSpec => []FanInv
BY FanInvInit, FanInvNext, PTL DEF FanSpec

-----------------------------------------------------------------------------
(* At most one thread is inside each lock, unless a call took a lock       *)
(* before fan_init initialised it: for any number of users and workers.    *)
THEOREM LocksExcludeHolds == FanSpec => []LocksExclude
<1>1. FanInv => LocksExclude
  <2> SUFFICES ASSUME FanInv, ~early, NEW l \in {"mcu", "buf"}
               PROVE  Cardinality(Inside(l)) <= 1
    BY DEF LocksExclude
  <2>1. Inside(l) = {} \/ Inside(l) = {lock[l].owner}
    BY DEF FanInv, ExcludeInv, Inside, InsideMcu, InsideBuf
  <2>2. Cardinality({}) = 0 /\ Cardinality({lock[l].owner}) = 1
    BY FS_EmptySet, FS_Singleton
  <2> QED BY <2>1, <2>2
<1> QED BY <1>1, FanInvariant, PTL

(* Two threads wait for each other only as a read that holds mcu_lock and  *)
(* wants pwm_buf_lock and a work item that holds pwm_buf_lock and wants    *)
(* mcu_lock, and only with the virtual transport.                          *)
THEOREM DeadlockOnlyReadVsWorkHolds == FanSpec => []DeadlockOnlyReadVsWork
<1>1. FanInv => DeadlockOnlyReadVsWork
  <2> SUFFICES ASSUME FanInv, NEW t \in Threads, NEW u \in Threads, WaitsFor(t, u), WaitsFor(u, t)
               PROVE  transport = "virt" /\ {thr[t].pc, thr[u].pc} = {"show_buf", "work_mcu"}
    BY DEF DeadlockOnlyReadVsWork
  <2>1. t # None /\ u # None
    BY FanAssumption DEF Threads, Drv, None
  <2>2. \/ Wants(t) = "mcu" /\ thr[u].pc \in InsideMcu
        \/ Wants(t) = "buf" /\ thr[u].pc \in InsideBuf
    BY <2>1 DEF FanInv, OwnerInv, WaitsFor, Wants, None
  <2>3. \/ Wants(u) = "mcu" /\ thr[t].pc \in InsideMcu
        \/ Wants(u) = "buf" /\ thr[t].pc \in InsideBuf
    BY <2>1 DEF FanInv, OwnerInv, WaitsFor, Wants, None
  <2>4. \/ thr[t].pc = "show_buf" /\ thr[u].pc = "work_mcu"
        \/ thr[t].pc = "work_mcu" /\ thr[u].pc = "show_buf"
    BY <2>2, <2>3 DEF Wants, None, InsideMcu, InsideBuf
  <2>5. \A x \in Threads : thr[x].pc = "show_buf" => transport = "virt"
    BY DEF FanInv, PcInv, ReadInv, Threads, WorkerPcs, DrvPcs
  <2> QED BY <2>4, <2>5
<1> QED BY <1>1, FanInvariant, PTL

(* What a file shows is about its own fan and no older than the call. *)
THEOREM ReadIsOwnAndFreshHolds == FanSpec => []ReadIsOwnAndFresh
<1>1. FanInv => ReadIsOwnAndFresh
  BY DEF FanInv
<1> QED BY <1>1, FanInvariant, PTL

(* After fan_remove has flushed the queue there is no timer, no work item  *)
(* and no worker in one; when the memory is freed no user is in a call.    *)
THEOREM NothingAfterRemoveHolds == FanSpec => []NothingAfterRemove
<1>1. FanInv => NothingAfterRemove
  BY DEF FanInv, FanTypes, PhaseInv, NothingAfterRemove, At, FilesExist
<1> QED BY <1>1, FanInvariant, PTL

(* No step takes the controller back to an older PWM. *)
THEOREM McuNeverGoesBackHolds == FanSpec => McuNeverGoesBack
<1>1. FanInv /\ [FanNext]_fanVars =>
        [\A f \in Fans : ~early /\ ~oops' => mcu'[f] >= mcu[f]]_fanVars
  <2> SUFFICES ASSUME FanInv, FanNext, NEW f \in Fans, ~early, ~oops'
               PROVE  mcu'[f] >= mcu[f]
    OBVIOUS
  <2>1. mcu[f] \in Nat
    BY DEF FanInv, FanTypes
  <2>2. ASSUME NEW w \in Workers, WriteSend(w) PROVE mcu'[f] >= mcu[f]
    <3>1. thr[w].pc = "write_send" /\ w \in Threads
      BY <2>2 DEF WriteSend, At, Threads
    <3>2. mcu'[f] = mcu[f] \/ (f = thr[w].nr /\ mcu'[f] = thr[w].val)
      BY <2>2 DEF WriteSend, device, FanInv, FanTypes
    <3>3. f = thr[w].nr => thr[w].val >= mcu[f]
      BY <3>1 DEF FanInv, FanTypes, WriteInv, InsideBuf
    <3> QED BY <2>1, <3>2, <3>3
  <2>3. ~Panic
    BY DEF Panic
  <2>4. (\E w \in Workers : WriteSend(w)) \/ mcu' = mcu
    BY <2>3 DEF FanNext, InCall, fan_read, ReadLock, ReadSend, ReadRecv, ReadBuffer, ReadDone,
         SetStore, show_fan, show_pwm, Show, set_pwm, fan_update_pwm_work_callback, WorkStart,
         WorkLock, fan_write, WriteLock, WriteDone, MutexOops, fan_update_pwm_timer_callback,
         TimerQueue, TimerOops, SetNumFans, fan_probe, ProbeCheck, ProbeAlloc, ProbeAttrs,
         ProbeRegister, fan_init, InitMcuLock, InitBufLock, fan_pwm_init, fan_remove, RemoveTimer,
         RemoveFlush, Release, ReleaseSysfs, ReleaseMemory, device
  <2> QED BY <2>1, <2>2, <2>4
<1> QED BY <1>1, FanInvariant, PTL DEF FanSpec, McuNeverGoesBack
=============================================================================
