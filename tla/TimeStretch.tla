---------------------------- MODULE TimeStretch ----------------------------
(***************************************************************************)
(* The timestretch kernel module (src/timestretch/module/timestretch.c),   *)
(* its user library (src/timestretch/lib/timestretchlib.c) and the way     *)
(* tinySTM uses them (stm_init_thread, stm_start, stm_commit,              *)
(* stm_exit_thread with EA_EXTRATICK): while a registered thread runs on a *)
(* CPU, the CPU's timer fires SCALE times as often, and the interrupts in  *)
(* between may divert the thread into its revalidation callback.           *)
(*                                                                         *)
(* Sections with local_irq_save, and the handler of the timer interrupt,   *)
(* are one step of their CPU.  The kernel is not preemptible, so the       *)
(* module's code keeps its CPU from one blocking call to the next, but     *)
(* interrupts (a timer tick, the call of smp_call_function) may fall       *)
(* between two steps.  NoTask stands for every thread that never registers *)
(* and may run on several CPUs at once.  The tasks belong to the one       *)
(* process that has the device open.                                       *)
(***************************************************************************)
EXTENDS Naturals, Sequences, FiniteSetsExt

CONSTANTS
  Task,        \* threads that run transactions
  NoTask,      \* any other thread
  CPU,
  TS_THREADS,  \* number of registration slots
  SCALE,       \* OVERTICK_SCALING_FACTOR
  Fts,         \* index of the first byte of finish_task_switch in the code
  Watched,     \* CPUs whose interrupts the history counts
  MaxReloads,  \* bound: registered threads switched in on such a CPU in a row
  Machines     \* the machines and programs to look at, as records of
               \*   mode, section  delivery mode and section of the STM build
               \*   code           kernel code around finish_task_switch
               \*   tasks, cpus    threads of the program, CPUs that are online

ASSUME TimeStretchAssumption ==
  /\ NoTask \notin Task
  /\ TS_THREADS \in Nat \ {0} /\ SCALE \in Nat \ {0}
  /\ Fts \in Nat /\ Fts > 6 /\ MaxReloads \in Nat /\ Watched \subseteq CPU
  /\ \A m \in Machines : /\ m.code \in Seq(STRING) /\ Len(m.code) > Fts
                         /\ m.tasks \subseteq Task /\ m.cpus \subseteq CPU

VARIABLES
  mod, text, apic, res, site,            \* the module and the patched kernel
  opened, slot, callback, buffer, job,   \* device and registrations
  stretch_flag, overticks, timer,        \* per CPU
  cur, hook,
  missed, reloads,                       \* history, see KernelKeepsTime
  life, ts_id, txOn, standing, validated,  \* per task, user side
  machine                                \* one of Machines, never changes

moduleVars == <<mod, text, apic, res, site>>
deviceVars == <<opened, slot, callback, buffer>>
timerVars == <<stretch_flag, overticks, timer>>
tickVars == <<missed, reloads>>
cpuVars == <<timerVars, cur, hook, tickVars>>
userVars == <<life, ts_id, txOn, standing, validated>>
tsVars == <<moduleVars, deviceVars, job, cpuVars, userVars, machine>>

Slots == 1..TS_THREADS
NoJob == [kind |-> "no", cpu |-> NoTask, ipi |-> {}]
NoSite == [next |-> 0, n |-> 0, saved |-> <<>>]

TsInit ==
  /\ mod = "out" /\ apic = "kernel" /\ res = {} /\ site = NoSite
  /\ opened = FALSE /\ job = NoJob
  /\ slot = [i \in Slots |-> NoTask]
  /\ callback = [i \in Slots |-> FALSE]
  /\ buffer = [i \in Slots |-> NoTask]
  /\ stretch_flag = [c \in CPU |-> 0]
  /\ overticks = [c \in CPU |-> 0]
  /\ timer = [c \in CPU |-> "normal"]
  /\ cur = [c \in CPU |-> NoTask]
  /\ hook = [c \in CPU |-> "no"]
  /\ missed = [c \in CPU |-> 0]
  /\ reloads = [c \in CPU |-> 0]
  /\ life = [t \in Task |-> "dead"]
  /\ ts_id = [t \in Task |-> 0]
  /\ txOn = [t \in Task |-> FALSE]
  /\ standing = [t \in Task |-> FALSE]
  /\ validated = [t \in Task |-> FALSE]
  /\ machine \in Machines
  /\ text = machine.code

-----------------------------------------------------------------------------
(***************************************************************************)
(* Loading: the device, then the patch of the scheduler and of the timer   *)
(* interrupt.  Bytes are "pop" (a one-byte pop), "rex" (0x41, the prefix   *)
(* of a two-byte pop), "ret" (0xc3), or anything else.                     *)
(***************************************************************************)
Pops == {"pop", "rex"}

\* Scans backwards for a ret that follows four bytes of pops; a fifth byte that
\* is a prefix makes the patch one byte longer.  When no such ret exists the
\* scan ends one byte before the function, which the test that follows it
\* (ptr == finish_task_switch) does not recognise as a failure.
check_patch_compatibility(code) ==
  LET rets == {p \in Fts..Len(code) :
                 code[p] = "ret" /\ \A j \in 1..4 : code[p - j] \in Pops}
      p == Max(rets)
  IN CASE rets = {} -> [next |-> Fts - 1, n |-> 4]
       [] rets # {} /\ code[p - 5] = "rex" -> [next |-> p, n |-> 5]
       [] OTHER -> [next |-> p + 1, n |-> 4]

Jump == <<"jmp", "d0", "d1", "d2", "d3">>

Overwritten(code, s, bytes) ==
  [i \in DOMAIN code |-> IF i \in (s.next - s.n)..(s.next - 1)
                         THEN bytes[i - (s.next - s.n) + 1] ELSE code[i]]

\* The code scheduler_hook ends with: the bytes the jump replaces, moved in
\* front of its ret; prepare_self_patch may find no room for them.
prepare_self_patch(s) == SubSeq(text, s.next - s.n, s.next - 1)

scheduler_patch ==
  LET s == check_patch_compatibility(text)
  IN /\ s.next # Fts
     /\ site' = [next |-> s.next, n |-> s.n, saved |-> prepare_self_patch(s)]
     /\ text' = Overwritten(text, s, Jump)
     /\ apic' = "module"

scheduler_unpatch ==
  /\ text' = Overwritten(text, site, site.saved)
  /\ apic' = "kernel"

Parts == <<"chrdev", "class", "device", "file", "patch">>

\* Mutation: a failed patch only removes the device.
UnwoundFrom(k) ==
  CASE k = 5 -> {"device", "file"}
    [] k = 3 -> {"class", "chrdev"}
    [] k = 2 -> {"chrdev"}
    [] OTHER -> {}

\* What the labels failed_patch, failed_devreg, failed_classreg and
\* failed_chrdevreg undo when step k fails.
Unwound(k) ==
  CASE k = 5 -> {"file", "device", "class", "chrdev"}
    [] k = 3 -> {"class", "chrdev"}
    [] k = 2 -> {"chrdev"}
    [] OTHER -> {}

InitFails(k) ==
  /\ mod = "out"
  /\ res' = {Parts[j] : j \in 1..(k - 1)} \ Unwound(k)
  /\ UNCHANGED <<mod, text, apic, site, deviceVars, job, cpuVars, userVars, machine>>

\* A failure of device_create_file is only reported.
time_stretch_init ==
  /\ mod = "out"
  /\ res' = {"chrdev", "class", "device", "file"}
  /\ scheduler_patch
  /\ mod' = "in"
  /\ UNCHANGED <<deviceVars, job, cpuVars, userVars, machine>>


-----------------------------------------------------------------------------
(***************************************************************************)
(* The timer of a CPU                                                      *)
(***************************************************************************)
Stretch(c) ==
  /\ stretch_flag' = [stretch_flag EXCEPT ![c] = 1]
  /\ timer' = [timer EXCEPT ![c] = "stretched"]

Unstretch(c) ==
  /\ stretch_flag' = [stretch_flag EXCEPT ![c] = 0]
  /\ timer' = [timer EXCEPT ![c] = "normal"]

timer_reset(c) == Unstretch(c) /\ UNCHANGED overticks

\* local_apic_timer_interrupt is called, or the kernel misses this interrupt.
LocalTick(c, called) ==
  IF c \in Watched
  THEN /\ missed' = [missed EXCEPT ![c] = IF called THEN 0 ELSE @ + 1]
       /\ reloads' = [reloads EXCEPT ![c] = IF called THEN 0 ELSE @]
  ELSE UNCHANGED tickVars

\* smp_call_function(timer_reset, NULL, 1): every other CPU runs timer_reset.
Interrupted(c) ==
  /\ c \in job.ipi
  /\ timer_reset(c)
  /\ job' = [job EXCEPT !.ipi = @ \ {c}]
  /\ UNCHANGED <<moduleVars, deviceVars, cur, hook, tickVars, userVars, machine>>

LocalReset(c) ==
  /\ job.kind \in {"release", "cleanup"} /\ job.cpu = c
  /\ timer_reset(c)
  /\ job' = [kind |-> "calls", cpu |-> c, ipi |-> machine.cpus \ {c}]
  /\ UNCHANGED <<moduleVars, deviceVars, cur, hook, tickVars, userVars, machine>>

-----------------------------------------------------------------------------
(***************************************************************************)
(* The device                                                              *)
(***************************************************************************)
\* Only one program at a time: ts_mutex is tried.  The process that opens the
\* device is a new one, with new threads.
time_stretch_open ==
  /\ mod = "in" /\ ~opened
  /\ \A c \in CPU : cur[c] = NoTask
  /\ opened' = TRUE
  /\ life' = [t \in Task |-> "new"]
  /\ UNCHANGED <<moduleVars, slot, callback, buffer, job, cpuVars, ts_id, txOn,
                 standing, validated, machine>>

\* The last close, by a thread on CPU c: everything is forgotten and ts_mutex
\* released before the timers are reset.  The process is gone: its threads are
\* on their way out, in the kernel.
time_stretch_release(c) ==
  /\ opened /\ job = NoJob /\ cur[c] = NoTask /\ hook[c] = "no"
  /\ slot' = [i \in Slots |-> NoTask]
  /\ callback' = [i \in Slots |-> FALSE]
  /\ buffer' = [i \in Slots |-> NoTask]
  /\ opened' = FALSE
  /\ job' = [kind |-> "release", cpu |-> c, ipi |-> {}]
  /\ life' = [t \in Task |-> "dead"]
  /\ ts_id' = [t \in Task |-> 0]
  /\ txOn' = [t \in Task |-> FALSE]
  /\ standing' = [t \in Task |-> FALSE]
  /\ validated' = [t \in Task |-> FALSE]
  /\ UNCHANGED <<moduleVars, cpuVars, machine>>

CallsDone ==
  /\ job.kind = "calls" /\ job.ipi = {}
  /\ job' = IF mod = "leaving" THEN [job EXCEPT !.kind = "wait"] ELSE NoJob
  /\ UNCHANGED <<moduleVars, deviceVars, cpuVars, userVars, machine>>

\* Thread t runs in user mode or in a system call, on CPU c.
Runs(t, c, state) ==
  /\ cur[c] = t /\ hook[c] = "no" /\ opened
  /\ life[t] = state

\* stm_init_thread registers the thread, then its callback, then its buffer.
InitThread(t) ==
  life' = [life EXCEPT ![t] = CASE @ = "new" -> "registered"
                                [] @ = "registered" -> "callback set"
                                [] @ = "callback set" -> "idle"]

\* When no slot is free the program exits (time_stretch_release).
register_ts_thread(t, c) ==
  LET free == {i \in Slots : slot[i] = NoTask}
  IN /\ Runs(t, c, "new") /\ free # {}
     /\ slot' = [slot EXCEPT ![Min(free)] = t]
     /\ ts_id' = [ts_id EXCEPT ![t] = Min(free)]
     /\ InitThread(t)
     /\ UNCHANGED <<moduleVars, opened, callback, buffer, job, cpuVars, txOn,
                    standing, validated, machine>>

register_callback(t, c) ==
  /\ Runs(t, c, "registered")
  /\ callback' = [i \in Slots |-> callback[i] \/ slot[i] = t]
  /\ Stretch(c)
  /\ InitThread(t)
  /\ UNCHANGED <<moduleVars, opened, slot, buffer, job, overticks, cur, hook,
                 tickVars, ts_id, txOn, standing, validated, machine>>

register_buffer(t, c) ==
  /\ Runs(t, c, "callback set")
  /\ buffer' = [buffer EXCEPT ![Min({i \in Slots : slot[i] = t})] = t]
  /\ InitThread(t)
  /\ UNCHANGED <<moduleVars, opened, slot, callback, job, cpuVars, ts_id, txOn,
                 standing, validated, machine>>

\* stm_exit_thread frees the descriptor first, then deregisters.
FreeDescriptor(t, c) ==
  /\ Runs(t, c, "idle")
  /\ life' = [life EXCEPT ![t] = "freed"]
  /\ UNCHANGED <<moduleVars, deviceVars, job, cpuVars, ts_id, txOn, standing,
                 validated, machine>>

\* The buffer stays in the slot.
deregister_ts_thread(t, c) ==
  /\ Runs(t, c, "freed")
  /\ slot' = [slot EXCEPT ![ts_id[t]] = NoTask]
  /\ callback' = [callback EXCEPT ![ts_id[t]] = FALSE]
  /\ ts_id' = [ts_id EXCEPT ![t] = 0]
  /\ Unstretch(c)
  /\ life' = [life EXCEPT ![t] = "new"]
  /\ UNCHANGED <<moduleVars, opened, buffer, job, overticks, cur, hook, tickVars,
                 txOn, standing, validated, machine>>

-----------------------------------------------------------------------------
(***************************************************************************)
(* Transactions, as far as the control buffer shows them: a thread is in   *)
(* application code ("app"), in the STM ("stm") or in the callback.        *)
(***************************************************************************)
Moves(t, c, from, to, on) ==
  /\ Runs(t, c, from)
  /\ life' = [life EXCEPT ![t] = to]
  /\ txOn' = [txOn EXCEPT ![t] = on]
  /\ UNCHANGED <<moduleVars, deviceVars, job, cpuVars, ts_id, machine>>

StartTransaction(t, c) ==
  /\ Moves(t, c, "idle", "stm", TRUE)
  /\ standing' = [standing EXCEPT ![t] = FALSE]
  /\ UNCHANGED validated

\* A standing tick is honoured before the STM returns to the application.
LeaveStm(t, c) ==
  /\ Moves(t, c, "stm", "app", TRUE)
  /\ standing' = [standing EXCEPT ![t] = FALSE]
  /\ validated' = [validated EXCEPT ![t] = @ \/ standing[t]]

EnterStm(t, c) ==
  /\ Moves(t, c, "app", "stm", TRUE)
  /\ UNCHANGED <<standing, validated>>

\* stm_commit, and stm_rollback without restart.
EndTransaction(t, c) ==
  /\ Moves(t, c, "stm", "idle", FALSE)
  /\ UNCHANGED <<standing, validated>>

\* stm_revalidate masks further ticks, extends the snapshot and returns, or
\* rolls back and restarts in the STM.
MaskTicks(t, c) ==
  /\ Moves(t, c, "callback", "masked", FALSE)
  /\ UNCHANGED <<standing, validated>>

Revalidated(t, c) ==
  /\ \/ Moves(t, c, "masked", "app", TRUE) /\ UNCHANGED <<standing, validated>>
     \/ /\ Moves(t, c, "masked", "stm", TRUE)
        /\ standing' = [standing EXCEPT ![t] = FALSE]
        /\ validated' = [validated EXCEPT ![t] = FALSE]

-----------------------------------------------------------------------------
(***************************************************************************)
(* The scheduler: finish_task_switch ends in scheduler_hook when patched.  *)
(***************************************************************************)
Registered(t) == {i \in Slots : slot[i] = t /\ t # NoTask}

Switch(c, t) ==
  /\ hook[c] = "no" /\ (job.cpu = c => job = NoJob)
  /\ t # cur[c]
  /\ t # NoTask => life[t] # "dead" /\ \A d \in CPU : cur[d] # t
  /\ Registered(t) # {} => reloads[c] < MaxReloads
  /\ cur' = [cur EXCEPT ![c] = t]
  /\ hook' = [hook EXCEPT ![c] = IF apic = "kernel" THEN "no"
                                 ELSE IF Registered(t) # {} THEN "found" ELSE "none"]
  /\ UNCHANGED <<moduleVars, deviceVars, job, timerVars, tickVars, userVars, machine>>

\* The slots were searched with interrupts enabled.
scheduler_hook(c) ==
  /\ \/ /\ hook[c] = "found"
        /\ Stretch(c)
        /\ overticks' = [overticks EXCEPT ![c] = SCALE]
        /\ reloads' = IF c \in Watched THEN [reloads EXCEPT ![c] = @ + 1] ELSE reloads
     \/ /\ hook[c] = "none" /\ stretch_flag[c] = 1
        /\ Unstretch(c)
        /\ overticks' = [overticks EXCEPT ![c] = 0]
        /\ UNCHANGED reloads
     \/ /\ hook[c] = "none" /\ stretch_flag[c] = 0
        /\ UNCHANGED <<timerVars, reloads>>
  /\ hook' = [hook EXCEPT ![c] = "no"]
  /\ UNCHANGED <<moduleVars, deviceVars, job, cur, missed, userVars, machine>>

-----------------------------------------------------------------------------
(***************************************************************************)
(* The timer interrupt                                                     *)
(***************************************************************************)
\* Mutation: a leftover countdown is dropped, the timer is left as it is.
NormalKeepsTimer(c) ==
  /\ LocalTick(c, stretch_flag[c] = 0 \/ overticks[c] = 0)
  /\ overticks' = [overticks EXCEPT ![c] = 0]
  /\ UNCHANGED <<stretch_flag, timer>>

\* normal_APIC_interrupt
NormalTick(c) ==
  /\ LocalTick(c, stretch_flag[c] = 0 \/ overticks[c] = 0)
  /\ IF stretch_flag[c] = 1
     THEN Unstretch(c) /\ overticks' = [overticks EXCEPT ![c] = 0]
     ELSE UNCHANGED timerVars

\* Mutation: the countdown is reloaded, but the kernel is not called.
CountDownSilently(c) ==
  /\ overticks' = [overticks EXCEPT ![c] = IF @ = 0 THEN SCALE ELSE @ - 1]
  /\ LocalTick(c, FALSE)

\* overtick_APIC_interrupt
CountDown(c) ==
  /\ overticks' = [overticks EXCEPT ![c] = IF @ = 0 THEN SCALE ELSE @ - 1]
  /\ LocalTick(c, overticks[c] = 0)

\* Mutation: the delivery section is not looked at.
StubbornEverywhere(t, b, late, window) ==
  CASE ~txOn[b] -> "ignore"
    [] validated[b] -> "clear"
    [] ~late \/ (machine.mode = "quiescent" /\ ~window) -> "count"
    [] machine.section = "none" -> "stand"
    [] OTHER -> "deliver"

\* MODE_STUBBORN and MODE_QUIESCENT_HEURISTIC: thread t is interrupted and b's
\* buffer is the one its slot holds; late: the snapshot is older than the
\* clock; window: the optimal time is near.
Stubborn(t, b, late, window) ==
  CASE ~txOn[b] -> "ignore"
    [] validated[b] -> "clear"
    [] ~late \/ (machine.mode = "quiescent" /\ ~window) -> "count"
    [] machine.section = "none" -> "stand"
    [] life[t] # "app" -> IF standing[b] THEN "count" ELSE "stand"
    [] OTHER -> "deliver"

\* Every other mode.
ModelBased(t, b, window) ==
  IF txOn[b] /\ machine.section # "none" /\ life[t] = "app" /\ window
  THEN "deliver" ELSE "ignore"

Outcome(t, b) ==
  {IF machine.mode \in {"stubborn", "quiescent"} THEN Stubborn(t, b, late, window)
   ELSE ModelBased(t, b, window) : late \in BOOLEAN, window \in BOOLEAN}

\* What the handler does to the thread and to the buffer.
Deliver(t, b, outcome) ==
  /\ validated' = IF outcome = "clear" THEN [validated EXCEPT ![b] = FALSE] ELSE validated
  /\ standing' = IF outcome = "stand" THEN [standing EXCEPT ![b] = TRUE] ELSE standing
  /\ life' = IF outcome = "deliver" THEN [life EXCEPT ![t] = "callback"] ELSE life
  /\ UNCHANGED <<ts_id, txOn>>

\* The kernel is called or the countdown goes on; nothing is delivered to a
\* thread in the kernel, at the first instruction of the callback, or without a
\* buffer or a callback; the timer stays stretched.
StretchedTick(c, i) ==
  /\ CountDown(c)
  /\ \/ UNCHANGED userVars                              \* in the kernel
     \/ /\ callback[i] /\ buffer[i] # NoTask
        /\ life[slot[i]] \notin {"callback", "dead"}
        /\ \E outcome \in Outcome(slot[i], buffer[i]) :
             Deliver(slot[i], buffer[i], outcome)
  /\ Stretch(c)

my_smp_apic_timer_interrupt(c) ==
  /\ apic = "module"
  /\ IF Registered(cur[c]) # {}
     THEN StretchedTick(c, Min(Registered(cur[c])))
     ELSE NormalTick(c) /\ UNCHANGED userVars
  /\ UNCHANGED <<moduleVars, deviceVars, job, cur, hook, machine>>

\* The kernel's own handler.
KernelTick(c) ==
  /\ apic = "kernel"
  /\ LocalTick(c, TRUE)
  /\ UNCHANGED <<moduleVars, deviceVars, job, timerVars, cur, hook, userVars, machine>>

-----------------------------------------------------------------------------
(***************************************************************************)
(* Unloading.  The module does not count its users (fops has no owner):    *)
(* it is unloaded here when no program has the device open.                *)
(***************************************************************************)
StartCleanup(c) ==
  /\ mod = "in" /\ ~opened /\ job = NoJob /\ cur[c] = NoTask /\ hook[c] = "no"
  /\ scheduler_unpatch
  /\ res' = {}
  /\ mod' = "leaving"
  /\ job' = [kind |-> "delay", cpu |-> c, ipi |-> {}]
  /\ UNCHANGED <<site, deviceVars, cpuVars, userVars, machine>>

\* "delaying module unmount for multicore scheduler safety": the delay is long
\* enough for every scheduler_hook under way to end.
DelayIsOver ==
  /\ job.kind = "delay" /\ \A c \in CPU : hook[c] = "no"
  /\ job' = [job EXCEPT !.kind = "cleanup"]
  /\ UNCHANGED <<moduleVars, deviceVars, cpuVars, userVars, machine>>

\* The wait for every CPU's flag.  The module's data goes with it.
EndCleanup ==
  /\ job.kind = "wait" /\ \A c \in CPU : stretch_flag[c] = 0
  /\ mod' = "out" /\ site' = NoSite /\ job' = NoJob
  /\ overticks' = [c \in CPU |-> 0]
  /\ missed' = [c \in CPU |-> 0]
  /\ reloads' = [c \in CPU |-> 0]
  /\ UNCHANGED <<text, apic, res, deviceVars, stretch_flag, timer, cur, hook,
                 userVars, machine>>

-----------------------------------------------------------------------------
ModuleNext ==
  \/ time_stretch_init \/ \E k \in {1, 2, 3, 5} : InitFails(k)
  \/ DelayIsOver \/ EndCleanup \/ CallsDone \/ time_stretch_open
  \/ \E c \in machine.cpus : time_stretch_release(c) \/ StartCleanup(c) \/ LocalReset(c)
                    \/ Interrupted(c)

ThreadNext(t, c) ==
  \/ register_ts_thread(t, c) \/ register_callback(t, c) \/ register_buffer(t, c)
  \/ FreeDescriptor(t, c) \/ deregister_ts_thread(t, c)
  \/ StartTransaction(t, c) \/ LeaveStm(t, c) \/ EnterStm(t, c) \/ EndTransaction(t, c)
  \/ MaskTicks(t, c) \/ Revalidated(t, c)

Tick(c) == my_smp_apic_timer_interrupt(c) \/ KernelTick(c)

TsNext ==
  \/ ModuleNext
  \/ \E c \in machine.cpus :
       \/ Tick(c) \/ scheduler_hook(c)
       \/ \E t \in machine.tasks \cup {NoTask} : Switch(c, t)
       \/ \E t \in machine.tasks : ThreadNext(t, c)

\* Timers fire, the kernel's calls are carried out and hooks end.
TsFairness ==
  /\ WF_tsVars(DelayIsOver) /\ WF_tsVars(EndCleanup) /\ WF_tsVars(CallsDone)
  /\ \A c \in CPU : /\ WF_tsVars(LocalReset(c)) /\ WF_tsVars(Interrupted(c))
                    /\ WF_tsVars(scheduler_hook(c)) /\ WF_tsVars(Tick(c))

TsSpec == TsInit /\ [][TsNext]_tsVars /\ TsFairness

-----------------------------------------------------------------------------
(***************************************************************************)
(* Properties                                                              *)
(***************************************************************************)
\* The callback interrupts a thread that is in a transaction and in its own
\* code: not one that is registering, has freed its descriptor or is inside
\* the STM (the buffer in its slot may be another thread's).
CallbackInApp == [][\A t \in Task :
  life[t] # "callback" /\ life'[t] = "callback" => life[t] = "app" /\ txOn[t]]_tsVars

\* The interrupts a countdown that was started anew n times lets pass.
Allowed(n) == SCALE * (1 + n)

\* What stretching costs the kernel of a watched CPU: since its handler last
\* ran it has missed at most SCALE timer interrupts, and SCALE more for each
\* registered thread that was switched in since (scheduler_hook starts the
\* countdown anew).  Registrations, exits, resets from other CPUs, migrations
\* and switches to other threads cost it nothing.  So time goes on where a
\* thread is left to run; no constant bounds the loss of a CPU that keeps
\* switching between registered threads.
KernelKeepsTime == \A c \in Watched : missed[c] <= Allowed(reloads[c])

\* Once the module is out, or has failed to load, the kernel's code is what it
\* was, nothing stays registered and every timer has its normal period.
UnloadRestores == mod = "out" =>
  /\ text = machine.code /\ apic = "kernel" /\ res = {}
  /\ \A c \in CPU : timer[c] = "normal"

\* A CPU that no longer runs a registered thread gets its normal timer back.
TimerRestored == \A c \in CPU :
  (timer[c] = "stretched" /\ Registered(cur[c]) = {})
    ~> (timer[c] = "normal" \/ Registered(cur[c]) # {})

\* Unloading ends: the wait for the flags of all CPUs is not in vain.
UnloadEnds == mod = "leaving" ~> mod = "out"

\* Stretching a timer ends: on a CPU without registered thread, and
\* everywhere when the module is unloaded.
StretchingEnds == TimerRestored /\ UnloadEnds
=============================================================================
