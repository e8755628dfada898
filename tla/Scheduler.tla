------------------------------ MODULE Scheduler ------------------------------
(***************************************************************************)
(* Preemptive multitasking on the boot processor: proc/process.c,          *)
(* proc/schedule.c, proc/switch.asm, and the timer interrupt of idt/isr.c  *)
(* and idt/idt.asm.                                                        *)
(*                                                                         *)
(* Task control blocks form a ring through `next`.  A timer interrupt      *)
(* counts down current_task's time slice and, at 0, walks the ring for a   *)
(* READY task and switches stacks.  A task calls kprint, create_process    *)
(* and add_process, and may be interrupted in them whenever interrupts are *)
(* on.  Nothing else of what a task computes is modelled.                  *)
(*                                                                         *)
(* The interrupt stubs save no register.  What the compiler holds in the   *)
(* caller-saved ones (arguments, add_process's locals, the locals of       *)
(* malloc) is whatever the handler left there when the task goes on: its   *)
(* call ends as it should, or it goes astray, and the model stops there.   *)
(***************************************************************************)
EXTENDS Integers, FiniteSets

CONSTANTS
    Tasks,          \* the task control blocks that malloc can return
    Boot,           \* the one init_multitasking makes of the running code
    QUANTUM,        \* process.h
    TCB_BLOCKS,     \* what malloc charges for a tcb_t
    STACK_BLOCKS,   \* what malloc charges for a kernel stack
    HeapBlocks,     \* heap blocks that may be left when the scheduler starts
    NoTask,         \* not a task: no pointer
    Wild            \* not a task: the pointer in memory nobody wrote

ASSUME SchedulerAssumption ==
    /\ Boot \in Tasks
    /\ QUANTUM \in Nat
    /\ TCB_BLOCKS \in Nat \ {0} /\ STACK_BLOCKS \in Nat /\ STACK_BLOCKS >= TCB_BLOCKS
    /\ HeapBlocks \subseteq Nat
    /\ NoTask \notin Tasks /\ Wild \notin Tasks /\ NoTask # Wild

VARIABLES
    current_task,   \* the global of process.c
    next, status, time_slice,   \* the fields of each tcb_t
    saved,          \* the task whose execution a tcb_t's kernel_top resumes
    fresh,          \* the tasks that have not run yet
    running,        \* the task whose stack the CPU is on
    intr,           \* the CPU's interrupt flag, IF
    walk,           \* get_next_task's tmp, NoTask outside it
    pc,             \* where each task's code stands
    process, tmp,   \* add_process's argument and its local, in registers
    clobbered,      \* the tasks ever interrupted in a call, and with it their registers
    heap_free,      \* heap.free_blocks
    machine,        \* "boot", "up", "stuck" for ever, or "astray": memory may be anything
    ticks           \* ghost: timer interrupts since the last switch

tcbs == <<next, status, time_slice, saved, fresh>>
regs == <<process, tmp, clobbered>>
cpu == <<current_task, running, intr, walk>>
vars == <<cpu, tcbs, regs, pc, heap_free, machine, ticks>>

-----------------------------------------------------------------------------
(* init_multitasking: the code that runs becomes the task Boot, alone in   *)
(* its ring.  kprint leaves interrupts on; the timer is unmasked last.     *)
init_multitasking ==
    /\ machine = "boot"
    /\ IF heap_free < TCB_BLOCKS
       THEN /\ machine' = "stuck"
            /\ UNCHANGED <<cpu, next, status, time_slice, heap_free>>
       ELSE /\ machine' = "up"
            /\ heap_free' = heap_free - TCB_BLOCKS
            /\ current_task' = Boot
            /\ running' = Boot
            /\ next' = [next EXCEPT ![Boot] = Boot]
            /\ status' = [status EXCEPT ![Boot] = "RUNNING"]
            /\ time_slice' = [time_slice EXCEPT ![Boot] = QUANTUM]
            /\ intr' = TRUE
            /\ UNCHANGED walk
    /\ UNCHANGED <<saved, fresh, regs, pc, ticks>>

(* A keyboard interrupt has hit it, in malloc for one. *)
init_multitasking_stray ==
    /\ machine = "boot"
    /\ Boot \in clobbered
    /\ machine' = "astray"
    /\ UNCHANGED <<cpu, tcbs, regs, pc, heap_free, ticks>>

-----------------------------------------------------------------------------
(* What the running task does, outside the interrupt handler. *)

Executes(t, at) ==
    /\ machine = "up"
    /\ walk = NoTask
    /\ running = t
    /\ pc[t] = at

(* Where the arguments and the locals of a call are in registers. *)
Calls == {"kprint", "create_process", "allocated", "created", "add1", "add2"}

InCall == {t \in Tasks : pc[t] \in Calls}

call(t, op) ==
    /\ Executes(t, "main")
    /\ pc' = [pc EXCEPT ![t] = op]
    /\ UNCHANGED <<cpu, tcbs, regs, heap_free, machine, ticks>>

(* kprint: cli, lock, print, unlock, sti.  With interrupts off and one CPU *)
(* that prints, the lock is free; sti is unconditional.                    *)
kprint(t) ==
    /\ Executes(t, "kprint")
    /\ intr' = TRUE
    /\ pc' = [pc EXCEPT ![t] = "main"]
    /\ UNCHANGED <<current_task, running, walk, tcbs, regs, heap_free, machine, ticks>>

(* create_process: malloc for the tcb_t, ... *)
create_process_tcb(t) ==
    /\ Executes(t, "create_process")
    /\ heap_free >= TCB_BLOCKS
    /\ heap_free' = heap_free - TCB_BLOCKS
    /\ pc' = [pc EXCEPT ![t] = "allocated"]
    /\ UNCHANGED <<cpu, tcbs, regs, machine, ticks>>

(* ... malloc for the stack, and the fields of a task p that will start at *)
(* its main with interrupts off.  Its next is not written.                 *)
create_process(t, p) ==
    /\ Executes(t, "allocated")
    /\ status[p] = "UNUSED"
    /\ heap_free >= STACK_BLOCKS
    /\ heap_free' = heap_free - STACK_BLOCKS
    /\ status' = [status EXCEPT ![p] = "READY"]
    /\ time_slice' = [time_slice EXCEPT ![p] = QUANTUM]
    /\ process' = [process EXCEPT ![t] = p]
    /\ pc' = [pc EXCEPT ![t] = "created"]
    /\ UNCHANGED <<cpu, next, saved, fresh, tmp, clobbered, machine, ticks>>

(* No memory for the stack: "[[[PANIC]]] NO MEMORY", then hlt for ever,    *)
(* with the interrupts that kprint left on.                                *)
create_process_no_stack(t) ==
    /\ Executes(t, "allocated")
    /\ heap_free < STACK_BLOCKS
    /\ intr' = TRUE
    /\ pc' = [pc EXCEPT ![t] = "panic"]
    /\ UNCHANGED <<current_task, running, walk, tcbs, regs, heap_free, machine, ticks>>

(* No memory for the tcb_t: the result is not checked, and kernel_top is   *)
(* stored through the pointer -1, across both ends of the address space.   *)
(* That faults; or, vmm_init having mapped both ends, it does not, and     *)
(* there is no memory for the stack either.                                *)
create_process_no_tcb(t) ==
    /\ Executes(t, "create_process")
    /\ heap_free < TCB_BLOCKS
    /\ \/ machine' = "stuck" /\ UNCHANGED <<intr, pc>>
       \/ intr' = TRUE /\ pc' = [pc EXCEPT ![t] = "panic"] /\ UNCHANGED machine
    /\ UNCHANGED <<current_task, running, walk, tcbs, regs, heap_free, ticks>>

(* add_process, by instructions: load current_task->next, ... *)
add_process_load(t) ==
    /\ Executes(t, "created")
    /\ tmp' = [tmp EXCEPT ![t] = next[current_task]]
    /\ pc' = [pc EXCEPT ![t] = "add1"]
    /\ UNCHANGED <<cpu, tcbs, process, clobbered, heap_free, machine, ticks>>

(* ... store the new task into current_task->next, ... *)
add_process_link(t) ==
    /\ Executes(t, "add1")
    /\ next' = [next EXCEPT ![current_task] = process[t]]
    /\ pc' = [pc EXCEPT ![t] = "add2"]
    /\ UNCHANGED <<cpu, status, time_slice, saved, fresh, regs, heap_free, machine, ticks>>

(* ... (with the new task closing the ring itself, ...) *)
add_process_close_short(t) ==
    /\ Executes(t, "add2")
    /\ next' = [next EXCEPT ![process[t]] = current_task]
    /\ process' = [process EXCEPT ![t] = NoTask]
    /\ tmp' = [tmp EXCEPT ![t] = NoTask]
    /\ pc' = [pc EXCEPT ![t] = "main"]
    /\ UNCHANGED <<cpu, status, time_slice, saved, fresh, clobbered, heap_free, machine, ticks>>

(* ... (or with the store forgotten) ... *)
add_process_close_forgotten(t) ==
    /\ Executes(t, "add2")
    /\ process' = [process EXCEPT ![t] = NoTask]
    /\ tmp' = [tmp EXCEPT ![t] = NoTask]
    /\ pc' = [pc EXCEPT ![t] = "main"]
    /\ UNCHANGED <<cpu, tcbs, clobbered, heap_free, machine, ticks>>

(* ... store the old successor into process->next. *)
add_process_close(t) ==
    /\ Executes(t, "add2")
    /\ next' = [next EXCEPT ![process[t]] = tmp[t]]
    /\ process' = [process EXCEPT ![t] = NoTask]
    /\ tmp' = [tmp EXCEPT ![t] = NoTask]
    /\ pc' = [pc EXCEPT ![t] = "main"]
    /\ UNCHANGED <<cpu, status, time_slice, saved, fresh, clobbered, heap_free, machine, ticks>>

(* A task that was interrupted in a call goes on with what the handler has *)
(* left in its registers: it stores, reads or jumps anywhere.              *)
stray(t) ==
    /\ \E at \in Calls : Executes(t, at)
    /\ t \in clobbered
    /\ machine' = "astray"
    /\ UNCHANGED <<cpu, tcbs, regs, pc, heap_free, ticks>>

-----------------------------------------------------------------------------
(* The interrupt stubs of idt.asm save no register of the code they hit.   *)
Clobber ==
    clobbered' = clobbered \cup (IF machine = "boot" THEN {Boot} ELSE {running} \cap InCall)

Interruptible == machine = "up" /\ walk = NoTask /\ intr

(* keyboard_irq: keyboard_handler touches no task.  Its line is open, and  *)
(* interrupts are on, before there is a task.                              *)
keyboard_irq_handler ==
    /\ Interruptible \/ machine = "boot"
    /\ Clobber
    /\ UNCHANGED <<cpu, tcbs, process, tmp, pc, heap_free, machine, ticks>>

(* The timer interrupt that does not renew the slice. *)
timer_irq_handler_no_renewal ==
    /\ Interruptible
    /\ Clobber
    /\ ticks' = ticks + 1
    /\ IF time_slice[current_task] = 0
       THEN walk' = next[current_task] /\ intr' = FALSE /\ UNCHANGED time_slice
       ELSE /\ time_slice' = [time_slice EXCEPT ![current_task] = @ - 1]
            /\ UNCHANGED <<walk, intr>>
    /\ UNCHANGED <<current_task, running, next, status, saved, fresh, process, tmp,
                   pc, heap_free, machine>>

(* timer_irq, timer_irq_handler: count the slice down, or renew it and     *)
(* enter schedule(), get_next_task(), with interrupts off.                 *)
timer_irq_handler ==
    /\ Interruptible
    /\ Clobber
    /\ ticks' = ticks + 1
    /\ IF time_slice[current_task] = 0
       THEN /\ time_slice' = [time_slice EXCEPT ![current_task] = QUANTUM]
            /\ walk' = next[current_task]
            /\ intr' = FALSE
       ELSE /\ time_slice' = [time_slice EXCEPT ![current_task] = @ - 1]
            /\ UNCHANGED <<walk, intr>>
    /\ UNCHANGED <<current_task, running, next, status, saved, fresh, process, tmp,
                   pc, heap_free, machine>>

(* The switch that leaves current_task where it is. *)
switch_to_task_keep(n) ==
    /\ saved' = [saved EXCEPT ![current_task] = running]
    /\ running' = saved'[n]
    /\ intr' = (running' \notin fresh)
    /\ fresh' = fresh \ {running'}
    /\ walk' = NoTask
    /\ ticks' = 0
    /\ UNCHANGED current_task

(* switch_to_task_asm: current_task moves to its own next, whatever task   *)
(* was chosen; the stack pointer goes to the old current_task and comes    *)
(* from n.  A task that ran before returns through iretq, which sets IF; a *)
(* new one enters its main by ret, with interrupts still off.              *)
switch_to_task(n) ==
    /\ current_task' = next[current_task]
    /\ saved' = [saved EXCEPT ![current_task] = running]
    /\ running' = saved'[n]
    /\ intr' = (running' \notin fresh)
    /\ fresh' = fresh \ {running'}
    /\ walk' = NoTask
    /\ ticks' = 0

(* The loop of get_next_task that does not stop at a READY task. *)
get_next_task_no_test ==
    /\ machine = "up"
    /\ walk \in Tasks
    /\ IF walk # current_task
       THEN /\ walk' = next[walk]
            /\ UNCHANGED <<running, intr, saved, fresh, ticks>>
       ELSE /\ walk' = NoTask
            /\ intr' = TRUE
            /\ ticks' = 0
            /\ UNCHANGED <<running, saved, fresh>>
    /\ UNCHANGED <<current_task, status, next, time_slice, regs, pc, heap_free, machine>>

(* The loop of get_next_task, one task per step, and the switch. *)
get_next_task ==
    /\ machine = "up"
    /\ walk \in Tasks
    /\ IF status[walk] # "READY" /\ walk # current_task
       THEN /\ walk' = next[walk]
            /\ UNCHANGED <<current_task, running, intr, status, saved, fresh, ticks>>
       ELSE /\ status' = IF status[walk] = "READY"
                         THEN [status EXCEPT ![current_task] = "READY", ![walk] = "RUNNING"]
                         ELSE status
            /\ switch_to_task(walk)
    /\ UNCHANGED <<next, time_slice, regs, pc, heap_free, machine>>

(* The walk follows a pointer that was never written. *)
get_next_task_wild ==
    /\ machine = "up"
    /\ walk = Wild
    /\ machine' = "astray"
    /\ UNCHANGED <<cpu, tcbs, regs, pc, heap_free, ticks>>

(* A panic, or general_exception_handler: hlt for ever; or nothing that is *)
(* known of the machine any more.                                          *)
Halted ==
    /\ machine \in {"stuck", "astray"}
    /\ UNCHANGED vars

-----------------------------------------------------------------------------
Init ==
    /\ heap_free \in HeapBlocks
    /\ machine = "boot"
    /\ current_task = NoTask /\ running = NoTask /\ walk = NoTask /\ intr = TRUE
    /\ next = [t \in Tasks |-> Wild]
    /\ status = [t \in Tasks |-> "UNUSED"]
    /\ time_slice = [t \in Tasks |-> 0]
    /\ saved = [t \in Tasks |-> t]
    /\ fresh = Tasks \ {Boot}
    /\ pc = [t \in Tasks |-> "main"]
    /\ process = [t \in Tasks |-> NoTask]
    /\ tmp = [t \in Tasks |-> NoTask]
    /\ clobbered = {}
    /\ ticks = 0

AddProcess(t) ==
    add_process_load(t) \/ add_process_link(t) \/ add_process_close(t)

TaskStep(t) ==
    \/ \E op \in {"kprint", "create_process"} : call(t, op)
    \/ kprint(t)
    \/ create_process_tcb(t)
    \/ \E p \in Tasks : create_process(t, p)
    \/ create_process_no_stack(t)
    \/ create_process_no_tcb(t)
    \/ AddProcess(t)
    \/ stray(t)

Schedule == get_next_task \/ get_next_task_wild

Next ==
    \/ init_multitasking
    \/ init_multitasking_stray
    \/ \E t \in Tasks : TaskStep(t)
    \/ keyboard_irq_handler
    \/ timer_irq_handler
    \/ Schedule
    \/ Halted

(* The timer is periodic, and the CPU executes the handler.  Nothing is    *)
(* assumed of the tasks.                                                   *)
Fairness == WF_vars(init_multitasking) /\ WF_vars(timer_irq_handler) /\ WF_vars(Schedule)

Spec == Init /\ [][Next]_vars /\ Fairness

-----------------------------------------------------------------------------
(* Every variable keeps its type. *)
TypeOK ==
    /\ current_task \in Tasks \cup {NoTask, Wild}
    /\ running \in Tasks \cup {NoTask}
    /\ walk \in Tasks \cup {NoTask, Wild}
    /\ intr \in BOOLEAN
    /\ next \in [Tasks -> Tasks \cup {Wild}]
    /\ status \in [Tasks -> {"UNUSED", "READY", "RUNNING"}]
    /\ time_slice \in [Tasks -> 0 .. QUANTUM]
    /\ saved \in [Tasks -> Tasks]
    /\ fresh \subseteq Tasks
    /\ pc \in [Tasks -> Calls \cup {"main", "panic"}]
    /\ process \in [Tasks -> Tasks \cup {NoTask}]
    /\ tmp \in [Tasks -> Tasks \cup {NoTask, Wild}]
    /\ clobbered \subseteq Tasks
    /\ heap_free \in Nat
    /\ machine \in {"boot", "up", "stuck", "astray"}
    /\ ticks \in Nat

(* "Update current_task with next task being run": the task whose stack    *)
(* the CPU is on is current_task, and the only one marked RUNNING, after   *)
(* every switch, although switch_to_task_asm does not use the task that    *)
(* get_next_task chose.                                                    *)
CpuMatchesTaskList ==
    machine = "up" =>
        /\ running \in Tasks
        /\ current_task = running
        /\ \A t \in Tasks : status[t] = "RUNNING" <=> t = running

(* The tasks that add_process has linked, or is linking. *)
Created == {t \in Tasks : status[t] # "UNUSED"}
Linked == Created \ {process[t] : t \in Tasks}

(* The ring, as the running task leaves it once add_process is done. *)
Successor(t) == IF t = running /\ pc[t] = "add2" THEN tmp[t] ELSE next[t]

Ring[n \in Nat] == IF n = 0 THEN current_task ELSE Successor(Ring[n - 1])

(* As long as no interrupt hits a call, the ring visits every linked task  *)
(* once and comes back: no task is dropped by add_process.                 *)
RingIntact ==
    machine = "up" /\ clobbered = {} =>
        /\ {Ring[i] : i \in 0 .. Cardinality(Linked) - 1} = Linked
        /\ Ring[Cardinality(Linked)] = current_task

(* The scheduler follows an unwritten pointer, or a task goes astray, only *)
(* after an interrupt hit kprint, create_process, add_process or           *)
(* init_multitasking; otherwise the machine stops only for want of a       *)
(* tcb_t.                                                                  *)
StuckOnlyIf ==
    /\ machine = "stuck" => heap_free < TCB_BLOCKS
    /\ machine = "astray" => clobbered # {}

(* A task keeps the CPU for QUANTUM + 1 timer interrupts. *)
FullQuantum ==
    [][running' # running /\ machine = "up" => ticks = QUANTUM + 1]_vars

(* A linked READY task gets the CPU, as long as interrupts come back and   *)
(* none hits a call: a new task runs with interrupts off until it prints,  *)
(* and starves the others if it never does.                                *)
NoStarvation ==
    []<>intr => \A t \in Tasks :
        (t \in Linked /\ status[t] = "READY") ~> (running = t \/ machine = "stuck" \/ clobbered # {})
=============================================================================
