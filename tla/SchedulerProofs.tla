-------------------------- MODULE SchedulerProofs --------------------------
(* Proofs about Scheduler, for every set of tasks, quantum and heap. *)
EXTENDS Scheduler, FiniteSetTheorems, WellFoundedInduction, TLAPS

(* Before init_multitasking there is no task. *)
BootState ==
    machine = "boot" =>
        /\ status = [t \in Tasks |-> "UNUSED"]
        /\ pc = [t \in Tasks |-> "main"]
        /\ process = [t \in Tasks |-> NoTask]
        /\ walk = NoTask

(* Every tcb_t resumes its own task. *)
OwnStacks == saved = [t \in Tasks |-> t]

(* A pointer to a task is a pointer to a task that was created. *)
PointersCreated ==
    /\ \A t \in Tasks : next[t] \in Tasks => status[next[t]] # "UNUSED"
    /\ \A t \in Tasks : process[t] \in Tasks => status[process[t]] # "UNUSED"
    /\ \A t \in Tasks : tmp[t] \in Tasks => status[tmp[t]] # "UNUSED"

(* get_next_task never goes beyond its first candidate. *)
WalkAtNext ==
    machine = "up" /\ walk # NoTask => walk = next[current_task]

(* add_process has its registers loaded. *)
RegistersLoaded ==
    \A t \in Tasks :
        /\ pc[t] \in {"created", "add1", "add2"} => process[t] \in Tasks
        /\ pc[t] \in {"add1", "add2"} => tmp[t] \in Tasks \cup {Wild}
        /\ pc[t] \notin {"created", "add1", "add2"} => process[t] = NoTask

(* No task is passed to two add_processes, or to one after it was linked. *)
OneAdder ==
    \A t, u \in Tasks : process[t] = process[u] /\ process[t] \in Tasks => t = u

(* Unless an interrupt hit a call: only the running task is in add_process,*)
(* and the linked tasks are closed under the successor.                    *)
RingClosed ==
    machine = "up" /\ clobbered = {} =>
        /\ \A t \in Tasks : t # running => pc[t] \notin {"add1", "add2"}
        /\ walk # NoTask => pc[running] \notin {"add1", "add2"}
        /\ running \in Linked
        /\ \A t \in Linked : Successor(t) \in Linked
        /\ pc[running] = "add1" => tmp[running] = next[running]
        /\ pc[running] = "add2" => next[running] = process[running]

IInv ==
    /\ TypeOK
    /\ CpuMatchesTaskList
    /\ StuckOnlyIf
    /\ BootState
    /\ OwnStacks
    /\ PointersCreated
    /\ WalkAtNext
    /\ RegistersLoaded
    /\ OneAdder
    /\ RingClosed

USE DEF IInv, TypeOK, CpuMatchesTaskList, StuckOnlyIf, BootState, OwnStacks, PointersCreated,
        WalkAtNext, RegistersLoaded, OneAdder, Calls, InCall

-----------------------------------------------------------------------------
(* The invariant holds at boot. *)
LEMMA InitIInv == Init => IInv
  BY SchedulerAssumption DEF Init, RingClosed

(* init_multitasking keeps the invariant. *)
LEMMA InitMultitaskingIInv == IInv /\ init_multitasking => IInv'
<1> SUFFICES ASSUME IInv, init_multitasking PROVE IInv'
  OBVIOUS
<1>1. CASE heap_free < TCB_BLOCKS
  BY <1>1, SchedulerAssumption DEF init_multitasking, regs, cpu, RingClosed
<1>2. CASE ~ (heap_free < TCB_BLOCKS)
  <2>1. /\ machine' = "up" /\ heap_free' = heap_free - TCB_BLOCKS /\ heap_free' \in Nat
        /\ current_task' = Boot /\ running' = Boot
        /\ next' = [next EXCEPT ![Boot] = Boot]
        /\ status' = [status EXCEPT ![Boot] = "RUNNING"]
        /\ time_slice' = [time_slice EXCEPT ![Boot] = QUANTUM]
        /\ intr' = TRUE /\ walk' = walk
        /\ UNCHANGED <<saved, fresh, process, tmp, clobbered, pc, ticks>>
    BY <1>2, SchedulerAssumption DEF init_multitasking, regs
  <2>2. TypeOK' /\ CpuMatchesTaskList' /\ StuckOnlyIf' /\ BootState' /\ OwnStacks'
    BY <2>1, SchedulerAssumption DEF init_multitasking
  <2>3. PointersCreated' /\ WalkAtNext' /\ RegistersLoaded' /\ OneAdder'
    BY <2>1, SchedulerAssumption DEF init_multitasking
  <2>4. RingClosed'
    <3>1. Linked' = {Boot}
      BY <2>1, SchedulerAssumption DEF init_multitasking, Linked, Created
    <3>2. Successor(Boot)' = Boot
      BY <2>1, SchedulerAssumption DEF init_multitasking, Successor
    <3> QED
      BY <2>1, <3>1, <3>2, SchedulerAssumption DEF init_multitasking, RingClosed
  <2> QED
    BY <2>2, <2>3, <2>4
<1> QED
  BY <1>1, <1>2

(* A keyboard interrupt that hit init_multitasking keeps it. *)
LEMMA BootStrayIInv == IInv /\ init_multitasking_stray => IInv'
  BY DEF init_multitasking_stray, cpu, tcbs, regs, RingClosed

(* A call, and kprint, keep the invariant. *)
LEMMA CallIInv ==
    ASSUME IInv, NEW t \in Tasks, NEW op \in {"kprint", "create_process"}, call(t, op) \/ kprint(t)
    PROVE  IInv'
<1>1. /\ machine = "up" /\ machine' = "up" /\ running = t /\ walk = NoTask
      /\ pc[t] \in {"main", "kprint"} /\ intr' \in BOOLEAN
      /\ \E to \in {"main", "kprint", "create_process"} : pc' = [pc EXCEPT ![t] = to]
      /\ UNCHANGED <<current_task, running, walk, next, status, time_slice, saved, fresh,
                     process, tmp, clobbered, heap_free, ticks>>
  BY DEF call, kprint, Executes, cpu, tcbs, regs
<1>2. TypeOK' /\ CpuMatchesTaskList' /\ StuckOnlyIf' /\ BootState' /\ OwnStacks'
  BY <1>1
<1>3. PointersCreated' /\ WalkAtNext' /\ RegistersLoaded' /\ OneAdder'
  BY <1>1
<1>4. RingClosed'
  BY <1>1 DEF RingClosed, Linked, Created, Successor
<1> QED
  BY <1>2, <1>3, <1>4

(* So does the first malloc of create_process. *)
LEMMA CreateTcbIInv ==
    ASSUME IInv, NEW t \in Tasks, create_process_tcb(t)
    PROVE  IInv'
<1>1. /\ machine = "up" /\ machine' = "up" /\ running = t /\ walk = NoTask
      /\ pc[t] = "create_process" /\ pc' = [pc EXCEPT ![t] = "allocated"]
      /\ heap_free' \in Nat
      /\ UNCHANGED <<current_task, running, intr, walk, next, status, time_slice, saved, fresh,
                     process, tmp, clobbered, ticks>>
  BY SchedulerAssumption DEF create_process_tcb, Executes, cpu, tcbs, regs
<1>2. TypeOK' /\ CpuMatchesTaskList' /\ StuckOnlyIf' /\ BootState' /\ OwnStacks'
  BY <1>1
<1>3. PointersCreated' /\ WalkAtNext' /\ RegistersLoaded' /\ OneAdder'
  BY <1>1
<1>4. RingClosed'
  BY <1>1 DEF RingClosed, Linked, Created, Successor
<1> QED
  BY <1>2, <1>3, <1>4

(* A task that was created and not yet linked is not a linked task. *)
LEMMA CreateKeepsLinked ==
    ASSUME IInv, NEW t \in Tasks, NEW p \in Tasks, create_process(t, p)
    PROVE  Linked' = Linked
<1>1. /\ pc[t] = "allocated" /\ status[p] = "UNUSED"
      /\ status' = [status EXCEPT ![p] = "READY"] /\ process' = [process EXCEPT ![t] = p]
  BY DEF create_process, Executes
<1>2. Created' = Created \cup {p} /\ p \notin Linked /\ Linked \subseteq Tasks
  BY <1>1 DEF Created, Linked
<1>3. \A u \in Tasks : process'[u] = IF u = t THEN p ELSE process[u]
  BY <1>1
<1>4. process[t] = NoTask
  BY <1>1
<1>5. /\ \A x : x \in Linked <=> x \in Created /\ \A u \in Tasks : process[u] # x
      /\ \A x : x \in Linked' <=> x \in Created' /\ \A u \in Tasks : process'[u] # x
  BY DEF Linked
<1>6. NoTask \notin Created
  BY SchedulerAssumption DEF Created
<1>7. ASSUME NEW x PROVE x \in Linked' <=> x \in Linked
  BY <1>2, <1>3, <1>4, <1>5, <1>6
<1> QED
  BY <1>7, Zenon DEF Linked

(* create_process keeps the invariant, ... *)
LEMMA CreateIInv ==
    ASSUME IInv, NEW t \in Tasks, NEW p \in Tasks, create_process(t, p)
    PROVE  IInv'
<1>1. /\ machine = "up" /\ machine' = "up" /\ walk = NoTask /\ walk' = NoTask
      /\ running = t /\ pc[t] = "allocated" /\ status[p] = "UNUSED"
      /\ status' = [status EXCEPT ![p] = "READY"]
      /\ process' = [process EXCEPT ![t] = p]
      /\ pc' = [pc EXCEPT ![t] = "created"]
      /\ UNCHANGED <<current_task, running, intr, next, saved, fresh, tmp, clobbered, ticks>>
      /\ heap_free' \in Nat
      /\ time_slice' = [time_slice EXCEPT ![p] = QUANTUM]
  BY SchedulerAssumption DEF create_process, Executes, cpu
<1>2. TypeOK' /\ CpuMatchesTaskList' /\ StuckOnlyIf' /\ BootState' /\ OwnStacks'
  BY <1>1, SchedulerAssumption
<1>3. PointersCreated' /\ WalkAtNext' /\ RegistersLoaded' /\ OneAdder'
  BY <1>1, SchedulerAssumption
<1>4. ASSUME clobbered = {} PROVE RingClosed'
  <2>1. /\ \A u \in Tasks : u # running => pc[u] \notin {"add1", "add2"}
        /\ running \in Linked /\ \A u \in Linked : Successor(u) \in Linked
    BY <1>1, <1>4 DEF RingClosed
  <2>2. Linked' = Linked
    BY CreateKeepsLinked
  <2>3. \A u \in Tasks : Successor(u)' = Successor(u)
    BY <1>1 DEF Successor
  <2>4. Linked \subseteq Tasks
    BY DEF Linked, Created
  <2> QED
    BY <1>1, <2>1, <2>2, <2>3, <2>4 DEF RingClosed
<1>5. clobbered # {} => RingClosed'
  BY <1>1 DEF RingClosed
<1> QED
  BY <1>2, <1>3, <1>4, <1>5

(* ... and so do its failures. *)
LEMMA CreateFailsIInv ==
    ASSUME IInv, NEW t \in Tasks, create_process_no_stack(t) \/ create_process_no_tcb(t)
    PROVE  IInv'
<1>1. CASE create_process_no_stack(t)
  BY <1>1, SchedulerAssumption DEF create_process_no_stack, Executes, tcbs, regs, RingClosed,
     Linked, Created, Successor
<1>2. CASE create_process_no_tcb(t)
  <2>1. /\ machine = "up" /\ running = t /\ walk = NoTask /\ heap_free < TCB_BLOCKS
        /\ pc[t] = "create_process" /\ intr' \in BOOLEAN
        /\ \/ machine' = "stuck" /\ pc' = pc
           \/ machine' = "up" /\ pc' = [pc EXCEPT ![t] = "panic"]
        /\ UNCHANGED <<current_task, running, walk, next, status, time_slice, saved, fresh,
                       process, tmp, clobbered, heap_free, ticks>>
    BY <1>2 DEF create_process_no_tcb, Executes, tcbs, regs
  <2>2. TypeOK' /\ CpuMatchesTaskList' /\ StuckOnlyIf' /\ BootState' /\ OwnStacks'
    BY <2>1
  <2>3. PointersCreated' /\ WalkAtNext' /\ RegistersLoaded' /\ OneAdder'
    BY <2>1
  <2>4. RingClosed'
    BY <2>1 DEF RingClosed, Linked, Created, Successor
  <2> QED
    BY <2>2, <2>3, <2>4
<1> QED
  BY <1>1, <1>2

(* The load of add_process keeps the invariant, ... *)
LEMMA LoadIInv ==
    ASSUME IInv, NEW t \in Tasks, add_process_load(t)
    PROVE  IInv'
<1>1. /\ machine = "up" /\ machine' = "up" /\ walk = NoTask /\ walk' = NoTask
      /\ running = t /\ current_task = t /\ pc[t] = "created"
      /\ tmp' = [tmp EXCEPT ![t] = next[t]]
      /\ pc' = [pc EXCEPT ![t] = "add1"]
      /\ UNCHANGED <<current_task, running, intr, next, status, time_slice, saved, fresh,
                     process, clobbered, heap_free, ticks>>
  BY DEF add_process_load, Executes, cpu, tcbs
<1>2. TypeOK' /\ CpuMatchesTaskList' /\ StuckOnlyIf' /\ BootState' /\ OwnStacks'
  BY <1>1, SchedulerAssumption
<1>3. PointersCreated' /\ WalkAtNext' /\ RegistersLoaded' /\ OneAdder'
  BY <1>1, SchedulerAssumption
<1>4. RingClosed'
  BY <1>1 DEF RingClosed, Linked, Created, Successor
<1> QED
  BY <1>2, <1>3, <1>4

(* ... so does its first store, ... *)
LEMMA LinkIInv ==
    ASSUME IInv, NEW t \in Tasks, add_process_link(t)
    PROVE  IInv'
<1>1. /\ machine = "up" /\ machine' = "up" /\ walk = NoTask /\ walk' = NoTask
      /\ running = t /\ current_task = t /\ pc[t] = "add1"
      /\ next' = [next EXCEPT ![t] = process[t]]
      /\ pc' = [pc EXCEPT ![t] = "add2"]
      /\ UNCHANGED <<current_task, running, intr, tmp, status, time_slice, saved, fresh,
                     process, clobbered, heap_free, ticks>>
  BY DEF add_process_link, Executes, cpu, regs
<1>2. TypeOK' /\ CpuMatchesTaskList' /\ StuckOnlyIf' /\ BootState' /\ OwnStacks'
  BY <1>1, SchedulerAssumption
<1>3. PointersCreated' /\ WalkAtNext' /\ RegistersLoaded' /\ OneAdder'
  BY <1>1, SchedulerAssumption
<1>4. RingClosed'
  BY <1>1 DEF RingClosed, Linked, Created, Successor
<1> QED
  BY <1>2, <1>3, <1>4

(* ... its second, which makes the new task a linked one, ... *)
LEMMA CloseIInv ==
    ASSUME IInv, NEW t \in Tasks, add_process_close(t)
    PROVE  IInv'
<1>1. /\ machine = "up" /\ machine' = "up" /\ walk = NoTask /\ walk' = NoTask
      /\ running = t /\ current_task = t /\ pc[t] = "add2" /\ process[t] \in Tasks
      /\ next' = [next EXCEPT ![process[t]] = tmp[t]]
      /\ process' = [process EXCEPT ![t] = NoTask]
      /\ tmp' = [tmp EXCEPT ![t] = NoTask]
      /\ pc' = [pc EXCEPT ![t] = "main"]
      /\ UNCHANGED <<current_task, running, intr, status, time_slice, saved, fresh,
                     clobbered, heap_free, ticks>>
  BY DEF add_process_close, Executes, cpu
<1>2. TypeOK' /\ CpuMatchesTaskList' /\ StuckOnlyIf' /\ BootState' /\ OwnStacks'
  BY <1>1, SchedulerAssumption
<1>3. PointersCreated' /\ WalkAtNext' /\ RegistersLoaded' /\ OneAdder'
  BY <1>1, SchedulerAssumption
<1>4. ASSUME clobbered = {} PROVE RingClosed'
  <2>1. /\ \A u \in Tasks : u # running => pc[u] \notin {"add1", "add2"}
        /\ running \in Linked /\ \A u \in Linked : Successor(u) \in Linked
        /\ next[t] = process[t]
    BY <1>1, <1>4 DEF RingClosed
  <2>2. Linked' = Linked \cup {process[t]}
    BY <1>1, SchedulerAssumption DEF Linked, Created
  <2>3. process[t] \notin Linked
    BY <1>1 DEF Linked
  <2>4. tmp[t] \in Linked
    BY <1>1, <2>1 DEF Successor
  <2>5. Linked \subseteq Tasks
    BY DEF Linked, Created
  <2>6. ASSUME NEW u \in Linked' PROVE Successor(u)' \in Linked'
    <3>1. Successor(u)' = next'[u]
      BY <1>1, <2>1, <2>2, <2>5 DEF Successor
    <3>2. CASE u = process[t]
      BY <1>1, <2>2, <2>4, <3>1, <3>2
    <3>3. CASE u = t
      BY <1>1, <2>1, <2>2, <2>3, <3>1, <3>3
    <3>4. CASE u # t /\ u # process[t]
      <4>1. u \in Linked /\ Successor(u) = next[u]
        BY <1>1, <2>2, <3>4 DEF Successor
      <4>2. next'[u] = next[u]
        BY <1>1, <3>4, <4>1, <2>5
      <4> QED
        BY <2>1, <2>2, <3>1, <4>1, <4>2
    <3> QED
      BY <3>2, <3>3, <3>4
  <2> QED
    BY <1>1, <2>1, <2>2, <2>6 DEF RingClosed
<1>5. clobbered # {} => RingClosed'
  BY <1>1 DEF RingClosed
<1> QED
  BY <1>2, <1>3, <1>4, <1>5

(* ... and a call that goes on with lost registers. *)
LEMMA StrayIInv ==
    ASSUME IInv, NEW t \in Tasks, stray(t)
    PROVE  IInv'
  BY DEF stray, Executes, cpu, tcbs, regs, RingClosed

(* A keyboard interrupt keeps the invariant. *)
LEMMA KeyboardIInv == IInv /\ keyboard_irq_handler => IInv'
<1> SUFFICES ASSUME IInv, keyboard_irq_handler PROVE IInv'
  OBVIOUS
<1>1. /\ machine \in {"boot", "up"} /\ walk = NoTask /\ clobbered' \subseteq Tasks
      /\ clobbered \subseteq clobbered'
      /\ UNCHANGED <<current_task, running, intr, walk, next, status, time_slice, saved, fresh,
                     process, tmp, pc, heap_free, machine, ticks>>
  BY SchedulerAssumption DEF keyboard_irq_handler, Interruptible, Clobber, cpu, tcbs
<1>2. RingClosed'
  BY <1>1 DEF RingClosed, Linked, Created, Successor
<1> QED
  BY <1>1, <1>2

(* A timer interrupt keeps the invariant. *)
LEMMA TimerIInv == IInv /\ timer_irq_handler => IInv'
<1> SUFFICES ASSUME IInv, timer_irq_handler PROVE IInv'
  OBVIOUS
<1>1. /\ machine = "up" /\ walk = NoTask /\ clobbered' \subseteq Tasks
      /\ clobbered \subseteq clobbered' /\ running \in Tasks /\ current_task = running
      /\ clobbered' = {} => pc[running] \notin {"add1", "add2"}
      /\ UNCHANGED <<current_task, running, next, status, saved, fresh, process, tmp,
                     pc, heap_free, machine>>
      /\ ticks' \in Nat
  BY SchedulerAssumption DEF timer_irq_handler, Interruptible, Clobber
<1>2. /\ time_slice' \in [Tasks -> 0 .. QUANTUM] /\ intr' \in BOOLEAN
      /\ walk' \in {NoTask, next[current_task]}
  <2>1. CASE time_slice[current_task] = 0
    <3>1. /\ time_slice' = [time_slice EXCEPT ![current_task] = QUANTUM]
          /\ walk' = next[current_task] /\ intr' = FALSE
      BY <2>1 DEF timer_irq_handler
    <3>2. QUANTUM \in 0 .. QUANTUM
      BY SchedulerAssumption
    <3>3. time_slice' \in [Tasks -> 0 .. QUANTUM]
      BY <3>1, <3>2
    <3>4. intr' \in BOOLEAN
      BY <3>1
    <3> QED
      BY <3>1, <3>3, <3>4
  <2>2. CASE time_slice[current_task] # 0
    <3>1. /\ time_slice' = [time_slice EXCEPT ![current_task] = @ - 1]
          /\ walk' = walk /\ intr' = intr
      BY <2>2 DEF timer_irq_handler
    <3>2. time_slice[current_task] \in 1 .. QUANTUM
      BY <1>1, <2>2, SchedulerAssumption
    <3>3. time_slice[current_task] - 1 \in 0 .. QUANTUM
      BY <3>2, SchedulerAssumption
    <3> QED
      BY <1>1, <3>1, <3>3
  <2> QED
    BY <2>1, <2>2
<1>3. TypeOK' /\ CpuMatchesTaskList' /\ StuckOnlyIf' /\ BootState' /\ OwnStacks'
  BY <1>1, <1>2
<1>4. PointersCreated' /\ WalkAtNext' /\ RegistersLoaded' /\ OneAdder'
  BY <1>1, <1>2
<1>5. RingClosed'
  BY <1>1, <1>2 DEF RingClosed, Linked, Created, Successor
<1> QED
  BY <1>3, <1>4, <1>5

(* A step of the walk, and the switch that ends it, keep the invariant. *)
LEMMA GetNextIInv == IInv /\ get_next_task => IInv'
<1> SUFFICES ASSUME IInv, get_next_task PROVE IInv'
  OBVIOUS
<1>1. /\ machine = "up" /\ walk \in Tasks /\ walk = next[current_task]
      /\ current_task = running /\ running \in Tasks /\ walk # NoTask
      /\ UNCHANGED <<next, time_slice, process, tmp, clobbered, pc, heap_free, machine>>
  BY SchedulerAssumption DEF get_next_task, regs
<1>2. ~ (status[walk] # "READY" /\ walk # current_task)
  BY <1>1
<1>3. /\ status' = IF status[walk] = "READY"
                   THEN [status EXCEPT ![current_task] = "READY", ![walk] = "RUNNING"]
                   ELSE status
      /\ switch_to_task(walk)
  BY <1>2 DEF get_next_task
<1>4. saved' = saved /\ running' = walk /\ current_task' = walk
  BY <1>1, <1>3 DEF switch_to_task
<1>5. walk' = NoTask /\ ticks' = 0 /\ intr' \in BOOLEAN /\ fresh' \subseteq Tasks
  BY <1>3 DEF switch_to_task
<1>6. /\ status' \in [Tasks -> {"UNUSED", "READY", "RUNNING"}]
      /\ \A t \in Tasks : status'[t] = "RUNNING" <=> t = walk
      /\ \A t \in Tasks : status'[t] = "UNUSED" <=> status[t] = "UNUSED"
  BY <1>1, <1>2, <1>3
<1>7. TypeOK' /\ CpuMatchesTaskList' /\ StuckOnlyIf' /\ BootState' /\ OwnStacks'
  BY <1>1, <1>4, <1>5, <1>6
<1>8. PointersCreated' /\ WalkAtNext' /\ RegistersLoaded' /\ OneAdder'
  BY <1>1, <1>4, <1>5, <1>6
<1>9. ASSUME clobbered = {} PROVE RingClosed'
  <2>1. /\ \A t \in Tasks : pc[t] \notin {"add1", "add2"}
        /\ running \in Linked /\ \A u \in Linked : Successor(u) \in Linked
    BY <1>1, <1>9 DEF RingClosed
  <2>2. Linked' = Linked
    BY <1>1, <1>6 DEF Linked, Created
  <2>3. \A t \in Tasks : Successor(t) = next[t] /\ Successor(t)' = next[t]
    BY <1>1, <2>1 DEF Successor
  <2>4. Linked \subseteq Tasks
    BY DEF Linked, Created
  <2>5. running' \in Linked
    BY <1>1, <1>4, <2>1, <2>3
  <2> QED
    BY <1>1, <1>5, <2>1, <2>2, <2>3, <2>4, <2>5 DEF RingClosed
<1>10. clobbered # {} => RingClosed'
  BY <1>1 DEF RingClosed
<1> QED
  BY <1>7, <1>8, <1>9, <1>10

(* The walk starts at an unwritten pointer only if an interrupt hit a call.*)
LEMMA WildIInv == IInv /\ get_next_task_wild => IInv'
<1> SUFFICES ASSUME IInv, get_next_task_wild PROVE IInv'
  OBVIOUS
<1>1. /\ machine = "up" /\ walk = Wild /\ machine' = "astray" /\ walk = next[current_task]
      /\ UNCHANGED <<current_task, running, intr, walk, next, status, time_slice, saved, fresh,
                     process, tmp, clobbered, pc, heap_free, ticks>>
  BY SchedulerAssumption DEF get_next_task_wild, cpu, tcbs, regs
<1>2. clobbered # {}
  <2> SUFFICES ASSUME clobbered = {} PROVE FALSE
    OBVIOUS
  <2>1. running \in Linked /\ Successor(running) \in Linked /\ Successor(running) = next[running]
    BY <1>1, SchedulerAssumption DEF RingClosed, Successor
  <2> QED
    BY <1>1, <2>1, SchedulerAssumption DEF Linked, Created
<1> QED
  BY <1>1, <1>2 DEF RingClosed

(* The invariant is inductive. *)
LEMMA NextIInv == IInv /\ [Next]_vars => IInv'
<1> SUFFICES ASSUME IInv, [Next]_vars PROVE IInv'
  OBVIOUS
<1>1. CASE init_multitasking \/ init_multitasking_stray
  BY <1>1, InitMultitaskingIInv, BootStrayIInv
<1>2. ASSUME NEW t \in Tasks, TaskStep(t) PROVE IInv'
  BY <1>2, CallIInv, CreateTcbIInv, CreateIInv, CreateFailsIInv, LoadIInv, LinkIInv, CloseIInv,
     StrayIInv DEF TaskStep, AddProcess
<1>3. CASE keyboard_irq_handler
  BY <1>3, KeyboardIInv
<1>4. CASE timer_irq_handler
  BY <1>4, TimerIInv
<1>5. CASE Schedule
  BY <1>5, GetNextIInv, WildIInv DEF Schedule
<1>6. CASE Halted \/ UNCHANGED vars
  BY <1>6 DEF Halted, vars, cpu, tcbs, regs, RingClosed, Linked, Created, Successor
<1> QED
  BY <1>1, <1>2, <1>3, <1>4, <1>5, <1>6 DEF Next

(* The invariant holds in every state of the scheduler. *)
THEOREM Invariance == Spec => []IInv
<1>1. Init => IInv
  BY InitIInv
<1>2. IInv /\ [Next]_vars => IInv'
  BY NextIInv
<1> QED
  BY <1>1, <1>2, PTL DEF Spec

(* The scheduler keeps every variable in its type, the slices within       *)
(* 0 .. QUANTUM.                                                           *)
THEOREM TypeCorrect == Spec => []TypeOK
<1>1. IInv => TypeOK
  OBVIOUS
<1> QED
  BY <1>1, Invariance, PTL

(* After every switch current_task, the stack and the RUNNING mark agree,  *)
(* for any number of tasks.                                                *)
THEOREM SwitchKeepsAgreement == Spec => []CpuMatchesTaskList
<1>1. IInv => CpuMatchesTaskList
  OBVIOUS
<1> QED
  BY <1>1, Invariance, PTL

(* Without an interrupt inside kprint, create_process, add_process or      *)
(* init_multitasking the scheduler never follows an unwritten pointer and  *)
(* no task goes astray; the machine stops only for want of a tcb_t.        *)
THEOREM OnlyTornCallsAreFatal == Spec => []StuckOnlyIf
<1>1. IInv => StuckOnlyIf
  OBVIOUS
<1> QED
  BY <1>1, Invariance, PTL

-----------------------------------------------------------------------------
(* The slice that is left and the interrupts that were counted make a      *)
(* quantum; every other task waits with a whole one.                       *)
SliceCounts ==
    /\ machine = "boot" => ticks = 0
    /\ machine = "up" =>
        /\ \A t \in Created \ {current_task} : time_slice[t] = QUANTUM
        /\ IF walk = NoTask
           THEN ticks + time_slice[current_task] = QUANTUM
           ELSE ticks = QUANTUM + 1 /\ time_slice[current_task] = QUANTUM

(* The code of a task keeps the slices, its create_process included. *)
LEMMA TaskKeepsSlices ==
    ASSUME IInv, SliceCounts, NEW t \in Tasks, TaskStep(t)
    PROVE  SliceCounts'
<1>1. /\ UNCHANGED <<current_task, walk, ticks>> /\ machine = "up" /\ current_task = t
      /\ machine' # "boot"
  BY DEF TaskStep, AddProcess, call, kprint, create_process_tcb, create_process,
     create_process_no_stack, create_process_no_tcb, add_process_load, add_process_link,
     add_process_close, stray, Executes, cpu
<1>2. ASSUME NEW p \in Tasks, create_process(t, p) PROVE SliceCounts'
  <2>1. /\ status[p] = "UNUSED" /\ status' = [status EXCEPT ![p] = "READY"]
        /\ time_slice' = [time_slice EXCEPT ![p] = QUANTUM] /\ p # t
    BY <1>1, <1>2 DEF create_process, Executes
  <2>2. Created' = Created \cup {p}
    BY <2>1 DEF Created
  <2>3. time_slice'[t] = time_slice[t]
    BY <2>1
  <2>4. \A u \in Created' \ {t} : time_slice'[u] = QUANTUM
    BY <1>1, <2>1, <2>2 DEF SliceCounts, Created
  <2> QED
    BY <1>1, <2>3, <2>4 DEF SliceCounts
<1>3. CASE UNCHANGED <<status, time_slice>>
  BY <1>1, <1>3 DEF SliceCounts, Created
<1> QED
  BY <1>2, <1>3 DEF TaskStep, AddProcess, call, kprint, create_process_tcb,
     create_process_no_stack, create_process_no_tcb, add_process_load, add_process_link,
     add_process_close, stray, tcbs

(* The timer interrupt counts one off the slice, or renews it. *)
LEMMA TimerKeepsSlices ==
    ASSUME IInv, SliceCounts, timer_irq_handler
    PROVE  SliceCounts'
<1>1. /\ machine = "up" /\ walk = NoTask /\ UNCHANGED <<machine, current_task, status, next>>
      /\ ticks' = ticks + 1 /\ ticks \in Nat /\ current_task \in Tasks
      /\ ticks + time_slice[current_task] = QUANTUM
      /\ time_slice[current_task] \in Nat /\ QUANTUM \in Nat
  BY SchedulerAssumption DEF timer_irq_handler, Interruptible, SliceCounts
<1>2. Created' = Created /\ Created \subseteq Tasks
  BY <1>1 DEF Created
<1>3. CASE time_slice[current_task] = 0
  <2>1. /\ time_slice' = [time_slice EXCEPT ![current_task] = QUANTUM]
        /\ walk' = next[current_task]
    BY <1>3 DEF timer_irq_handler
  <2>2. walk' # NoTask
    BY <1>1, <2>1, SchedulerAssumption
  <2>3. ticks' = QUANTUM + 1 /\ time_slice'[current_task] = QUANTUM
    BY <1>1, <1>3, <2>1
  <2>4. \A t \in Created \ {current_task} : time_slice'[t] = QUANTUM
    BY <1>1, <1>2, <2>1 DEF SliceCounts
  <2> QED
    BY <1>1, <1>2, <2>2, <2>3, <2>4 DEF SliceCounts
<1>4. CASE time_slice[current_task] # 0
  <2>1. time_slice' = [time_slice EXCEPT ![current_task] = @ - 1] /\ walk' = walk
    BY <1>4 DEF timer_irq_handler
  <2>2. ticks' + time_slice'[current_task] = QUANTUM
    BY <1>1, <2>1
  <2>3. \A t \in Created \ {current_task} : time_slice'[t] = QUANTUM
    BY <1>1, <1>2, <2>1 DEF SliceCounts
  <2> QED
    BY <1>1, <1>2, <2>1, <2>2, <2>3 DEF SliceCounts
<1> QED
  BY <1>3, <1>4

(* The switch goes to a created task, whose slice is whole. *)
LEMMA SwitchKeepsSlices ==
    ASSUME IInv, SliceCounts, get_next_task
    PROVE  SliceCounts' /\ ticks = QUANTUM + 1
<1>1. /\ machine = "up" /\ walk \in Tasks /\ walk = next[current_task]
      /\ current_task = running /\ running \in Tasks /\ walk # NoTask
      /\ UNCHANGED <<time_slice, machine>>
  BY SchedulerAssumption DEF get_next_task
<1>2. /\ ~ (status[walk] # "READY" /\ walk # current_task) /\ status[walk] # "UNUSED"
  BY <1>1
<1>3. /\ status' = IF status[walk] = "READY"
                   THEN [status EXCEPT ![current_task] = "READY", ![walk] = "RUNNING"]
                   ELSE status
      /\ current_task' = walk /\ walk' = NoTask /\ ticks' = 0
  BY <1>1, <1>2 DEF get_next_task, switch_to_task
<1>4. Created' = Created /\ walk \in Created /\ Created \subseteq Tasks
  BY <1>1, <1>2, <1>3 DEF Created
<1>5. \A t \in Created \cup {current_task} : time_slice[t] = QUANTUM
  BY <1>1 DEF SliceCounts
<1>6. 0 + QUANTUM = QUANTUM
  BY SchedulerAssumption
<1> QED
  BY <1>1, <1>3, <1>4, <1>5, <1>6 DEF SliceCounts

(* A task keeps the CPU for QUANTUM + 1 timer interrupts, whatever it and  *)
(* the other tasks do, and whatever the ring looks like.                   *)
THEOREM TasksGetFullQuantum == Spec => FullQuantum
<1> DEFINE Switch == running' # running /\ machine = "up" => ticks = QUANTUM + 1
<1>1. Init => SliceCounts
  BY DEF Init, SliceCounts
<1>2. IInv /\ SliceCounts /\ [Next]_vars => SliceCounts' /\ [Switch]_vars
  <2> SUFFICES ASSUME IInv, SliceCounts, [Next]_vars PROVE SliceCounts' /\ [Switch]_vars
    OBVIOUS
  <2>1. CASE init_multitasking
    <3>1. machine = "boot" /\ walk = NoTask /\ ticks' = ticks /\ ticks = 0
      BY <2>1 DEF init_multitasking, SliceCounts
    <3>2. CASE heap_free < TCB_BLOCKS
      BY <2>1, <3>1, <3>2 DEF init_multitasking, SliceCounts
    <3>3. CASE ~ (heap_free < TCB_BLOCKS)
      <4>1. /\ machine' = "up" /\ current_task' = Boot /\ walk' = NoTask
            /\ status' = [status EXCEPT ![Boot] = "RUNNING"]
            /\ time_slice' = [time_slice EXCEPT ![Boot] = QUANTUM]
        BY <2>1, <3>1, <3>3 DEF init_multitasking
      <4>2. Created' = {Boot}
        BY <3>1, <4>1, SchedulerAssumption DEF Created
      <4>3. ticks' + time_slice'[Boot] = QUANTUM
        BY <3>1, <4>1, SchedulerAssumption
      <4> QED
        BY <3>1, <4>1, <4>2, <4>3 DEF SliceCounts
    <3> QED
      BY <3>2, <3>3
  <2>2. ASSUME NEW t \in Tasks, TaskStep(t) PROVE SliceCounts' /\ [Switch]_vars
    <3>1. running' = running
      BY <2>2 DEF TaskStep, AddProcess, call, kprint, create_process_tcb, create_process,
         create_process_no_stack, create_process_no_tcb, add_process_load, add_process_link,
         add_process_close, stray, cpu
    <3> QED
      BY <2>2, <3>1, TaskKeepsSlices
  <2>3. CASE \/ keyboard_irq_handler \/ get_next_task_wild \/ init_multitasking_stray
             \/ Halted \/ UNCHANGED vars
    <3>1. /\ UNCHANGED <<running, current_task, walk, ticks, status, time_slice>>
          /\ machine' \in {machine, "astray"}
      BY <2>3 DEF init_multitasking_stray, keyboard_irq_handler, get_next_task_wild, Halted, vars, cpu, tcbs
    <3> QED
      BY <3>1 DEF SliceCounts, Created
  <2>4. CASE timer_irq_handler
    <3>1. running' = running
      BY <2>4 DEF timer_irq_handler
    <3> QED
      BY <2>4, <3>1, TimerKeepsSlices
  <2>5. CASE get_next_task
    BY <2>5, SwitchKeepsSlices
  <2> QED
    BY <2>1, <2>2, <2>3, <2>4, <2>5 DEF Next, Schedule
<1> QED
  BY <1>1, <1>2, Invariance, PTL DEF Spec, FullQuantum

-----------------------------------------------------------------------------
(* at numbers the linked tasks from current_task on, in the order of their *)
(* successors, and the last one leads back to the first.                   *)
After(n, i) == IF i = n - 1 THEN 0 ELSE i + 1

Order(n, at) ==
    /\ n \in Nat \ {0}
    /\ at \in [0 .. n - 1 -> Linked]
    /\ \A t \in Linked : \E i \in 0 .. n - 1 : at[i] = t
    /\ \A i, j \in 0 .. n - 1 : at[i] = at[j] => i = j
    /\ at[0] = current_task
    /\ \A i \in 0 .. n - 1 : Successor(at[i]) = at[After(n, i)]

(* The ring is one cycle, unless an interrupt hit a call. *)
RingOrdered ==
    machine = "up" /\ clobbered = {} => \E n, at : Order(n, at)

(* A nonempty set of naturals has a least element. *)
LEMMA LeastNatural ==
    ASSUME NEW S \in SUBSET Nat, S # {}
    PROVE  \E m \in S : \A x \in S : m <= x
<1> DEFINE R == {ss \in Nat \X Nat : ss[1] < ss[2]}
<1>1. IsWellFoundedOn(R, Nat)
  BY NatLessThanWellFounded, Zenon DEF OpToRel
<1>2. PICK m \in S : \A y \in S : ~ (<<y, m>> \in R)
  <2> HIDE DEF R
  <2> QED BY <1>1, WFMin, Zenon
<1>3. ASSUME NEW y \in S, ~ (m <= y) PROVE FALSE
  <2>1. m \in Nat /\ y \in Nat /\ y < m
    BY <1>3
  <2>2. <<y, m>> \in R
    BY <2>1
  <2> QED
    BY <1>2, <2>2
<1> QED
  BY <1>3

(* The remainder of a sum of a multiple and a small number, ... *)
LEMMA ModOfSum ==
    ASSUME NEW d \in Nat \ {0}, NEW x \in Nat, NEW y \in 0 .. d - 1
    PROVE  (x * d + y) % d = y
<1> DEFINE z == x * d + y
           w == z \div d
           wd == w * d
           xd == x * d
<1>1. z \in Nat /\ z = wd + (z % d) /\ z % d \in 0 .. d - 1 /\ w \in Nat
  OBVIOUS
<1>2. ASSUME NEW u \in Nat, NEW v \in Nat, u < v PROVE u * d + d <= v * d
  <2>1. u + 1 <= v
    BY <1>2
  <2>2. \A a, b, c \in Nat : a <= b => a * c <= b * c
    OBVIOUS
  <2>3. (u + 1) * d <= v * d
    BY <2>1, <2>2
  <2> QED
    BY <2>3
<1>3. wd \in Nat /\ xd \in Nat /\ z = xd + y
  BY <1>1
<1>4. (w < x => wd + d <= xd) /\ (x < w => xd + d <= wd)
  BY <1>1, <1>2
<1>5. wd = xd
  <2> HIDE DEF w, wd, xd, z
  <2>1. ~ (w < x) /\ ~ (x < w)
    BY <1>1, <1>3, <1>4
  <2>2. w = x
    BY <1>1, <2>1
  <2> QED
    BY <2>2 DEF wd, xd
<1> HIDE DEF w, wd, xd, z
<1>6. z % d = y
  BY <1>1, <1>3, <1>5
<1> QED
  BY <1>6 DEF z

(* ... and of a successor. *)
LEMMA ModOfSuccessor ==
    ASSUME NEW d \in Nat \ {0}, NEW k \in Nat
    PROVE  (k + 1) % d = IF k % d = d - 1 THEN 0 ELSE (k % d) + 1
<1> DEFINE q == k \div d
           r == k % d
<1>1. k = q * d + r /\ r \in 0 .. d - 1 /\ q \in Nat
  OBVIOUS
<1>2. CASE r = d - 1
  <2>1. k + 1 = (q + 1) * d + 0 /\ q + 1 \in Nat /\ 0 \in 0 .. d - 1
    BY <1>1, <1>2
  <2> QED
    BY <1>2, <2>1, ModOfSum
<1>3. CASE r # d - 1
  <2>1. k + 1 = q * d + (r + 1) /\ q \in Nat /\ r + 1 \in 0 .. d - 1
    BY <1>1, <1>3
  <2> QED
    BY <1>3, <2>1, ModOfSum
<1> QED
  BY <1>2, <1>3

(* Following the successors for n steps visits the numbered tasks in order.*)
LEMMA RingFollowsOrder ==
    ASSUME NEW n, NEW at, Order(n, at)
    PROVE  /\ \A i \in 0 .. n - 1 : Ring[i] = at[i]
           /\ Ring[n] = at[0]
<1> DEFINE f == [k \in Nat |-> at[k % n]]
           Steps(g) == g = [k \in Nat |-> IF k = 0 THEN current_task ELSE Successor(g[k - 1])]
<1>1. n \in Nat \ {0} /\ at[0] = current_task
  BY DEF Order
<1>2. \A k \in Nat : k % n \in 0 .. n - 1
  BY <1>1
<1>3. \A k \in Nat : (k + 1) % n = After(n, k % n)
  BY <1>1, ModOfSuccessor DEF After
<1>4. Steps(f)
  <2>1. f[0] = current_task
    <3>1. 0 % n = 0
      BY <1>1
    <3> QED
      BY <1>1, <3>1
  <2>2. ASSUME NEW k \in Nat, k # 0 PROVE f[k] = Successor(f[k - 1])
    <3>1. k - 1 \in Nat /\ (k - 1) + 1 = k
      BY <2>2
    <3>2. f[k] = at[After(n, (k - 1) % n)]
      BY <1>3, <3>1
    <3>3. f[k - 1] = at[(k - 1) % n] /\ (k - 1) % n \in 0 .. n - 1
      BY <1>2, <3>1
    <3> QED
      BY <3>2, <3>3 DEF Order
  <2>3. f = [k \in Nat |-> f[k]]
    OBVIOUS
  <2> HIDE DEF f
  <2>4. \A k \in Nat : f[k] = IF k = 0 THEN current_task ELSE Successor(f[k - 1])
    BY <2>1, <2>2
  <2> QED
    BY <2>3, <2>4
<1>5. Steps(Ring)
  <2>1. Ring = CHOOSE g : Steps(g)
    BY DEF Ring
  <2> HIDE DEF Steps
  <2> QED
    BY <1>4, <2>1
<1>6. ASSUME NEW k \in Nat PROVE Ring[k] = f[k]
  <2> SUFFICES ASSUME Ring[k] # f[k] PROVE FALSE
    OBVIOUS
  <2> DEFINE Differ == {x \in Nat : Ring[x] # f[x]}
  <2> HIDE DEF f
  <2>1. PICK m \in Differ : \A x \in Differ : m <= x
    BY LeastNatural
  <2>2. m \in Nat /\ Ring[m] # f[m]
    OBVIOUS
  <2>3. m # 0
    BY <1>4, <1>5, <2>2
  <2>4. m - 1 \in Nat /\ m - 1 \notin Differ
    BY <2>1, <2>2, <2>3
  <2>5. Ring[m - 1] = f[m - 1]
    BY <2>4
  <2>6. f[m] = Successor(f[m - 1]) /\ Ring[m] = Successor(Ring[m - 1])
    BY <1>4, <1>5, <2>2, <2>3
  <2> QED
    BY <2>2, <2>5, <2>6
<1>7. \A i \in 0 .. n - 1 : i \in Nat /\ i % n = i
  BY <1>1
<1>8. n % n = 0
  BY <1>1
<1> QED
  BY <1>1, <1>6, <1>7, <1>8

(* A step that moves neither the linked tasks nor their successors keeps   *)
(* the order.                                                              *)
LEMMA OrderKept ==
    ASSUME RingOrdered, machine = "up", clobbered = {},
           Linked' = Linked, current_task' = current_task,
           \A t \in Linked : Successor(t)' = Successor(t)
    PROVE  RingOrdered'
<1>1. PICK n, at : Order(n, at)
  BY DEF RingOrdered
<1>2. Order(n, at)'
  BY <1>1 DEF Order
<1> QED
  BY <1>2 DEF RingOrdered

(* add_process inserts the new task behind the running one. *)
LEMMA CloseKeepsOrder ==
    ASSUME IInv, RingOrdered, NEW t \in Tasks, add_process_close(t), clobbered = {}
    PROVE  RingOrdered'
<1>0. PICK p : p = process[t]
  OBVIOUS
<1>1. /\ machine = "up" /\ running = t /\ current_task = t /\ pc[t] = "add2" /\ p \in Tasks
      /\ next' = [next EXCEPT ![p] = tmp[t]]
      /\ process' = [process EXCEPT ![t] = NoTask]
      /\ pc' = [pc EXCEPT ![t] = "main"]
      /\ UNCHANGED <<current_task, running, status>>
  BY <1>0 DEF add_process_close, Executes, cpu
<1>2. next[t] = p /\ t \in Linked /\ Linked \subseteq Tasks
  BY <1>0, <1>1 DEF RingClosed, Linked, Created
<1>3. Linked' = Linked \cup {p} /\ p \notin Linked
  BY <1>0, <1>1, SchedulerAssumption DEF Linked, Created
<1>4. /\ Successor(t) = tmp[t] /\ Successor(t)' = p /\ Successor(p)' = tmp[t]
      /\ \A u \in Linked \ {t} : Successor(u)' = Successor(u)
  <2>1. t # p
    BY <1>2, <1>3
  <2> QED
    BY <1>0, <1>1, <1>2, <1>3, <2>1 DEF Successor
<1>5. PICK n, at : Order(n, at)
  BY <1>1 DEF RingOrdered
<1>6. /\ n \in Nat \ {0} /\ at \in [0 .. n - 1 -> Linked]
      /\ \A u \in Linked : \E i \in 0 .. n - 1 : at[i] = u
      /\ \A i, j \in 0 .. n - 1 : at[i] = at[j] => i = j
      /\ at[0] = t
      /\ \A i \in 0 .. n - 1 : Successor(at[i]) = at[After(n, i)]
  BY <1>1, <1>5 DEF Order
<1> DEFINE new == [i \in 0 .. n |-> IF i = 0 THEN t ELSE IF i = 1 THEN p ELSE at[i - 1]]
<1>7. /\ n + 1 \in Nat \ {0} /\ (n + 1) - 1 = n /\ 0 \in 0 .. n /\ 1 \in 0 .. n
      /\ \A i \in 2 .. n : i \in 0 .. n /\ i # 0 /\ i # 1 /\ i - 1 \in 1 .. n - 1
      /\ \A i \in 1 .. n - 1 : i + 1 \in 2 .. n /\ (i + 1) - 1 = i
      /\ \A i \in 0 .. n : i = 0 \/ i = 1 \/ i \in 2 .. n
      /\ \A i \in 0 .. n - 1 : i = 0 \/ i \in 1 .. n - 1
  BY <1>6
<1>8. /\ new[0] = t /\ new[1] = p
      /\ \A i \in 2 .. n : new[i] = at[i - 1] /\ new[i] \in Linked \ {t}
  <2>1. ASSUME NEW i \in 2 .. n PROVE new[i] = at[i - 1] /\ new[i] \in Linked \ {t}
    <3>1. new[i] = at[i - 1] /\ i - 1 \in 0 .. n - 1 /\ i - 1 # 0 /\ 0 \in 0 .. n - 1
      BY <1>6, <1>7
    <3>2. at[i - 1] # at[0]
      BY <1>6, <3>1
    <3> QED
      BY <1>6, <3>1, <3>2
  <2> QED
    BY <1>7, <2>1
<1>9. new \in [0 .. n -> Linked']
  <2>1. \A i \in 0 .. n : new[i] \in Linked'
    BY <1>2, <1>3, <1>7, <1>8
  <2> QED
    BY <2>1
<1> HIDE DEF new
<1>10. ASSUME NEW u \in Linked' PROVE \E i \in 0 .. n : new[i] = u
  <2>1. CASE u = p
    BY <1>7, <1>8, <2>1
  <2>2. CASE u = t
    BY <1>7, <1>8, <2>2
  <2>3. CASE u # p /\ u # t
    <3>1. PICK i \in 0 .. n - 1 : at[i] = u
      BY <1>3, <1>6, <2>3
    <3>2. i \in 1 .. n - 1
      BY <1>6, <1>7, <2>3, <3>1
    <3>3. new[i + 1] = u /\ i + 1 \in 0 .. n
      BY <1>7, <1>8, <3>1, <3>2
    <3> QED
      BY <3>3
  <2> QED
    BY <2>1, <2>2, <2>3
<1>11. ASSUME NEW i \in 0 .. n, NEW j \in 0 .. n, new[i] = new[j] PROVE i = j
  <2>1. CASE i \in 2 .. n /\ j \in 2 .. n
    <3>1. at[i - 1] = at[j - 1] /\ i - 1 \in 0 .. n - 1 /\ j - 1 \in 0 .. n - 1
      BY <1>6, <1>7, <1>8, <1>11, <2>1
    <3>2. i - 1 = j - 1
      BY <1>6, <3>1
    <3> QED
      BY <3>2
  <2>2. t # p
    BY <1>2, <1>3
  <2> QED
    BY <1>3, <1>7, <1>8, <1>11, <2>1, <2>2
<1>12. ASSUME NEW i \in 0 .. n PROVE Successor(new[i])' = new[After(n + 1, i)]
  <2>1. CASE i = 0
    <3>1. After(n + 1, 0) = 1
      BY <1>6 DEF After
    <3> QED
      BY <1>4, <1>8, <2>1, <3>1
  <2>2. CASE i = 1
    <3>1. tmp[t] = at[After(n, 0)]
      BY <1>4, <1>6
    <3>2. CASE n = 1
      <4>1. After(n, 0) = 0 /\ After(n + 1, 1) = 0
        BY <3>2 DEF After
      <4> QED
        BY <1>4, <1>6, <1>8, <2>2, <3>1, <4>1
    <3>3. CASE n # 1
      <4>1. After(n, 0) = 1 /\ After(n + 1, 1) = 2 /\ 2 \in 2 .. n /\ 2 - 1 = 1
        BY <1>6, <3>3 DEF After
      <4> QED
        BY <1>4, <1>8, <2>2, <3>1, <4>1
    <3> QED
      BY <3>2, <3>3
  <2>3. CASE i \in 2 .. n
    <3>1. /\ new[i] = at[i - 1] /\ new[i] \in Linked \ {t} /\ i - 1 \in 0 .. n - 1
      BY <1>6, <1>7, <1>8, <2>3
    <3>2. Successor(new[i])' = at[After(n, i - 1)]
      BY <1>4, <1>6, <3>1
    <3>3. CASE i = n
      <4>1. After(n, i - 1) = 0 /\ After(n + 1, i) = 0
        BY <1>6, <3>3 DEF After
      <4> QED
        BY <1>6, <1>8, <3>2, <4>1
    <3>4. CASE i # n
      <4>1. After(n, i - 1) = i /\ After(n + 1, i) = i + 1 /\ i + 1 \in 2 .. n /\ (i + 1) - 1 = i
        BY <1>6, <2>3, <3>4 DEF After
      <4> QED
        BY <1>8, <3>2, <4>1
    <3> QED
      BY <3>3, <3>4
  <2> QED
    BY <1>7, <2>1, <2>2, <2>3
<1>13. Order(n + 1, new)'
  <2>1. new[0] = current_task'
    BY <1>1, <1>8
  <2> QED
    BY <1>7, <1>9, <1>10, <1>11, <1>12, <2>1 DEF Order
<1> QED
  BY <1>13 DEF RingOrdered

(* A switch turns the ring by one. *)
LEMMA SwitchKeepsOrder ==
    ASSUME IInv, RingOrdered, get_next_task, clobbered = {}
    PROVE  RingOrdered'
<1>1. /\ machine = "up" /\ walk \in Tasks /\ walk = next[current_task]
      /\ current_task = running /\ running \in Tasks /\ walk # NoTask
      /\ UNCHANGED <<next, process, tmp, clobbered, pc, machine>>
  BY SchedulerAssumption DEF get_next_task, regs
<1>2. ~ (status[walk] # "READY" /\ walk # current_task) /\ status[walk] # "UNUSED"
  BY <1>1
<1>3. /\ status' = IF status[walk] = "READY"
                   THEN [status EXCEPT ![current_task] = "READY", ![walk] = "RUNNING"]
                   ELSE status
      /\ current_task' = walk
  BY <1>1, <1>2 DEF get_next_task, switch_to_task
<1>4. \A t \in Tasks : pc[t] \notin {"add1", "add2"}
  BY <1>1 DEF RingClosed
<1>5. Linked' = Linked /\ Linked \subseteq Tasks
  <2>1. Created' = Created
    BY <1>1, <1>2, <1>3 DEF Created
  <2> QED
    BY <1>1, <2>1 DEF Linked, Created
<1>6. \A t \in Tasks : Successor(t) = next[t] /\ Successor(t)' = next[t]
  BY <1>1, <1>4 DEF Successor
<1>7. PICK n, at : Order(n, at)
  BY <1>1 DEF RingOrdered
<1>8. /\ n \in Nat \ {0} /\ at \in [0 .. n - 1 -> Linked]
      /\ \A u \in Linked : \E i \in 0 .. n - 1 : at[i] = u
      /\ \A i, j \in 0 .. n - 1 : at[i] = at[j] => i = j
      /\ at[0] = current_task
      /\ \A i \in 0 .. n - 1 : Successor(at[i]) = at[After(n, i)]
  BY <1>7 DEF Order
<1>9. \A i \in 0 .. n - 1 : After(n, i) \in 0 .. n - 1
  BY <1>8 DEF After
<1> DEFINE new == [i \in 0 .. n - 1 |-> at[After(n, i)]]
<1>10. new \in [0 .. n - 1 -> Linked'] /\ \A i \in 0 .. n - 1 : new[i] = at[After(n, i)]
  BY <1>5, <1>8, <1>9
<1> HIDE DEF new
<1>11. ASSUME NEW u \in Linked' PROVE \E i \in 0 .. n - 1 : new[i] = u
  <2>1. PICK i \in 0 .. n - 1 : at[i] = u
    BY <1>5, <1>8
  <2>2. PICK j \in 0 .. n - 1 : After(n, j) = i
    <3> DEFINE j == IF i = 0 THEN n - 1 ELSE i - 1
    <3>1. j \in 0 .. n - 1 /\ After(n, j) = i
      BY <1>8 DEF After
    <3> QED
      BY <3>1
  <2> QED
    BY <1>10, <2>1, <2>2
<1>12. ASSUME NEW i \in 0 .. n - 1, NEW j \in 0 .. n - 1, new[i] = new[j] PROVE i = j
  <2>1. After(n, i) = After(n, j)
    BY <1>8, <1>9, <1>10, <1>12
  <2> QED
    BY <1>8, <2>1 DEF After
<1>13. ASSUME NEW i \in 0 .. n - 1 PROVE Successor(new[i])' = new[After(n, i)]
  <2>1. new[i] = at[After(n, i)] /\ After(n, i) \in 0 .. n - 1 /\ new[i] \in Tasks
    BY <1>5, <1>8, <1>9, <1>10, SMTT(30)
  <2>2. Successor(new[i])' = at[After(n, After(n, i))]
    BY <1>6, <1>8, <2>1
  <2> QED
    BY <1>10, <2>1, <2>2
<1>14. new[0] = current_task'
  <2>1. 0 \in 0 .. n - 1
    BY <1>8
  <2>2. new[0] = Successor(at[0])
    BY <1>8, <1>10, <2>1
  <2>3. Successor(current_task) = next[current_task]
    BY <1>1, <1>6
  <2> QED
    BY <1>1, <1>3, <1>8, <2>2, <2>3
<1>15. Order(n, new)'
  BY <1>8, <1>10, <1>11, <1>12, <1>13, <1>14 DEF Order
<1> QED
  BY <1>15 DEF RingOrdered

(* Every step keeps the ring one cycle, or is an interrupt in a call. *)
LEMMA NextKeepsOrder == IInv /\ RingOrdered /\ [Next]_vars => RingOrdered'
<1> SUFFICES ASSUME IInv, RingOrdered, [Next]_vars, machine' = "up", clobbered' = {}
             PROVE  RingOrdered'
  BY DEF RingOrdered
<1>1. CASE init_multitasking
  <2>1. /\ current_task' = Boot /\ running' = Boot
        /\ next' = [next EXCEPT ![Boot] = Boot]
        /\ status' = [status EXCEPT ![Boot] = "RUNNING"]
        /\ process' = process /\ pc' = pc
        /\ status = [t \in Tasks |-> "UNUSED"] /\ pc = [t \in Tasks |-> "main"]
        /\ process = [t \in Tasks |-> NoTask]
    BY <1>1 DEF init_multitasking, regs
  <2>2. Linked' = {Boot}
    BY <2>1, SchedulerAssumption DEF Linked, Created
  <2>3. Successor(Boot)' = Boot
    BY <2>1, SchedulerAssumption DEF Successor
  <2> DEFINE at == [i \in 0 .. 1 - 1 |-> Boot]
  <2>4. \A i : i \in 0 .. 1 - 1 <=> i = 0
    OBVIOUS
  <2>5. After(1, 0) = 0
    BY DEF After
  <2>6. Order(1, at)'
    BY <2>1, <2>2, <2>3, <2>4, <2>5 DEF Order
  <2> QED
    BY <2>6 DEF RingOrdered
<1>2. ASSUME NEW t \in Tasks, TaskStep(t) PROVE RingOrdered'
  <2>1. machine = "up" /\ clobbered = {} /\ running = t /\ current_task = t
        /\ UNCHANGED <<current_task, running>>
    BY <1>2 DEF TaskStep, AddProcess, call, kprint, create_process_tcb, create_process,
       create_process_no_stack, create_process_no_tcb, add_process_load, add_process_link,
       add_process_close, stray, Executes, cpu, regs
  <2>2. ASSUME /\ UNCHANGED <<next, status, process, tmp>>
               /\ pc[t] # "add2"
               /\ \E to \in {"main", "kprint", "create_process", "allocated", "panic"} :
                      pc' = [pc EXCEPT ![t] = to]
        PROVE RingOrdered'
    <3>1. Linked' = Linked /\ Linked \subseteq Tasks
      BY <2>2 DEF Linked, Created
    <3>2. \A u \in Linked : Successor(u)' = Successor(u)
      BY <2>1, <2>2, <3>1 DEF Successor
    <3> QED
      BY <2>1, <3>1, <3>2, OrderKept
  <2>3. ASSUME NEW p \in Tasks, create_process(t, p) PROVE RingOrdered'
    <3>1. Linked' = Linked /\ Linked \subseteq Tasks
      BY <2>3, CreateKeepsLinked DEF Linked, Created
    <3>2. \A u \in Linked : Successor(u)' = Successor(u)
      BY <2>1, <2>3, <3>1 DEF create_process, Executes, Successor
    <3> QED
      BY <2>1, <3>1, <3>2, OrderKept
  <2>4. CASE \/ \E op \in {"kprint", "create_process"} : call(t, op)
             \/ kprint(t) \/ create_process_tcb(t) \/ create_process_no_stack(t)
             \/ create_process_no_tcb(t) /\ machine' = "up"
    <3>1. UNCHANGED <<next, status, process, tmp>> /\ pc[t] # "add2"
      BY <2>4 DEF call, kprint, create_process_tcb, create_process_no_stack,
         create_process_no_tcb, Executes, tcbs, regs
    <3>2. \E to \in {"main", "kprint", "create_process", "allocated", "panic"} :
              pc' = [pc EXCEPT ![t] = to]
      BY <2>4 DEF call, kprint, create_process_tcb, create_process_no_stack, create_process_no_tcb
    <3> QED
      BY <2>2, <3>1, <3>2
  <2>5. CASE add_process_load(t)
    <3>1. Linked' = Linked /\ Linked \subseteq Tasks
      BY <2>5 DEF add_process_load, tcbs, Linked, Created
    <3>2. \A u \in Linked : Successor(u)' = Successor(u)
      BY <2>1, <2>5, <3>1 DEF add_process_load, Executes, tcbs, Successor
    <3> QED
      BY <2>1, <3>1, <3>2, OrderKept
  <2>6. CASE add_process_link(t)
    <3>1. Linked' = Linked /\ Linked \subseteq Tasks
      BY <2>6 DEF add_process_link, regs, Linked, Created
    <3>2. tmp[t] = next[t]
      BY <2>1, <2>6 DEF add_process_link, Executes, RingClosed
    <3>3. \A u \in Linked : Successor(u)' = Successor(u)
      BY <2>1, <2>6, <3>1, <3>2 DEF add_process_link, Executes, regs, Successor
    <3> QED
      BY <2>1, <3>1, <3>3, OrderKept
  <2>7. CASE add_process_close(t)
    BY <2>1, <2>7, CloseKeepsOrder
  <2>8. CASE stray(t)
    BY <2>8 DEF stray
  <2> QED
    BY <1>2, <2>3, <2>4, <2>5, <2>6, <2>7, <2>8 DEF TaskStep, AddProcess
<1>3. CASE keyboard_irq_handler \/ timer_irq_handler \/ Halted \/ UNCHANGED vars
  <2>1. /\ machine = "up" /\ clobbered = {}
        /\ UNCHANGED <<current_task, running, next, status, process, tmp, pc>>
    BY <1>3 DEF keyboard_irq_handler, timer_irq_handler, Interruptible, Clobber, Halted, vars,
       cpu, tcbs, regs
  <2> QED
    BY <2>1, OrderKept DEF Linked, Created, Successor
<1>4. CASE get_next_task
  BY <1>4, SwitchKeepsOrder DEF get_next_task, regs
<1>5. CASE get_next_task_wild
  BY <1>5 DEF get_next_task_wild
<1>6. CASE init_multitasking_stray
  BY <1>6 DEF init_multitasking_stray
<1> QED
  BY <1>1, <1>2, <1>3, <1>4, <1>5, <1>6 DEF Next, Schedule

(* A numbering counts the linked tasks. *)
LEMMA OrderCounts ==
    ASSUME NEW n, NEW at, Order(n, at)
    PROVE  Cardinality(Linked) = n
<1>1. n \in Nat \ {0} /\ at \in [0 .. n - 1 -> Linked]
  BY DEF Order
<1>2. IsFiniteSet(0 .. n - 1) /\ Cardinality(0 .. n - 1) = n
  <2>1. 0 \in Int /\ n - 1 \in Int /\ ~ (0 > n - 1) /\ (n - 1) - 0 + 1 = n
    BY <1>1
  <2> HIDE DEF Order
  <2> QED
    BY <2>1, FS_Interval
<1>3. at \in Bijection(0 .. n - 1, Linked)
  BY <1>1 DEF Order, Bijection, Injection, Surjection, IsInjective
<1>4. ExistsBijection(0 .. n - 1, Linked)
  BY <1>3 DEF ExistsBijection
<1> QED
  BY <1>2, <1>4, FS_Bijection

(* As long as no interrupt hits a call, the ring visits every linked       *)
(* task exactly once and comes back to current_task, for any number of     *)
(* tasks: add_process drops none of them.                                  *)
THEOREM RingVisitsAll == Spec => []RingIntact
<1>1. Init => RingOrdered
  BY DEF Init, RingOrdered
<1>2. RingOrdered => RingIntact
  <2> SUFFICES ASSUME NEW n, NEW at, Order(n, at)
               PROVE  /\ {Ring[i] : i \in 0 .. Cardinality(Linked) - 1} = Linked
                      /\ Ring[Cardinality(Linked)] = current_task
    BY DEF RingOrdered, RingIntact
  <2>1. Cardinality(Linked) = n
    BY OrderCounts
  <2>2. (\A i \in 0 .. n - 1 : Ring[i] = at[i]) /\ Ring[n] = at[0]
    BY RingFollowsOrder
  <2>3. /\ \A i \in 0 .. n - 1 : at[i] \in Linked
        /\ \A t \in Linked : \E i \in 0 .. n - 1 : at[i] = t
        /\ at[0] = current_task
    BY DEF Order
  <2>4. {Ring[i] : i \in 0 .. n - 1} = Linked
    BY <2>2, <2>3
  <2> QED
    BY <2>1, <2>2, <2>3, <2>4
<1>3. IInv /\ RingOrdered /\ [Next]_vars => RingOrdered'
  BY NextKeepsOrder
<1> QED
  BY <1>1, <1>2, <1>3, Invariance, PTL DEF Spec
=============================================================================
