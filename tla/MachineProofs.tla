--------------------------- MODULE MachineProofs ---------------------------
(***************************************************************************)
(* Proofs about the machine around the kernel: the application processors  *)
(* (Smp), the boot and its interrupts (Boot), the timers (Timer), the disk *)
(* (Disk), the firmware tables (Acpi) and the I/O APIC (IoApic), for every *)
(* value of their constants.  Each part begins with its invariant.         *)
(***************************************************************************)
EXTENDS Smp, Boot, Timer, Disk, Acpi, IoApic, BitmapProofs, FiniteSetTheorems, SequenceTheorems,
        TLAPS

(* Application processors: smp.c.  The invariant says who holds the lock,  *)
(* that its holder's register still equals ap_done when it stores, and     *)
(* that no processor moves before smp_init set the counter.                *)

Inside == {"load", "store", "unlock"}

(* The lock is held exactly by the processor between lock and unlock. *)
LockHeld == locked <=> \E c \in Aps : pc[c] \in Inside

(* The register of a processor about to store is not stale. *)
RegisterFresh == \A c \in Aps : pc[c] = "store" => loaded[c] = ap_done

(* Nothing moves before smp_init. *)
Quiet == bsp = "start" => goto_address = {} /\ i = 0

(* A processor leaves its loop only after its goto_address was written. *)
Called == \A c \in Aps : pc[c] # "parked" => c \in goto_address

LoopBounds == bsp \in {"boot", "wait", "done"} => i >= 1

IInv ==
    /\ TypeOK
    /\ CountExact
    /\ MutualExclusion
    /\ LockHeld
    /\ RegisterFresh
    /\ Quiet
    /\ Called
    /\ LoopBounds
    /\ AllCheckedIn

-----------------------------------------------------------------------------
(* The cpus other than the boot processor are cpu_count - 1. *)
LEMMA ApCount ==
    ASSUME NEW b \in Cpus
    PROVE  IsFiniteSet(Cpus \ {b}) /\ Cardinality(Cpus \ {b}) = cpu_count - 1
<1>1. IsFiniteSet(Cpus) /\ Cardinality(Cpus) = cpu_count
  <2>1. cpu_count \in Nat /\ cpu_count >= 1
    BY SmpAssumption
  <2>2. IsFiniteSet(0 .. cpu_count - 1) /\ Cardinality(0 .. cpu_count - 1) = cpu_count
    BY <2>1, FS_Interval
  <2> QED
    BY <2>2 DEF Cpus
<1> QED
  BY <1>1, FS_RemoveElement

(* Pending is a finite set of at most cpu_count - 1 processors. *)
LEMMA PendingFinite ==
    ASSUME TypeOK
    PROVE  /\ IsFiniteSet(Pending)
           /\ Cardinality(Pending) \in 0 .. cpu_count - 1
           /\ Cardinality(Pending) = 0 <=> Pending = {}
<1>1. IsFiniteSet(Aps) /\ Cardinality(Aps) = cpu_count - 1
  BY ApCount DEF Aps, TypeOK
<1>2. Pending \subseteq Aps
  BY DEF Pending
<1>3. IsFiniteSet(Pending) /\ Cardinality(Pending) <= Cardinality(Aps)
  BY <1>1, <1>2, FS_Subset, FS_CardinalityType
<1>4. Cardinality(Pending) \in Nat
  BY <1>3, FS_CardinalityType
<1>5. Cardinality(Pending) = 0 <=> Pending = {}
  BY <1>3, FS_EmptySet
<1> QED
  BY <1>1, <1>3, <1>4, <1>5, SmpAssumption

(* The invariant holds before smp_init. *)
LEMMA InitIInv == Init => IInv
<1> SUFFICES ASSUME Init PROVE IInv
  OBVIOUS
<1>1. TypeOK
  <2>1. locked \in BOOLEAN
    BY Zenon DEF Init
  <2>2. cpu_count \in Nat /\ cpu_count >= 1
    BY SmpAssumption
  <2> QED
    BY <2>1, <2>2 DEF Init, TypeOK, Cpus
<1>2. locked = FALSE /\ \A c \in Aps : pc[c] = "parked"
  BY DEF Init, Aps, Cpus
<1>3. LockHeld /\ MutualExclusion /\ RegisterFresh /\ Called
  BY <1>2 DEF LockHeld, MutualExclusion, RegisterFresh, Called, Inside
<1>4. bsp = "start" /\ goto_address = {} /\ i = 0
  BY DEF Init
<1> QED
  BY <1>1, <1>3, <1>4 DEF IInv, CountExact, Quiet, LoopBounds, AllCheckedIn

-----------------------------------------------------------------------------
(* A step of smp_init keeps the invariant. *)
LEMMA BspStep == IInv /\ SmpInit => IInv'
<1> SUFFICES ASSUME IInv, SmpInit PROVE IInv'
  OBVIOUS
<1> USE DEF IInv
<1>0. cpu_count \in Nat /\ cpu_count >= 1
  BY SmpAssumption
<1>1. UNCHANGED <<boot_cpu, locked, pc, loaded>>
  BY DEF SmpInit, smp_init, BootAp, WaitForAps
<1>2. Aps' = Aps /\ Pending' = Pending
  BY <1>1 DEF Aps, Pending
<1>3. locked' \in BOOLEAN
  BY <1>1, Zenon DEF TypeOK
<1>4. MutualExclusion' /\ LockHeld'
  BY <1>1, <1>2, Zenon DEF MutualExclusion, LockHeld
<1>5. CASE smp_init
  <2>1. \A c \in Aps : pc[c] = "parked"
    BY <1>5 DEF smp_init, Quiet, Called
  <2>2. Pending = Aps
    BY <2>1 DEF Pending
  <2>3. Cardinality(Aps) = cpu_count - 1
    BY ApCount DEF Aps, TypeOK
  <2>4. TypeOK'
    BY <1>0, <1>1, <1>3, <1>5 DEF TypeOK, smp_init
  <2>5. CountExact'
    BY <1>2, <1>5, <2>2, <2>3 DEF CountExact, smp_init
  <2>6. RegisterFresh' /\ Called'
    BY <1>1, <1>2, <2>1 DEF RegisterFresh, Called
  <2>7. Quiet' /\ LoopBounds' /\ AllCheckedIn'
    BY <1>5 DEF Quiet, LoopBounds, AllCheckedIn, smp_init
  <2> QED
    BY <1>4, <2>4, <2>5, <2>6, <2>7
<1>6. CASE BootAp
  <2>1. UNCHANGED ap_done /\ bsp = "boot" /\ bsp' \in {"boot", "wait"}
    BY <1>6 DEF BootAp
  <2>2. goto_address \subseteq goto_address'
    BY <1>6 DEF BootAp
  <2>3. i >= 1 /\ i' >= 1 /\ i' \in 0 .. cpu_count
    BY <1>0, <1>6 DEF BootAp, LoopBounds, TypeOK
  <2>4. goto_address' \subseteq 1 .. cpu_count - 1
    <3>1. i \in Int /\ goto_address \subseteq 1 .. cpu_count - 1
      BY <1>0 DEF TypeOK
    <3>2. i < cpu_count => i \in 1 .. cpu_count - 1
      BY <1>0, <2>3, <3>1
    <3>3. goto_address' = goto_address \/ (i < cpu_count /\ goto_address' = goto_address \cup {i})
      BY <1>6 DEF BootAp
    <3> QED
      BY <3>1, <3>2, <3>3
  <2>5. TypeOK'
    BY <1>0, <1>1, <1>3, <2>1, <2>3, <2>4 DEF TypeOK
  <2>6. CountExact'
    BY <1>2, <2>1 DEF CountExact
  <2>7. RegisterFresh' /\ Called'
    BY <1>1, <1>2, <2>1, <2>2 DEF RegisterFresh, Called
  <2>8. Quiet' /\ LoopBounds' /\ AllCheckedIn'
    BY <2>1, <2>3 DEF Quiet, LoopBounds, AllCheckedIn
  <2> QED
    BY <1>4, <2>5, <2>6, <2>7, <2>8
<1>7. CASE WaitForAps
  <2>1. UNCHANGED <<ap_done, goto_address, i>> /\ bsp = "wait" /\ bsp' = "done" /\ ~ (ap_done > 0)
    BY <1>7 DEF WaitForAps
  <2>2. TypeOK'
    BY <1>1, <1>3, <2>1 DEF TypeOK
  <2>3. ap_done = 0
    BY <1>0, <2>1 DEF TypeOK
  <2>4. Cardinality(Pending) = 0
    BY <2>1, <2>3 DEF CountExact
  <2>5. Pending = {}
    BY <2>4, PendingFinite
  <2>6. CountExact' /\ AllCheckedIn'
    BY <1>2, <2>1, <2>3, <2>4, <2>5 DEF CountExact, AllCheckedIn
  <2>7. RegisterFresh' /\ Called'
    BY <1>1, <1>2, <2>1 DEF RegisterFresh, Called
  <2>8. Quiet' /\ LoopBounds'
    BY <2>1 DEF Quiet, LoopBounds
  <2> QED
    BY <1>4, <2>2, <2>6, <2>7, <2>8
<1> QED
  BY <1>5, <1>6, <1>7 DEF SmpInit

-----------------------------------------------------------------------------
(* So does a step of an application processor. *)
LEMMA ApsStep == \A c \in Cpus : IInv /\ ApStep(c) => IInv'
<1> SUFFICES ASSUME NEW c \in Cpus, IInv, ApStep(c) PROVE IInv'
  OBVIOUS
<1> USE DEF IInv
<1>0. cpu_count \in Nat /\ cpu_count >= 1
  BY SmpAssumption
<1>1. c \in Aps /\ UNCHANGED <<boot_cpu, goto_address, bsp, i>>
  BY DEF ApStep, ap_entry_point, lock, Load, Store, unlock
<1>2. Aps' = Aps /\ Aps \subseteq Cpus
  BY <1>1 DEF Aps
<1>3. Quiet' /\ LoopBounds'
  BY <1>1 DEF Quiet, LoopBounds
<1>4. pc \in [Cpus -> {"parked", "lock", "load", "store", "unlock", "spin"}]
  BY DEF TypeOK
<1>5. bsp # "start"
  <2>1. c \in goto_address
    BY <1>1 DEF ApStep, ap_entry_point, lock, Load, Store, unlock, Called
  <2> QED
    BY <2>1 DEF Quiet
<1>6. ap_done = Cardinality(Pending) /\ ap_done \in 0 .. cpu_count - 1
  BY <1>5 DEF CountExact, TypeOK
<1>7. Called'
  BY <1>1, <1>2, <1>4 DEF Called, ApStep, ap_entry_point, lock, Load, Store, unlock
<1>8. CASE ap_entry_point(c)
  <2>1. pc' = [pc EXCEPT ![c] = "lock"] /\ pc[c] = "parked" /\ UNCHANGED <<ap_done, locked, loaded>>
    BY <1>8 DEF ap_entry_point
  <2>2. locked' \in BOOLEAN
    BY <2>1, Zenon DEF TypeOK
  <2>3. TypeOK'
    BY <1>1, <2>1, <2>2 DEF TypeOK
  <2>4. \A d \in Aps : pc'[d] \in Inside <=> pc[d] \in Inside
    BY <1>2, <1>4, <2>1 DEF Inside
  <2>5. LockHeld' /\ MutualExclusion'
    BY <1>2, <2>1, <2>4, Zenon DEF LockHeld, MutualExclusion, Inside
  <2>6. Pending' = Pending
    BY <1>1, <1>2, <1>4, <2>1 DEF Pending
  <2>7. RegisterFresh'
    BY <1>2, <1>4, <2>1 DEF RegisterFresh
  <2>8. CountExact' /\ AllCheckedIn'
    BY <1>1, <2>1, <2>6 DEF CountExact, AllCheckedIn
  <2> QED
    BY <1>3, <1>7, <2>3, <2>5, <2>7, <2>8
<1>9. CASE lock(c)
  <2>1. pc' = [pc EXCEPT ![c] = "load"] /\ pc[c] = "lock" /\ UNCHANGED <<ap_done, loaded>>
    BY <1>9 DEF lock
  <2>2. locked = FALSE /\ locked' = TRUE
    BY <1>9, Zenon DEF lock, TypeOK
  <2>3. TypeOK'
    <3>1. locked' \in BOOLEAN
      BY <2>2, Zenon
    <3> QED
      BY <1>1, <2>1, <3>1 DEF TypeOK
  <2>4. \A d \in Aps : pc[d] \notin Inside
    BY <2>2, Zenon DEF LockHeld
  <2>5. \A d \in Aps : pc'[d] \in Inside <=> d = c
    BY <1>2, <1>4, <2>1, <2>4 DEF Inside
  <2>6. LockHeld' /\ MutualExclusion'
    BY <1>1, <1>2, <2>2, <2>5, Zenon DEF LockHeld, MutualExclusion, Inside
  <2>7. Pending' = Pending
    BY <1>1, <1>2, <1>4, <2>1 DEF Pending
  <2>8. RegisterFresh'
    BY <1>2, <1>4, <2>1 DEF RegisterFresh
  <2>9. CountExact' /\ AllCheckedIn'
    BY <1>1, <2>1, <2>7 DEF CountExact, AllCheckedIn
  <2> QED
    BY <1>3, <1>7, <2>3, <2>6, <2>8, <2>9
<1>10. CASE Load(c)
  <2>1. pc' = [pc EXCEPT ![c] = "store"] /\ pc[c] = "load" /\ UNCHANGED <<ap_done, locked>>
        /\ loaded' = [loaded EXCEPT ![c] = ap_done]
    BY <1>10 DEF Load
  <2>2. locked' \in BOOLEAN
    BY <2>1, Zenon DEF TypeOK
  <2>3. TypeOK'
    BY <1>1, <1>6, <2>1, <2>2 DEF TypeOK
  <2>4. \A d \in Aps : pc'[d] \in Inside <=> pc[d] \in Inside
    BY <1>2, <1>4, <2>1 DEF Inside
  <2>5. LockHeld' /\ MutualExclusion'
    BY <1>2, <2>1, <2>4, Zenon DEF LockHeld, MutualExclusion, Inside
  <2>6. Pending' = Pending
    BY <1>1, <1>2, <1>4, <2>1 DEF Pending
  <2>7. RegisterFresh'
    BY <1>2, <1>4, <2>1 DEF RegisterFresh, TypeOK
  <2>8. CountExact' /\ AllCheckedIn'
    BY <1>1, <2>1, <2>6 DEF CountExact, AllCheckedIn
  <2> QED
    BY <1>3, <1>7, <2>3, <2>5, <2>7, <2>8
<1>11. CASE Store(c)
  <2>1. pc' = [pc EXCEPT ![c] = "unlock"] /\ pc[c] = "store" /\ UNCHANGED <<loaded, locked>>
        /\ ap_done' = loaded[c] - 1
    BY <1>11 DEF Store
  <2>2. loaded[c] = ap_done
    BY <1>1, <2>1 DEF RegisterFresh
  <2>3. Pending' = Pending \ {c} /\ c \in Pending
    BY <1>1, <1>2, <1>4, <2>1 DEF Pending
  <2>4. Cardinality(Pending') = Cardinality(Pending) - 1
    BY <2>3, PendingFinite, FS_RemoveElement
  <2>5. ap_done >= 1
    BY <1>6, <2>3, PendingFinite
  <2>6. locked' \in BOOLEAN
    BY <2>1, Zenon DEF TypeOK
  <2>7. TypeOK'
    BY <1>0, <1>1, <1>6, <2>1, <2>2, <2>5, <2>6 DEF TypeOK
  <2>8. \A d \in Aps : pc'[d] \in Inside <=> pc[d] \in Inside
    BY <1>2, <1>4, <2>1 DEF Inside
  <2>9. LockHeld' /\ MutualExclusion'
    BY <1>2, <2>1, <2>8, Zenon DEF LockHeld, MutualExclusion, Inside
  <2>10. RegisterFresh'
    BY <1>1, <1>2, <1>4, <2>1 DEF RegisterFresh, MutualExclusion
  <2>11. CountExact' /\ AllCheckedIn'
    BY <1>1, <1>6, <2>1, <2>2, <2>3, <2>4 DEF CountExact, AllCheckedIn
  <2> QED
    BY <1>3, <1>7, <2>7, <2>9, <2>10, <2>11
<1>12. CASE unlock(c)
  <2>1. pc' = [pc EXCEPT ![c] = "spin"] /\ pc[c] = "unlock" /\ UNCHANGED <<ap_done, loaded>>
    BY <1>12 DEF unlock
  <2>2. locked' = FALSE
    BY <1>12, Zenon DEF unlock
  <2>3. TypeOK'
    <3>1. locked' \in BOOLEAN
      BY <2>2, Zenon
    <3> QED
      BY <1>1, <2>1, <3>1 DEF TypeOK
  <2>4. \A d \in Aps : pc'[d] \notin Inside
    BY <1>1, <1>2, <1>4, <2>1 DEF Inside, MutualExclusion
  <2>5. LockHeld' /\ MutualExclusion'
    BY <1>2, <2>2, <2>4, Zenon DEF LockHeld, MutualExclusion, Inside
  <2>6. Pending' = Pending
    BY <1>1, <1>2, <1>4, <2>1 DEF Pending
  <2>7. RegisterFresh'
    BY <1>2, <1>4, <2>1 DEF RegisterFresh
  <2>8. CountExact' /\ AllCheckedIn'
    BY <1>1, <2>1, <2>6 DEF CountExact, AllCheckedIn
  <2> QED
    BY <1>3, <1>7, <2>3, <2>5, <2>7, <2>8
<1> QED
  BY <1>8, <1>9, <1>10, <1>11, <1>12 DEF ApStep

(* And a step of neither. *)
LEMMA Stutter == IInv /\ UNCHANGED vars => IInv'
BY DEF vars, IInv, TypeOK, CountExact, MutualExclusion, LockHeld, RegisterFresh, Quiet,
       Called, LoopBounds, AllCheckedIn, Aps, Pending, Inside

(* The invariant holds in every state of every behaviour of smp_init and   *)
(* the application processors.                                             *)
THEOREM Invariance == Spec => []IInv
<1>1. IInv /\ [Next]_vars => IInv'
  BY BspStep, ApsStep, Stutter DEF Next
<1> QED
  BY InitIInv, <1>1, PTL DEF Spec

(* Every variable of the start-up protocol keeps its type; in particular   *)
(* ap_done never goes below 0.                                             *)
THEOREM TypeCorrect == Spec => []TypeOK
<1>1. IInv => TypeOK
  BY DEF IInv
<1> QED
  BY Invariance, <1>1, PTL

(* The spin lock of klibc/lock.c admits one processor at a time. *)
THEOREM LockIsExclusive == Spec => []MutualExclusion
<1>1. IInv => MutualExclusion
  BY DEF IInv
<1> QED
  BY Invariance, <1>1, PTL

(* No decrement of ap_done is lost, for any number of processors. *)
THEOREM CountIsExact == Spec => []CountExact
<1>1. IInv => CountExact
  BY DEF IInv
<1> QED
  BY Invariance, <1>1, PTL

(* smp_init returns only when every application processor has checked in. *)
THEOREM BspWaitsForAll == Spec => []AllCheckedIn
<1>1. IInv => AllCheckedIn
  BY DEF IInv
<1> QED
  BY Invariance, <1>1, PTL

-----------------------------------------------------------------------------
(* The boot and its interrupts: main.c, idt.asm, isr.c, pic.c.             *)

(* Where each instruction of the boot is. *)
LEMMA ProgramPlaces ==
    /\ Len(Program) = 29
    /\ \A k \in 1 .. 29 :
         /\ Program[k] = "load_gdt" <=> k = 2
         /\ Program[k] = "load_idt" <=> k = 7
         /\ Program[k] = "remap_pic" <=> k = 10
         /\ Program[k] = "restore" <=> k = 11
         /\ Program[k] = "disable_pic" <=> k = 12
         /\ Program[k] = "enable_lapic" <=> k = 13
         /\ Program[k] = "ioapic_init" <=> k = 16
         /\ Program[k] = "drain" <=> k = 19
         /\ Program[k] = "unmask_keyboard" <=> k = 20
         /\ Program[k] = "apic_timer" <=> k = 23
         /\ Program[k] = "current_task" <=> k = 26
         /\ Program[k] = "unmask_timer" <=> k = 28
         /\ Program[k] = "hang" <=> k = 29
         /\ Program[k] = "kprint" <=>
                k \in {1, 3, 4, 5, 6, 8, 9, 14, 15, 17, 18, 21, 22, 24, 25, 27}
<1>1. Len(Program) = 29 BY DEF Program
<1>2. ASSUME NEW k \in 1 .. 29
      PROVE  /\ Program[k] = "load_gdt" <=> k = 2
             /\ Program[k] = "load_idt" <=> k = 7
             /\ Program[k] = "remap_pic" <=> k = 10
             /\ Program[k] = "restore" <=> k = 11
             /\ Program[k] = "disable_pic" <=> k = 12
             /\ Program[k] = "enable_lapic" <=> k = 13
             /\ Program[k] = "ioapic_init" <=> k = 16
             /\ Program[k] = "drain" <=> k = 19
             /\ Program[k] = "unmask_keyboard" <=> k = 20
             /\ Program[k] = "apic_timer" <=> k = 23
             /\ Program[k] = "current_task" <=> k = 26
             /\ Program[k] = "unmask_timer" <=> k = 28
             /\ Program[k] = "hang" <=> k = 29
             /\ Program[k] = "kprint" <=>
                    k \in {1, 3, 4, 5, 6, 8, 9, 14, 15, 17, 18, 21, 22, 24, 25, 27}
  BY DEF Program
<1> QED BY <1>1, <1>2

Frames == [vector : Vectors, at : {"entry", "handler", "print", "eoi", "iret"}]
Active(f) == f.at \notin {"iret", IF f.vector = TIMER THEN "handler" ELSE ""}

(* What the boot has done follows from its place. *)
Placed ==
    /\ at \in 1 .. 29 /\ printing \in {"out", "locked", "printed"}
    /\ idt \in BOOLEAN /\ lapic \in BOOLEAN /\ current_task \in BOOLEAN
    /\ (idt <=> at > 7) /\ (lapic <=> at > 13) /\ (current_task <=> at > 26)
    /\ pic = (IF at = 11 THEN "open" ELSE "masked")
    /\ open = (IF at <= 20 THEN {} ELSE IF at <= 28 THEN {KEYBOARD} ELSE {KEYBOARD, TIMER})

Machine ==
    /\ intr \in BOOLEAN /\ spinlock \in BOOLEAN
    /\ pic_irr \subseteq Vectors /\ pic_isr \subseteq Vectors
    /\ irr \subseteq open /\ isr \subseteq open
    /\ stack \in Seq(Frames) /\ keys \in 0 .. MAX_KEYS

(* The lock is held with interrupts off, by the boot or by the innermost   *)
(* handler.                                                                *)
Held ==
    /\ spinlock => ~intr /\ (IF stack = <<>> THEN printing # "out" ELSE Frame.at = "print")
    /\ printing # "out" => stack = <<>> /\ ~intr /\ spinlock /\ Program[at] = "kprint"

(* Before the local APIC is enabled only a PIC interrupts, and only while  *)
(* it is open; behind that the handlers lie on each other as stated.       *)
Served ==
    /\ ~lapic => isr = {} /\ (stack # <<>> => at = 11 /\ pic_isr # {})
    /\ lapic =>
         /\ \A j \in 1 .. Len(stack) - 1 : stack[j].vector = KEYBOARD /\ stack[j].at = "iret"
         /\ isr = (IF stack # <<>> /\ Active(Frame) THEN {Frame.vector} ELSE {})
         /\ stack # <<>> => Frame.vector = KEYBOARD \/ (Frame.vector = TIMER /\ ~intr)
    /\ \A j \in 1 .. Len(stack) : stack[j].vector = TIMER => at = 11 \/ at = 29
    /\ stack # <<>> => at = 11 \/ at > 20

BootInv == Placed /\ Machine /\ Held /\ Served /\ StrayOnlyIf

(* A frame is pushed, changed or popped, and the others stay. *)
LEMMA Push ==
    ASSUME stack \in Seq(Frames), NEW f \in Frames, stack' = Append(stack, f)
    PROVE  /\ stack' \in Seq(Frames) /\ stack' # <<>>
           /\ Len(stack) \in Nat /\ Len(stack') = Len(stack) + 1
           /\ \A j \in 1 .. Len(stack) : stack'[j] = stack[j]
           /\ stack'[Len(stack')] = f
<1> HIDE DEF Frames
<1>1. Len(stack') = Len(stack) + 1 /\ Len(stack) \in Nat OBVIOUS
<1> QED BY <1>1

(* The handler on top of the stack moves on: the frames below stay. *)
LEMMA Move ==
    ASSUME stack \in Seq(Frames), stack # <<>>,
           NEW there \in {"entry", "handler", "print", "eoi", "iret"}, FrameTo(there)
    PROVE  /\ stack' \in Seq(Frames) /\ stack' # <<>>
           /\ Len(stack) \in Nat \ {0} /\ Len(stack') = Len(stack)
           /\ \A j \in 1 .. Len(stack) - 1 : stack'[j] = stack[j]
           /\ stack'[Len(stack)].vector = stack[Len(stack)].vector
           /\ stack'[Len(stack)].at = there
<1> DEFINE n == Len(stack)
<1>1. n \in Nat \ {0} /\ n \in DOMAIN stack /\ DOMAIN stack = 1 .. n BY EmptySeq
<1>2. stack[n] \in Frames
  <2> HIDE DEF Frames
  <2> QED BY <1>1, ElementOfSeq
<1>3. stack' = [stack EXCEPT ![n] = [stack[n] EXCEPT !.at = there]] BY DEF FrameTo
<1> DEFINE g == [stack[n] EXCEPT !.at = there]
<1>4. g \in Frames /\ g.vector = stack[n].vector /\ g.at = there BY <1>2 DEF Frames
<1> HIDE DEF g, Frames
<1>5. stack' = [stack EXCEPT ![n] = g] BY <1>3 DEF g
<1>6. stack' \in Seq(Frames) /\ Len(stack') = n BY <1>1, <1>4, <1>5, ExceptSeq
<1>7. stack'[n] = g /\ \A j \in 1 .. n - 1 : stack'[j] = stack[j]
  <2> HIDE DEF n
  <2> QED BY <1>1, <1>5
<1>8. stack' # <<>> BY <1>1, <1>6
<1> QED BY <1>1, <1>4, <1>6, <1>7, <1>8

(* An iretq takes the top frame: the frames below stay. *)
LEMMA Pop ==
    ASSUME stack \in Seq(Frames), stack # <<>>, stack' = SubSeq(stack, 1, Len(stack) - 1)
    PROVE  /\ stack' \in Seq(Frames) /\ Len(stack) \in Nat \ {0} /\ Len(stack') = Len(stack) - 1
           /\ \A j \in 1 .. Len(stack) - 1 : stack'[j] = stack[j]
<1> HIDE DEF Frames
<1>1. Len(stack) \in Nat \ {0} BY EmptySeq
<1>2. \A k \in 1 .. Len(stack) : stack[k] \in Frames BY ElementOfSeq
<1>3. \A k \in 1 .. Len(stack) - 1 : stack[k] \in Frames BY <1>1, <1>2
<1> DEFINE n == Len(stack) - 1
<1>4. n \in Nat /\ Len(stack) = n + 1 BY <1>1
<1>5. /\ stack' \in Seq(Frames) /\ Len(stack') = (IF 1 <= n THEN n - 1 + 1 ELSE 0)
      /\ \A j \in 1 .. n - 1 + 1 : stack'[j] = stack[1 + j - 1]
  <2> HIDE DEF n
  <2>1. \A j \in 1 .. n : stack[j] \in Frames BY <1>3 DEF n
  <2>2. stack' = SubSeq(stack, 1, n) BY DEF n
  <2>3. 1 \in Int /\ n \in Int BY <1>4
  <2> QED BY <2>1, <2>2, <2>3, SubSeqProperties
<1>6. n - 1 + 1 = n /\ \A j \in 1 .. n : 1 + j - 1 = j BY <1>4
<1> HIDE DEF n
<1>7. Len(stack) - 1 = n BY DEF n
<1> QED BY <1>1, <1>4, <1>5, <1>6, <1>7

(* The machine starts with no interrupt taken and no line open. *)
LEMMA BootInitInv == BootInit => BootInv
<1> SUFFICES ASSUME BootInit PROVE BootInv OBVIOUS
<1>1. Placed
  <2>1. at = 1 /\ printing = "out" /\ idt = FALSE /\ lapic = FALSE /\ current_task = FALSE
        /\ pic = "masked" /\ open = {} BY DEF BootInit
  <2>2. 1 \in 1 .. 29 /\ ~(1 > 7) /\ ~(1 > 13) /\ ~(1 > 26) /\ 1 # 11 /\ 1 <= 20 OBVIOUS
  <2> QED BY <2>1, <2>2 DEF Placed
<1>2. Machine
  <2>1. <<>> \in Seq(Frames)
    <3> HIDE DEF Frames
    <3> QED BY EmptySeq
  <2>2. 0 \in 0 .. MAX_KEYS BY BootNumbers
  <2>3. intr = FALSE /\ spinlock = FALSE /\ pic_irr = {} /\ pic_isr = {} /\ irr = {} /\ isr = {}
        /\ stack = <<>> /\ keys = 0 BY DEF BootInit
  <2> HIDE DEF Frames
  <2> QED BY <2>1, <2>2, <2>3 DEF Machine
<1>3. Held BY DEF BootInit, Held
<1>4. Served BY EmptySeq DEF BootInit, Served
<1>5. StrayOnlyIf BY DEF BootInit, StrayOnlyIf
<1> QED BY <1>1, <1>2, <1>3, <1>4, <1>5 DEF BootInv

(* kprint, with its lock. *)
LEMMA KprintInv == BootInv /\ kprint => BootInv'
<1> SUFFICES ASSUME BootInv, kprint PROVE BootInv' OBVIOUS
<1>1. /\ stack = <<>> /\ stray = {} /\ Program[at] = "kprint"
      /\ UNCHANGED <<idt, pic, pic_irr, pic_isr, lapic, open, irr, isr, stack, current_task,
                     keys, stray>>
  BY DEF kprint, KprintLock, KprintText, KprintUnlock, Boots, pics
<1>2. at \in 1 .. 29 /\ at \in {1, 3, 4, 5, 6, 8, 9, 14, 15, 17, 18, 21, 22, 24, 25, 27}
  BY <1>1, ProgramPlaces DEF BootInv, Placed
<1>3. CASE KprintLock
  <2>1. at' = at /\ intr' = FALSE /\ spinlock' = TRUE /\ printing' = "locked"
    BY <1>3 DEF KprintLock
  <2> QED BY <1>1, <2>1 DEF BootInv, Placed, Machine, Held, Served, StrayOnlyIf
<1>4. CASE KprintText
  <2>1. at' = at /\ UNCHANGED <<intr, spinlock>> /\ printing' = "printed" /\ printing = "locked"
    BY <1>4 DEF KprintText
  <2> QED BY <1>1, <2>1 DEF BootInv, Placed, Machine, Held, Served, StrayOnlyIf
<1>5. CASE KprintUnlock
  <2>1. at' = at + 1 /\ intr' = TRUE /\ spinlock' = FALSE /\ printing' = "out"
    BY <1>5 DEF KprintUnlock
  <2>2. Placed' BY <1>1, <1>2, <2>1 DEF BootInv, Placed
  <2>3. Machine' BY <1>1, <2>1 DEF BootInv, Machine
  <2>4. Held' BY <1>1, <2>1 DEF Held
  <2>5. Served' BY <1>1, <1>2, <2>1, EmptySeq DEF BootInv, Placed, Served
  <2> QED BY <1>1, <2>2, <2>3, <2>4, <2>5 DEF BootInv, StrayOnlyIf
<1> QED BY <1>3, <1>4, <1>5 DEF kprint

(* An instruction that leaves the boot where its place says it is keeps    *)
(* the rest of the invariant: no handler runs.                             *)
LEMMA GoesInv ==
    ASSUME BootInv, NEW op, Boots(op), op # "kprint", Goes, Placed', intr' \in BOOLEAN,
           open \subseteq open', pic_irr' \subseteq Vectors, pic_isr' \subseteq Vectors
    PROVE  BootInv'
<1>1. /\ stack = <<>> /\ stray = {} /\ Program[at] # "kprint"
      /\ UNCHANGED <<printing, irr, isr, stack, spinlock, keys, stray>>
  BY DEF Boots, Goes
<1>2. Len(stack) = 0 BY <1>1
<1>3. printing = "out" /\ spinlock = FALSE BY <1>1 DEF BootInv, Held, Machine
<1>4. isr = {} BY <1>1 DEF BootInv, Served, Placed
<1>5. Machine' BY <1>1 DEF BootInv, Machine
<1>6. Held' BY <1>1, <1>3 DEF Held
<1>7. Served' BY <1>1, <1>2, <1>4 DEF Served
<1>8. StrayOnlyIf' BY <1>1 DEF StrayOnlyIf
<1> QED BY <1>5, <1>6, <1>7, <1>8 DEF BootInv

(* The other instructions of the boot. *)
LEMMA StartInv == BootInv /\ start => BootInv'
<1> SUFFICES ASSUME BootInv, start PROVE BootInv' OBVIOUS
<1>p. /\ at \in 1 .. 29 /\ intr \in BOOLEAN
      /\ pic_irr \subseteq Vectors /\ pic_isr \subseteq Vectors
  BY DEF BootInv, Placed, Machine
<1>q. /\ Program[at] = "load_gdt" => at = 2
      /\ Program[at] = "load_idt" => at = 7
      /\ Program[at] = "remap_pic" => at = 10
      /\ Program[at] = "restore" => at = 11
      /\ Program[at] = "disable_pic" => at = 12
      /\ Program[at] = "enable_lapic" => at = 13
      /\ Program[at] = "ioapic_init" => at = 16
      /\ Program[at] = "drain" => at = 19
      /\ Program[at] = "unmask_keyboard" => at = 20
      /\ Program[at] = "apic_timer" => at = 23
      /\ Program[at] = "current_task" => at = 26
      /\ Program[at] = "unmask_timer" => at = 28
  BY <1>p, ProgramPlaces
<1>1. CASE load_gdt
  <2>1. Boots("load_gdt") /\ Goes BY <1>1 DEF load_gdt
  <2>2. at = 2 /\ at' = 3 BY <2>1, <1>q DEF Boots, Goes
  <2>3. /\ Placed' /\ intr' \in BOOLEAN /\ open \subseteq open'
        /\ pic_irr' \subseteq Vectors /\ pic_isr' \subseteq Vectors
    BY <1>1, <1>p, <2>1, <2>2 DEF BootInv, Placed, load_gdt, Goes, pics
  <2> QED BY <2>1, <2>3, GoesInv
<1>2. CASE load_idt
  <2>1. Boots("load_idt") /\ Goes BY <1>2 DEF load_idt
  <2>2. at = 7 /\ at' = 8 BY <2>1, <1>q DEF Boots, Goes
  <2>3. /\ Placed' /\ intr' \in BOOLEAN /\ open \subseteq open'
        /\ pic_irr' \subseteq Vectors /\ pic_isr' \subseteq Vectors
    BY <1>2, <1>p, <2>1, <2>2 DEF BootInv, Placed, load_idt, Goes, pics
  <2> QED BY <2>1, <2>3, GoesInv
<1>3. CASE remap_pic
  <2>1. Boots("remap_pic") /\ Goes BY <1>3 DEF remap_pic
  <2>2. at = 10 /\ at' = 11 BY <2>1, <1>q DEF Boots, Goes
  <2>3. /\ Placed' /\ intr' \in BOOLEAN /\ open \subseteq open'
        /\ pic_irr' \subseteq Vectors /\ pic_isr' \subseteq Vectors
    BY <1>3, <1>p, <2>1, <2>2 DEF BootInv, Placed, remap_pic, Goes, pics
  <2> QED BY <2>1, <2>3, GoesInv
<1>4. CASE restore
  <2>1. Boots("restore") /\ Goes BY <1>4 DEF restore
  <2>2. at = 11 /\ at' = 12 BY <2>1, <1>q DEF Boots, Goes
  <2>3. /\ Placed' /\ intr' \in BOOLEAN /\ open \subseteq open'
        /\ pic_irr' \subseteq Vectors /\ pic_isr' \subseteq Vectors
    BY <1>4, <1>p, <2>1, <2>2 DEF BootInv, Placed, restore, Goes, pics
  <2> QED BY <2>1, <2>3, GoesInv
<1>5. CASE disable_pic
  <2>1. Boots("disable_pic") /\ Goes BY <1>5 DEF disable_pic
  <2>2. at = 12 /\ at' = 13 BY <2>1, <1>q DEF Boots, Goes
  <2>3. /\ Placed' /\ intr' \in BOOLEAN /\ open \subseteq open'
        /\ pic_irr' \subseteq Vectors /\ pic_isr' \subseteq Vectors
    BY <1>5, <1>p, <2>1, <2>2 DEF BootInv, Placed, disable_pic, Goes, pics
  <2> QED BY <2>1, <2>3, GoesInv
<1>6. CASE enable_lapic
  <2>1. Boots("enable_lapic") /\ Goes BY <1>6 DEF enable_lapic
  <2>2. at = 13 /\ at' = 14 BY <2>1, <1>q DEF Boots, Goes
  <2>3. /\ Placed' /\ intr' \in BOOLEAN /\ open \subseteq open'
        /\ pic_irr' \subseteq Vectors /\ pic_isr' \subseteq Vectors
    BY <1>6, <1>p, <2>1, <2>2 DEF BootInv, Placed, enable_lapic, Goes, pics
  <2> QED BY <2>1, <2>3, GoesInv
<1>7. CASE mask_lines
  <2>1. Boots("ioapic_init") /\ Goes BY <1>7 DEF mask_lines
  <2>2. at = 16 /\ at' = 17 BY <2>1, <1>q DEF Boots, Goes
  <2>3. /\ Placed' /\ intr' \in BOOLEAN /\ open \subseteq open'
        /\ pic_irr' \subseteq Vectors /\ pic_isr' \subseteq Vectors
    BY <1>7, <1>p, <2>1, <2>2 DEF BootInv, Placed, mask_lines, Goes, pics
  <2> QED BY <2>1, <2>3, GoesInv
<1>8. CASE drain
  <2>1. Boots("drain") /\ Goes BY <1>8 DEF drain
  <2>2. at = 19 /\ at' = 20 BY <2>1, <1>q DEF Boots, Goes
  <2>3. /\ Placed' /\ intr' \in BOOLEAN /\ open \subseteq open'
        /\ pic_irr' \subseteq Vectors /\ pic_isr' \subseteq Vectors
    BY <1>8, <1>p, <2>1, <2>2 DEF BootInv, Placed, drain, Goes, pics
  <2> QED BY <2>1, <2>3, GoesInv
<1>9. CASE unmask("unmask_keyboard", KEYBOARD)
  <2>1. Boots("unmask_keyboard") /\ Goes BY <1>9 DEF unmask
  <2>2. at = 20 /\ at' = 21 BY <2>1, <1>q DEF Boots, Goes
  <2>3. /\ Placed' /\ intr' \in BOOLEAN /\ open \subseteq open'
        /\ pic_irr' \subseteq Vectors /\ pic_isr' \subseteq Vectors
    BY <1>9, <1>p, <2>1, <2>2 DEF BootInv, Placed, unmask, Goes, pics, TIMER, KEYBOARD
  <2> QED BY <2>1, <2>3, GoesInv
<1>10. CASE mask_timer
  <2>1. Boots("apic_timer") /\ Goes BY <1>10 DEF mask_timer
  <2>2. at = 23 /\ at' = 24 BY <2>1, <1>q DEF Boots, Goes
  <2>3. /\ Placed' /\ intr' \in BOOLEAN /\ open \subseteq open'
        /\ pic_irr' \subseteq Vectors /\ pic_isr' \subseteq Vectors
    BY <1>10, <1>p, <2>1, <2>2 DEF BootInv, Placed, mask_timer, Goes, pics, TIMER, KEYBOARD
  <2> QED BY <2>1, <2>3, GoesInv
<1>11. CASE init_multitasking
  <2>1. Boots("current_task") /\ Goes BY <1>11 DEF init_multitasking
  <2>2. at = 26 /\ at' = 27 BY <2>1, <1>q DEF Boots, Goes
  <2>3. /\ Placed' /\ intr' \in BOOLEAN /\ open \subseteq open'
        /\ pic_irr' \subseteq Vectors /\ pic_isr' \subseteq Vectors
    BY <1>11, <1>p, <2>1, <2>2 DEF BootInv, Placed, init_multitasking, Goes, pics
  <2> QED BY <2>1, <2>3, GoesInv
<1>12. CASE unmask("unmask_timer", TIMER)
  <2>1. Boots("unmask_timer") /\ Goes BY <1>12 DEF unmask
  <2>2. at = 28 /\ at' = 29 BY <2>1, <1>q DEF Boots, Goes
  <2>3. /\ Placed' /\ intr' \in BOOLEAN /\ open \subseteq open'
        /\ pic_irr' \subseteq Vectors /\ pic_isr' \subseteq Vectors
    BY <1>12, <1>p, <2>1, <2>2 DEF BootInv, Placed, unmask, Goes, pics, TIMER, KEYBOARD
  <2> QED BY <2>1, <2>3, GoesInv
<1> QED BY <1>1, <1>2, <1>3, <1>4, <1>5, <1>6, <1>7, <1>8, <1>9, <1>10, <1>11, <1>12, KprintInv DEF start

-----------------------------------------------------------------------------
(* What a handler leaves alone. *)
LEMMA PlacedStays ==
    Placed /\ UNCHANGED <<at, printing, idt, lapic, current_task, pic, open>> => Placed'
BY DEF Placed

(* A handler goes on, with what is in service at the local APIC. *)
LEMMA MoveServed ==
    ASSUME BootInv, stack # <<>>, NEW there \in {"entry", "handler", "print", "eoi", "iret"},
           FrameTo(there), UNCHANGED <<at, lapic, pic_isr>>,
           ~lapic => isr' = {},
           lapic => isr' = (IF there \in {"iret", IF Frame.vector = TIMER THEN "handler" ELSE ""}
                            THEN {} ELSE {Frame.vector}),
           lapic /\ Frame.vector = TIMER => ~intr'
    PROVE  Served' /\ Frame'.vector = Frame.vector /\ Frame'.at = there
<1>1. stack \in Seq(Frames) /\ Served BY DEF BootInv, Machine
<1>2. /\ stack' \in Seq(Frames) /\ stack' # <<>>
      /\ Len(stack) \in Nat \ {0} /\ Len(stack') = Len(stack)
      /\ \A j \in 1 .. Len(stack) - 1 : stack'[j] = stack[j]
      /\ stack'[Len(stack)].vector = stack[Len(stack)].vector
      /\ stack'[Len(stack)].at = there
  BY <1>1, Move
<1> DEFINE n == Len(stack)
<1>3. n \in Nat \ {0} /\ Len(stack') = n BY <1>2
<1>4. Frame'.vector = Frame.vector /\ Frame'.at = there BY <1>2 DEF Frame
<1>5. \A j \in 1 .. n : stack'[j].vector = stack[j].vector
  <2>0. n \in Nat \ {0} BY <1>3
  <2> HIDE DEF n
  <2>1. \A j \in 1 .. n : j = n \/ j \in 1 .. n - 1 BY ONLY <2>0
  <2>2. \A j \in 1 .. n - 1 : stack'[j] = stack[j] BY <1>2 DEF n
  <2>3. stack'[n].vector = stack[n].vector BY <1>2 DEF n
  <2> QED BY <2>1, <2>2, <2>3
<1>6. ~lapic' => isr' = {} /\ (stack' # <<>> => at' = 11 /\ pic_isr' # {})
  BY <1>1 DEF Served
<1>7. ASSUME lapic'
      PROVE  /\ \A j \in 1 .. Len(stack') - 1 :
                    stack'[j].vector = KEYBOARD /\ stack'[j].at = "iret"
             /\ isr' = (IF stack' # <<>> /\ Active(Frame') THEN {Frame'.vector} ELSE {})
             /\ stack' # <<>> => Frame'.vector = KEYBOARD \/ (Frame'.vector = TIMER /\ ~intr')
  <2>1. lapic BY <1>7
  <2>2. \A j \in 1 .. Len(stack') - 1 : stack'[j].vector = KEYBOARD /\ stack'[j].at = "iret"
    <3>1. \A j \in 1 .. Len(stack) - 1 : stack[j].vector = KEYBOARD /\ stack[j].at = "iret"
      BY <1>1, <2>1 DEF Served
    <3>2. \A j \in 1 .. Len(stack) - 1 : stack'[j] = stack[j] BY <1>2
    <3>3. 1 .. Len(stack') - 1 = 1 .. Len(stack) - 1 BY <1>2
    <3> QED BY ONLY <3>1, <3>2, <3>3
  <2>3. isr' = (IF stack' # <<>> /\ Active(Frame') THEN {Frame'.vector} ELSE {})
    BY <1>2, <1>4, <2>1 DEF Active
  <2>4. Frame'.vector = KEYBOARD \/ (Frame'.vector = TIMER /\ ~intr')
    BY <1>1, <1>4, <2>1 DEF Served
  <2> QED BY <2>2, <2>3, <2>4
<1>8. \A j \in 1 .. Len(stack') : stack'[j].vector = TIMER => at' = 11 \/ at' = 29
  BY <1>1, <1>2, <1>5 DEF Served
<1>9. stack' # <<>> => at' = 11 \/ at' > 20 BY <1>1 DEF Served
<1> QED BY <1>4, <1>6, <1>7, <1>8, <1>9 DEF Served

(* The end of an interrupt: nothing is in service behind it. *)
LEMMA EoiEmpties ==
    ASSUME BootInv, stack # <<>>, Eoi
    PROVE  isr' = {}
<1>1. isr = {} \/ \E w \in Vectors : isr = {w}
  <2>1. CASE ~lapic BY <2>1 DEF BootInv, Served
  <2>2. CASE lapic
    <3>1. isr = {} \/ isr = {Frame.vector} BY <2>2 DEF BootInv, Served
    <3>2. Frame.vector \in Vectors BY <2>2 DEF BootInv, Served, Vectors
    <3> QED BY <3>1, <3>2
  <2> QED BY <2>1, <2>2 DEF BootInv, Placed
<1>2. CASE isr = {} BY <1>2 DEF Eoi
<1>3. ASSUME NEW w \in Vectors, isr = {w} PROVE isr' = {}
  <2>1. ~(w < w) BY DEF Vectors, TIMER, KEYBOARD, CLOCK
  <2> QED BY <1>3, <2>1 DEF Eoi
<1> QED BY <1>1, <1>2, <1>3

(* The steps of the handlers. *)
LEMMA HandlerInv == BootInv /\ Handler => BootInv'
<1> SUFFICES ASSUME BootInv, Handler PROVE BootInv' OBVIOUS
<1>p. Placed /\ Machine /\ Held /\ Served /\ StrayOnlyIf BY DEF BootInv
<1>s. stack # <<>> /\ stray = {}
  BY DEF Handler, TimerEoi, TimerCount, KeyboardQuiet, KeyboardLock, KeyboardUnlock, KeyboardEoi,
         Return, InFrame
<1>o. printing = "out" BY <1>p, <1>s DEF Held, Placed
<1>u. /\ UNCHANGED <<at, printing, idt, lapic, current_task, pic, open, pic_irr, pic_isr, irr, keys>>
  BY DEF Handler, TimerEoi, TimerCount, KeyboardQuiet, KeyboardLock, KeyboardUnlock, KeyboardEoi,
         Return, boot, pics
<1>P. Placed' BY <1>p, <1>u, PlacedStays
<1>M. ASSUME NEW there \in {"entry", "handler", "print", "eoi", "iret"}, FrameTo(there),
             intr' \in BOOLEAN, spinlock' \in BOOLEAN, isr' \subseteq open
      PROVE  Machine'
  <2>1. stack' \in Seq(Frames) BY <1>M, <1>p, <1>s, Move DEF Machine
  <2> QED BY <1>M, <1>p, <1>u, <2>1 DEF Machine
<1>i. isr \subseteq open /\ intr \in BOOLEAN /\ spinlock \in BOOLEAN BY <1>p DEF Machine
<1>S. stray' = {} => StrayOnlyIf' BY DEF StrayOnlyIf
<1>1. CASE TimerEoi
  <2>1. /\ Frame = [vector |-> TIMER, at |-> "entry"] /\ FrameTo("handler") /\ Eoi
        /\ UNCHANGED <<intr, spinlock, stray>>
    BY <1>1 DEF TimerEoi, InFrame
  <2>2. isr' = {} BY <1>s, <2>1, EoiEmpties
  <2>3. Frame.vector = TIMER /\ Frame.at = "entry" BY <2>1
  <2>4. lapic => ~intr BY <1>p, <1>s, <2>3 DEF Served, TIMER, KEYBOARD
  <2>5. Served' /\ stack' # <<>>
    <3>1. lapic => isr' = (IF "handler" \in {"iret", IF Frame.vector = TIMER THEN "handler" ELSE ""}
                            THEN {} ELSE {Frame.vector})
      BY <2>2, <2>3
    <3> QED BY <1>s, <1>u, <1>p, <2>1, <2>2, <2>4, <3>1, MoveServed, Move DEF Machine
  <2>6. Machine' BY <1>M, <1>i, <2>1, <2>2
  <2>7. ~spinlock BY <1>p, <1>s, <2>3 DEF Held
  <2>8. Held' BY <1>o, <1>u, <2>1, <2>7 DEF Held
  <2> QED BY <1>P, <1>s, <1>S, <2>1, <2>5, <2>6, <2>8 DEF BootInv
<1>2. CASE TimerCount
  <2>1. /\ Frame = [vector |-> TIMER, at |-> "handler"] /\ FrameTo("iret")
        /\ stray' = (IF current_task THEN {} ELSE {Wrong(TIMER, FALSE)})
        /\ UNCHANGED <<intr, spinlock, isr>>
    BY <1>2 DEF TimerCount, InFrame
  <2>3. Frame.vector = TIMER /\ Frame.at = "handler" BY <2>1
  <2>2. isr' = {}
    <3>1. ~Active(Frame) BY <2>3 DEF Active
    <3> QED BY <1>p, <2>1, <3>1 DEF Served, Placed
  <2>4. lapic => ~intr BY <1>p, <1>s, <2>3 DEF Served, TIMER, KEYBOARD
  <2>5. Served'
    BY <1>s, <1>u, <1>p, <2>1, <2>2, <2>4, MoveServed
  <2>6. Machine' BY <1>M, <1>i, <2>1, <2>2
  <2>7. ~spinlock BY <1>p, <1>s, <2>3 DEF Held
  <2>8. Held' BY <1>o, <1>u, <2>1, <2>7 DEF Held
  <2>9. StrayOnlyIf'
    <3>1. at = 11 \/ at = 29
      <4>1. Len(stack) \in 1 .. Len(stack) BY <1>p, <1>s, EmptySeq DEF Machine
      <4> QED BY <1>p, <2>3, <4>1 DEF Served, Frame
    <3>2. CASE at = 29
      <4>1. current_task BY <1>p, <3>2 DEF Placed
      <4> QED BY <2>1, <4>1, <1>S
    <3>3. CASE at = 11
      <4>1. Program[at] = "restore" BY <3>3, ProgramPlaces
      <4>2. \A k \in stray' : k.at = "restore" BY <2>1, <4>1 DEF Wrong
      <4> QED BY <4>2 DEF StrayOnlyIf
    <3> QED BY <3>1, <3>2, <3>3
  <2> QED BY <1>P, <2>5, <2>6, <2>8, <2>9 DEF BootInv
<1>3. CASE KeyboardQuiet
  <2>1. /\ Frame = [vector |-> KEYBOARD, at |-> "entry"] /\ FrameTo("eoi")
        /\ UNCHANGED <<intr, spinlock, isr, stray>>
    BY <1>3 DEF KeyboardQuiet, InFrame
  <2>3. Frame.vector = KEYBOARD /\ Frame.at = "entry" /\ KEYBOARD # TIMER
    BY <2>1 DEF TIMER, KEYBOARD
  <2>2. /\ ~lapic => isr' = {}
        /\ lapic => isr' = {Frame.vector}
    <3>1. Active(Frame) BY <2>3 DEF Active
    <3> QED BY <1>p, <1>s, <2>1, <3>1 DEF Served, Placed
  <2>5. Served'
    BY <1>s, <1>u, <1>p, <2>1, <2>2, <2>3, MoveServed
  <2>6. Machine' BY <1>M, <1>i, <2>1
  <2>7. ~spinlock BY <1>p, <1>s, <2>3 DEF Held
  <2>8. Held' BY <1>o, <1>u, <2>1, <2>7 DEF Held
  <2> QED BY <1>P, <1>s, <1>S, <2>1, <2>5, <2>6, <2>8 DEF BootInv
<1>4. CASE KeyboardLock
  <2>1. /\ Frame = [vector |-> KEYBOARD, at |-> "entry"] /\ FrameTo("print")
        /\ intr' = FALSE /\ spinlock' = TRUE /\ UNCHANGED <<isr, stray>>
    BY <1>4 DEF KeyboardLock, InFrame
  <2>3. Frame.vector = KEYBOARD /\ Frame.at = "entry" /\ KEYBOARD # TIMER
    BY <2>1 DEF TIMER, KEYBOARD
  <2>2. /\ ~lapic => isr' = {}
        /\ lapic => isr' = {Frame.vector}
    <3>1. Active(Frame) BY <2>3 DEF Active
    <3> QED BY <1>p, <1>s, <2>1, <3>1 DEF Served, Placed
  <2>5. Served' /\ Frame'.at = "print"
    BY <1>s, <1>u, <1>p, <2>1, <2>2, <2>3, MoveServed
  <2>6. Machine' BY <1>M, <1>i, <2>1
  <2>7. stack' # <<>> BY <1>p, <1>s, <2>1, Move DEF Machine
  <2>8. Held' BY <1>o, <1>u, <2>1, <2>5, <2>7 DEF Held
  <2> QED BY <1>P, <1>s, <1>S, <2>1, <2>5, <2>6, <2>8 DEF BootInv
<1>5. CASE KeyboardUnlock
  <2>1. /\ Frame = [vector |-> KEYBOARD, at |-> "print"] /\ FrameTo("eoi")
        /\ intr' = TRUE /\ spinlock' = FALSE /\ UNCHANGED <<isr, stray>>
    BY <1>5 DEF KeyboardUnlock, InFrame
  <2>3. Frame.vector = KEYBOARD /\ Frame.at = "print" /\ KEYBOARD # TIMER
    BY <2>1 DEF TIMER, KEYBOARD
  <2>2. /\ ~lapic => isr' = {}
        /\ lapic => isr' = {Frame.vector}
    <3>1. Active(Frame) BY <2>3 DEF Active
    <3> QED BY <1>p, <1>s, <2>1, <3>1 DEF Served, Placed
  <2>5. Served'
    BY <1>s, <1>u, <1>p, <2>1, <2>2, <2>3, MoveServed
  <2>6. Machine' BY <1>M, <1>i, <2>1
  <2>8. Held' BY <1>o, <1>u, <2>1 DEF Held
  <2> QED BY <1>P, <1>s, <1>S, <2>1, <2>5, <2>6, <2>8 DEF BootInv
<1>6. CASE KeyboardEoi
  <2>1. /\ Frame = [vector |-> KEYBOARD, at |-> "eoi"] /\ FrameTo("iret") /\ Eoi
        /\ UNCHANGED <<intr, spinlock, stray>>
    BY <1>6 DEF KeyboardEoi, InFrame
  <2>2. isr' = {} BY <1>s, <2>1, EoiEmpties
  <2>3. Frame.vector = KEYBOARD /\ Frame.at = "eoi" /\ KEYBOARD # TIMER
    BY <2>1 DEF TIMER, KEYBOARD
  <2>5. Served'
    BY <1>s, <1>u, <1>p, <2>1, <2>2, <2>3, MoveServed
  <2>6. Machine' BY <1>M, <1>i, <2>1, <2>2
  <2>7. ~spinlock BY <1>p, <1>s, <2>3 DEF Held
  <2>8. Held' BY <1>o, <1>u, <2>1, <2>7 DEF Held
  <2> QED BY <1>P, <1>s, <1>S, <2>1, <2>5, <2>6, <2>8 DEF BootInv
<1>7. CASE Return
  <2>1. /\ Frame.at = "iret" /\ stack' = SubSeq(stack, 1, Len(stack) - 1) /\ intr' = TRUE
        /\ UNCHANGED <<isr, spinlock>>
        /\ stray' = {} \/ (Live /\ stray' = {Wrong(Frame.vector, TRUE)})
    BY <1>7 DEF Return
  <2>2. /\ stack' \in Seq(Frames) /\ Len(stack) \in Nat \ {0} /\ Len(stack') = Len(stack) - 1
        /\ \A j \in 1 .. Len(stack) - 1 : stack'[j] = stack[j]
    BY <1>p, <1>s, <2>1, Pop DEF Machine
  <2>3. Machine' BY <1>p, <1>u, <1>i, <2>1, <2>2 DEF Machine
  <2>4. ~spinlock BY <1>p, <1>s, <2>1 DEF Held
  <2>5. Held' BY <1>o, <1>u, <2>1, <2>4 DEF Held
  <2>6. isr = {}
    <3>1. ~Active(Frame) BY <2>1 DEF Active
    <3> QED BY <1>p, <3>1 DEF Served, Placed
  <2>7. stack' # <<>> => Len(stack') \in 1 .. Len(stack) - 1
    <3> HIDE DEF Frames
    <3>1. stack' # <<>> => Len(stack') # 0 BY <2>2, EmptySeq
    <3> QED BY <2>2, <3>1
  <2>8. Served'
    <3>1. ~lapic' => isr' = {} /\ (stack' # <<>> => at' = 11 /\ pic_isr' # {})
      BY <1>p, <1>s, <1>u, <2>1, <2>6 DEF Served
    <3>2. \A j \in 1 .. Len(stack') : stack'[j].vector = TIMER => at' = 11 \/ at' = 29
      BY <1>p, <1>u, <2>2 DEF Served
    <3>3. ASSUME lapic'
          PROVE  /\ \A j \in 1 .. Len(stack') - 1 :
                        stack'[j].vector = KEYBOARD /\ stack'[j].at = "iret"
                 /\ stack' # <<>> => Frame'.vector = KEYBOARD /\ Frame'.at = "iret"
      <4>1. \A j \in 1 .. Len(stack') : stack'[j].vector = KEYBOARD /\ stack'[j].at = "iret"
        BY <1>p, <1>u, <2>2, <3>3 DEF Served
      <4>2. stack' # <<>> => Len(stack') \in 1 .. Len(stack') BY <2>2, <2>7
      <4>3. \A j \in 1 .. Len(stack') - 1 : j \in 1 .. Len(stack') BY <2>2
      <4> QED BY <4>1, <4>2, <4>3 DEF Frame
    <3>4. lapic' => isr' = (IF stack' # <<>> /\ Active(Frame') THEN {Frame'.vector} ELSE {})
      BY <2>1, <2>6, <3>3 DEF Active
    <3>5. stack' # <<>> => at' = 11 \/ at' > 20 BY <1>p, <1>s, <1>u DEF Served
    <3> QED BY <3>1, <3>2, <3>3, <3>4, <3>5 DEF Served
  <2>9. StrayOnlyIf'
    <3>1. CASE stray' = {} BY <3>1, <1>S
    <3>2. CASE Live /\ stray' = {Wrong(Frame.vector, TRUE)}
      <4>1. at # 29 BY <3>2, ProgramPlaces, <1>p DEF Live, Placed
      <4>2. CASE at = 11
        <5>1. Program[at] = "restore" BY <4>2, ProgramPlaces
        <5>2. \A k \in stray' : k.at = "restore" BY <3>2, <5>1 DEF Wrong
        <5> QED BY <5>2 DEF StrayOnlyIf
      <4>3. CASE at > 20
        <5>1. lapic /\ KEYBOARD \in open \ {TIMER}
          BY <1>p, <4>3 DEF Placed, TIMER, KEYBOARD
        <5>2. Len(stack) \in 1 .. Len(stack) BY <2>2
        <5>3. Frame.vector = KEYBOARD BY <1>p, <1>s, <4>1, <4>3, <5>1, <5>2 DEF Served, Frame
        <5>4. Program[at] # "hang" BY <3>2 DEF Live
        <5>5. \A k \in stray' : k.lost /\ k.vector = KEYBOARD /\ k.at # "hang"
          BY <3>2, <5>3, <5>4 DEF Wrong
        <5> QED BY <1>u, <5>1, <5>5 DEF StrayOnlyIf
      <4> QED BY <1>p, <1>s, <4>2, <4>3 DEF Served
    <3> QED BY <2>1, <3>1, <3>2
  <2> QED BY <1>P, <2>3, <2>5, <2>8, <2>9 DEF BootInv
<1> QED BY <1>1, <1>2, <1>3, <1>4, <1>5, <1>6, <1>7 DEF Handler

(* A line rises. *)
LEMMA EdgeInv == ASSUME NEW v \in Vectors PROVE BootInv /\ Edge(v) => BootInv'
<1> SUFFICES ASSUME BootInv, Edge(v) PROVE BootInv' OBVIOUS
<1>p. Placed /\ Machine /\ Held /\ Served /\ StrayOnlyIf BY DEF BootInv
<1>u. UNCHANGED <<at, printing, idt, lapic, current_task, pic, open, pic_isr, intr, isr, stack,
                  spinlock, stray>>
  BY DEF Edge, boot
<1>1. Placed' BY <1>p, <1>u, PlacedStays
<1>2. Machine'
  <2>1. keys' \in 0 .. MAX_KEYS BY <1>p, BootNumbers DEF Edge, Machine
  <2>2. pic_irr' \subseteq Vectors BY <1>p DEF Edge, Machine
  <2>3. irr' \subseteq open' BY <1>p, <1>u DEF Edge, Machine
  <2> QED BY <1>p, <1>u, <2>1, <2>2, <2>3 DEF Machine
<1>3. Held' BY <1>p, <1>u DEF Held, Frame
<1>4. Served' BY <1>p, <1>u DEF Served, Frame
<1> QED BY <1>p, <1>u, <1>1, <1>2, <1>3, <1>4 DEF BootInv, StrayOnlyIf

(* What every interrupt does, of either controller. *)
LEMMA TakesFrame ==
    ASSUME BootInv, NEW v \in Vectors, Takes(v)
    PROVE  /\ Placed' /\ Held' /\ stack' \in Seq(Frames) /\ stack' # <<>> /\ intr = TRUE
           /\ intr' = FALSE /\ UNCHANGED <<at, lapic, open, spinlock, keys>>
           /\ Len(stack) \in Nat /\ Len(stack') = Len(stack) + 1
           /\ \A j \in 1 .. Len(stack) : stack'[j] = stack[j]
           /\ Frame' = [vector |-> v, at |-> "entry"]
           /\ (v = TIMER => at = 11 \/ at = 29) =>
                  \A j \in 1 .. Len(stack') : stack'[j].vector = TIMER => at' = 11 \/ at' = 29
<1>p. Placed /\ Machine /\ Held /\ Served BY DEF BootInv
<1>u. /\ UNCHANGED <<at, printing, idt, lapic, current_task, pic, open, spinlock, keys>>
      /\ intr = TRUE /\ intr' = FALSE
      /\ stack' = Append(stack, [vector |-> v, at |-> "entry"])
  BY <1>p DEF Takes, boot, Machine
<1>1. Placed' BY <1>p, <1>u, PlacedStays
<1>2. [vector |-> v, at |-> "entry"] \in Frames BY DEF Frames
<1>3. /\ stack' \in Seq(Frames) /\ stack' # <<>>
      /\ Len(stack) \in Nat /\ Len(stack') = Len(stack) + 1
      /\ \A j \in 1 .. Len(stack) : stack'[j] = stack[j]
      /\ stack'[Len(stack')] = [vector |-> v, at |-> "entry"]
  BY <1>p, <1>u, <1>2, Push DEF Machine
<1>4. printing = "out" /\ spinlock = FALSE BY <1>p, <1>u DEF Held, Placed, Machine
<1>5. Held' BY <1>u, <1>4 DEF Held
<1>6. ASSUME v = TIMER => at = 11 \/ at = 29
      PROVE  \A j \in 1 .. Len(stack') : stack'[j].vector = TIMER => at' = 11 \/ at' = 29
  <2>1. \A j \in 1 .. Len(stack') : j = Len(stack') \/ j \in 1 .. Len(stack) BY <1>3
  <2>2. stack'[Len(stack')].vector = v BY <1>3
  <2>3. \A j \in 1 .. Len(stack) : stack[j].vector = TIMER => at = 11 \/ at = 29 BY <1>p DEF Served
  <2>4. \A j \in 1 .. Len(stack) : stack'[j].vector = TIMER => at' = 11 \/ at' = 29
    BY <1>3, <1>u, <2>3
  <2> QED BY <1>6, <1>u, <2>1, <2>2, <2>4
<1>7. Frame' = [vector |-> v, at |-> "entry"] BY <1>3 DEF Frame
<1> QED BY <1>1, <1>3, <1>5, <1>6, <1>7, <1>u

(* An interrupt of a PIC, while remap_pic has it open. *)
LEMMA PicInterruptInv == ASSUME NEW v \in Vectors PROVE BootInv /\ PicInterrupt(v) => BootInv'
<1> SUFFICES ASSUME BootInv, PicInterrupt(v) PROVE BootInv' OBVIOUS
<1>p. Placed /\ Machine /\ Held /\ Served /\ StrayOnlyIf BY DEF BootInv
<1>1. /\ pic = "open" /\ Takes(v) /\ UNCHANGED <<irr, isr>>
      /\ pic_irr' = pic_irr \ {v} /\ pic_isr' = pic_isr \cup {v}
  BY DEF PicInterrupt
<1>2. at = 11 /\ ~lapic BY <1>p, <1>1 DEF Placed
<1>3. /\ Placed' /\ Held' /\ stack' \in Seq(Frames) /\ stack' # <<>>
      /\ intr' = FALSE /\ UNCHANGED <<at, lapic, open, spinlock, keys>>
      /\ \A j \in 1 .. Len(stack') : stack'[j].vector = TIMER => at' = 11 \/ at' = 29
  BY <1>1, <1>2, TakesFrame
<1>4. Machine' BY <1>p, <1>1, <1>3 DEF Machine
<1>5. Served' BY <1>p, <1>1, <1>2, <1>3 DEF Served
<1>6. StrayOnlyIf'
  <2>1. Program[at] = "restore" BY <1>2, ProgramPlaces
  <2>2. \A k \in stray' : k.at = "restore" BY <1>1, <2>1 DEF Takes, Wrong
  <2> QED BY <2>2 DEF StrayOnlyIf
<1> QED BY <1>3, <1>4, <1>5, <1>6 DEF BootInv

(* An interrupt of the local APIC. *)
LEMMA InterruptInv == ASSUME NEW v \in Vectors PROVE BootInv /\ Interrupt(v) => BootInv'
<1> SUFFICES ASSUME BootInv, Interrupt(v) PROVE BootInv' OBVIOUS
<1>p. Placed /\ Machine /\ Held /\ Served /\ StrayOnlyIf BY DEF BootInv
<1>1. /\ v \in irr /\ (\A w \in isr : v \div 16 > w \div 16) /\ Takes(v)
      /\ irr' = irr \ {v} /\ isr' = isr \cup {v} /\ UNCHANGED <<pic_irr, pic_isr>>
  BY DEF Interrupt
<1>2. v \in open /\ isr \subseteq open BY <1>p, <1>1 DEF Machine
<1>3. v \in {TIMER, KEYBOARD} /\ lapic /\ idt /\ (v = TIMER => at = 29)
  BY <1>p, <1>2 DEF Placed, TIMER, KEYBOARD
<1>4. isr = {}
  <2>1. isr \subseteq {TIMER, KEYBOARD} BY <1>p, <1>2 DEF Placed
  <2>2. \A w \in {TIMER, KEYBOARD} : w \div 16 = 2 BY DEF TIMER, KEYBOARD
  <2> QED BY <1>1, <1>3, <2>1, <2>2
<1>5. /\ Placed' /\ Held' /\ stack' \in Seq(Frames) /\ stack' # <<>> /\ intr = TRUE
      /\ intr' = FALSE /\ UNCHANGED <<at, lapic, open, spinlock, keys>>
      /\ Len(stack) \in Nat /\ Len(stack') = Len(stack) + 1
      /\ \A j \in 1 .. Len(stack) : stack'[j] = stack[j]
      /\ Frame' = [vector |-> v, at |-> "entry"]
      /\ \A j \in 1 .. Len(stack') : stack'[j].vector = TIMER => at' = 11 \/ at' = 29
  BY <1>1, <1>3, TakesFrame
<1>6. Machine' BY <1>p, <1>1, <1>2, <1>5 DEF Machine
<1>7. stack # <<>> => Frame.vector = KEYBOARD /\ Frame.at = "iret"
  <2> SUFFICES ASSUME stack # <<>> PROVE Frame.vector = KEYBOARD /\ Frame.at = "iret" OBVIOUS
  <2>1. Frame.vector = KEYBOARD BY <1>p, <1>3, <1>5 DEF Served
  <2>2. ~Active(Frame) BY <1>p, <1>3, <1>4 DEF Served
  <2>3. Frame.at # "" 
    <3>1. Frame \in Frames
      <4>1. Len(stack) \in 1 .. Len(stack) BY <1>p, EmptySeq DEF Machine
      <4> HIDE DEF Frames
      <4> QED BY <1>p, <4>1, ElementOfSeq DEF Machine, Frame
    <3> QED BY <3>1 DEF Frames
  <2>4. TIMER # KEYBOARD BY DEF TIMER, KEYBOARD
  <2> QED BY <2>1, <2>2, <2>3, <2>4 DEF Active
<1>8. \A j \in 1 .. Len(stack') - 1 : stack'[j].vector = KEYBOARD /\ stack'[j].at = "iret"
  <2>1. \A j \in 1 .. Len(stack') - 1 : j \in 1 .. Len(stack) BY <1>5
  <2>2. \A j \in 1 .. Len(stack) : j \in 1 .. Len(stack) - 1 \/ j = Len(stack) BY <1>5
  <2>3. \A j \in 1 .. Len(stack) : stack # <<>> BY <1>5
  <2>4. \A j \in 1 .. Len(stack) - 1 : stack[j].vector = KEYBOARD /\ stack[j].at = "iret"
    BY <1>p, <1>3 DEF Served
  <2>5. \A j \in 1 .. Len(stack) : stack[j].vector = KEYBOARD /\ stack[j].at = "iret"
    BY <1>7, <2>2, <2>3, <2>4 DEF Frame
  <2> QED BY <1>5, <2>1, <2>5
<1>9. Served'
  <2>1. Frame'.vector = v /\ Active(Frame') BY <1>5 DEF Active
  <2>2. isr' = {v} BY <1>1, <1>4
  <2>3. isr' = (IF stack' # <<>> /\ Active(Frame') THEN {Frame'.vector} ELSE {})
    BY <1>5, <2>1, <2>2
  <2>4. Frame'.vector = KEYBOARD \/ (Frame'.vector = TIMER /\ ~intr') BY <1>3, <1>5, <2>1
  <2>5. at > 20 BY <1>p, <1>2 DEF Placed
  <2> QED BY <1>3, <1>5, <1>8, <2>3, <2>4, <2>5 DEF Served
<1>10. StrayOnlyIf' BY <1>1, <1>3 DEF StrayOnlyIf, Takes
<1> QED BY <1>5, <1>6, <1>9, <1>10 DEF BootInv

(* The invariant is inductive. *)
LEMMA BootStep == BootInv /\ [BootNext]_boot_vars => BootInv'
<1> SUFFICES ASSUME BootInv, [BootNext]_boot_vars PROVE BootInv' OBVIOUS
<1>1. CASE UNCHANGED boot_vars
  BY <1>1 DEF boot_vars, boot, pics, BootInv, Placed, Machine, Held, Served, StrayOnlyIf, Frame, Active
<1>2. CASE BootNext BY <1>2, StartInv, HandlerInv, EdgeInv, PicInterruptInv, InterruptInv DEF BootNext
<1> QED BY <1>1, <1>2

(* It implies what the run checks. *)
LEMMA BootInvImplies == BootInv => InterruptsHandled
<1> SUFFICES ASSUME BootInv PROVE InterruptsHandled OBVIOUS
<1>p. Placed /\ Machine /\ Held /\ Served /\ StrayOnlyIf BY DEF BootInv
<1>1. BootTypeOK
  <2>1. at \in 1 .. Len(Program) BY <1>p, ProgramPlaces DEF Placed
  <2>2. {intr, idt, lapic, current_task, spinlock} \subseteq BOOLEAN BY <1>p DEF Placed, Machine
  <2>3. pic \in {"masked", "open"} /\ open \subseteq {TIMER, KEYBOARD} BY <1>p DEF Placed
  <2> QED BY <1>p, <2>1, <2>2, <2>3 DEF BootTypeOK, Machine, Frames, Placed
<1>n. Len(stack) \in Nat /\ (stack = <<>> <=> Len(stack) = 0)
  <2> HIDE DEF Frames
  <2> QED BY <1>p, EmptySeq DEF Machine
<1>2. NestedOnlyAfterEoi
  <2>1. CASE lapic BY <1>p, <2>1 DEF Served, NestedOnlyAfterEoi
  <2>2. CASE ~lapic
    <3>1. stack = <<>> \/ pic_isr # {} BY <1>p, <2>2 DEF Served
    <3>2. stack = <<>> => 1 .. Len(stack) - 1 = {} BY <1>n
    <3> QED BY <3>1, <3>2 DEF NestedOnlyAfterEoi
  <2> QED BY <2>1, <2>2, <1>p DEF Placed
<1>3. InServiceExact
  <2> SUFFICES ASSUME pic_isr = {}
      PROVE  isr = {stack[j].vector : j \in {k \in 1 .. Len(stack) : Active(stack[k])}}
    BY DEF InServiceExact, Active
  <2>1. CASE stack = <<>>
    <3>1. 1 .. Len(stack) = {} BY <1>n, <2>1
    <3>2. isr = {} BY <1>p, <2>1 DEF Served, Placed
    <3> QED BY <3>1, <3>2
  <2>2. CASE stack # <<>>
    <3>1. lapic BY <1>p, <2>2 DEF Served, Placed
    <3>2. \A j \in 1 .. Len(stack) : j = Len(stack) \/ (j \in 1 .. Len(stack) - 1 /\ ~Active(stack[j]))
      <4>1. \A j \in 1 .. Len(stack) : j = Len(stack) \/ j \in 1 .. Len(stack) - 1 BY <1>n
      <4>2. \A j \in 1 .. Len(stack) - 1 : stack[j].at = "iret" BY <1>p, <3>1 DEF Served
      <4> QED BY <4>1, <4>2 DEF Active
    <3>3. Len(stack) \in 1 .. Len(stack) BY <1>n, <2>2
    <3>4. isr = (IF Active(stack[Len(stack)]) THEN {stack[Len(stack)].vector} ELSE {})
      BY <1>p, <2>2, <3>1 DEF Served, Frame
    <3> HIDE DEF Active
    <3>5. CASE Active(stack[Len(stack)])
      <4>1. {k \in 1 .. Len(stack) : Active(stack[k])} = {Len(stack)} BY <3>2, <3>3, <3>5
      <4> QED BY <3>4, <3>5, <4>1
    <3>6. CASE ~Active(stack[Len(stack)])
      <4>1. {k \in 1 .. Len(stack) : Active(stack[k])} = {} BY <3>2, <3>6
      <4> QED BY <3>4, <3>6, <4>1
    <3> QED BY <3>5, <3>6
  <2> QED BY <2>1, <2>2
<1>4. LockFreeInHandler BY <1>p DEF Held, LockFreeInHandler
<1> QED BY <1>p, <1>1, <1>2, <1>3, <1>4 DEF InterruptsHandled

(* main.c, idt.asm, isr.c, pic.c: whatever interrupts come, and however    *)
(* often, between the steps of the boot, only those of a PIC that          *)
(* remap_pic has open find no handler or no task, and only those of the    *)
(* keyboard may take the boot's registers; handlers nest only behind their *)
(* end of interrupt, and none waits for the lock of the code it has        *)
(* interrupted.                                                            *)
THEOREM InterruptsAreHandled == BootSpec => []InterruptsHandled
<1>1. BootInit => BootInv BY BootInitInv
<1>2. BootInv /\ [BootNext]_boot_vars => BootInv' BY BootStep
<1>3. BootInv => InterruptsHandled BY BootInvImplies
<1> QED BY <1>1, <1>2, <1>3, PTL DEF BootSpec

-----------------------------------------------------------------------------
(* The timers: timer.c and hpet.c.                                         *)

(* The clocks since reset_apic_timer, as the local timer counts them, and  *)
(* those since the last reset of the HPET, as it does.                     *)
Elapsed == (MAX_INIT_COUNT_VAL - current_count) * RESET_DIVIDER + prescale
Measure == main_counter * FEMTO + phase

(* The instructions of apic_timer_init: what each finds.  The count is     *)
(* never less than the HPET's, but for the tick that had begun, and ahead  *)
(* of it by the delays of the instructions.                                *)
Calibrating ==
    /\ timer_pc \in {"hpet_init", "reset_hpet", "reset_apic", "start_hpet", "poll", "mask", "read",
                     "divide"} => divider = RESET_DIVIDER
    /\ timer_pc \in {"load", "done"} => divider = DIVIDER
    /\ timer_pc \in {"start_hpet", "poll", "mask", "read"} => init_count = MAX_INIT_COUNT_VAL
    /\ timer_pc \in {"reset_apic", "start_hpet"} => main_counter = 0
    /\ timer_pc \in {"reset_hpet", "reset_apic", "start_hpet"} => hpet_on = FALSE
    /\ timer_pc = "start_hpet" => Elapsed <= lag
    /\ timer_pc = "poll" =>
         /\ hpet_on = TRUE
         /\ Measure <= Elapsed + FEMTO - 1
         /\ Elapsed <= Measure + DELAY
         /\ Elapsed <= INTERVAL + FEMTO - 2 + DELAY + lag
    /\ timer_pc = "mask" =>
         /\ Elapsed >= INTERVAL - FEMTO + 1
         /\ Elapsed <= INTERVAL + FEMTO - 2 + 2 * DELAY + lag
    /\ timer_pc = "read" =>
         /\ Elapsed >= INTERVAL - FEMTO + 1
         /\ Elapsed <= INTERVAL + FEMTO - 2 + 3 * DELAY + lag
    /\ Measured
    /\ timer_pc = "done" => init_count = ticks

(* Nobody sleeps before the boot is done, and a sleeper has slept at least *)
(* as long as the HPET shows, whoever set it back.                         *)
Sleeping ==
    /\ timer_pc \notin {"done", "astray"} => \A s \in Sleepers : task[s] = "away"
    /\ \A s \in Sleepers : task[s] = "away" => slept[s] = 0
    /\ \A s \in Sleepers : task[s] \in {"start", "poll"} =>
           slept[s] = LONGEST \/ Measure <= slept[s] + FEMTO - 1

TimerInv == TimerTypeOK /\ Calibrating /\ Sleeping

(* The numbers, one by one. *)
LEMMA TimerFacts ==
    /\ FEMTO \in Nat \ {0} /\ INTERVAL \in Nat \ {0} /\ RESET_DIVIDER \in Nat \ {0}
    /\ DIVIDER \in Nat \ {0} /\ MAX_INIT_COUNT_VAL \in Nat \ {0}
    /\ DELAY \in Nat /\ LONGEST \in Nat /\ WORD \in Nat \ {0} /\ MICRO \in Nat \ {0}
    /\ INTERVAL + 2 * FEMTO + 2 * DELAY < WORD
    /\ MAX_INIT_COUNT_VAL * RESET_DIVIDER \in Nat
    /\ MAX_INIT_COUNT_VAL * RESET_DIVIDER >= INTERVAL + FEMTO + 4 * DELAY
<1>1. \A x \in {FEMTO, WORD, MICRO, INTERVAL, RESET_DIVIDER, DIVIDER, MAX_INIT_COUNT_VAL} :
          x \in Nat \ {0}
  BY TimerNumbers
<1> QED BY <1>1, TimerNumbers

(* A counter that wraps. *)
LEMMA Wraps ==
    ASSUME NEW n \in Nat \ {0}, NEW p \in 0 .. n - 1
    PROVE  (p + 1) % n = (IF p = n - 1 THEN 0 ELSE p + 1)
<1>1. CASE p = n - 1
  <2>1. p + 1 = 1 * n + 0 /\ 0 \in 0 .. n - 1 BY <1>1
  <2>2. (1 * n + 0) % n = 0 BY <2>1, ModOfMultiple
  <2> QED BY <1>1, <2>1, <2>2
<1>2. CASE p # n - 1
  <2>1. p + 1 = 0 * n + (p + 1) /\ p + 1 \in 0 .. n - 1 BY <1>2
  <2>2. (0 * n + (p + 1)) % n = p + 1 BY <2>1, ModOfMultiple
  <2> QED BY <1>2, <2>1, <2>2
<1> QED BY <1>1, <1>2

(* A product that fits a word does not wrap, and none gets greater. *)
LEMMA FitsWord ==
    ASSUME NEW x \in Nat
    PROVE  /\ x < WORD => x % WORD = x
           /\ x % WORD \in Nat /\ x % WORD <= x
<1>1. WORD \in Nat \ {0} BY TimerFacts
<1>2. ASSUME x < WORD PROVE x % WORD = x
  <2>1. x = 0 * WORD + x /\ x \in 0 .. WORD - 1 BY <1>1, <1>2
  <2>2. (0 * WORD + x) % WORD = x BY <1>1, <2>1, ModOfMultiple
  <2> QED BY <2>1, <2>2
<1>3. x % WORD \in 0 .. WORD - 1 BY <1>1
<1>4. x >= WORD => x % WORD <= x BY <1>1, <1>3
<1> QED BY <1>1, <1>2, <1>3, <1>4

(* What the two counters are. *)
LEMMA Counters ==
    ASSUME TimerTypeOK
    PROVE  /\ Measure \in Nat /\ main_counter * FEMTO \in Nat
           /\ Measure >= main_counter * FEMTO /\ Measure <= main_counter * FEMTO + FEMTO - 1
           /\ main_counter = 0 => Measure <= FEMTO - 1
           /\ main_counter <= Measure
           /\ Elapsed \in Int
           /\ current_count = 0 => Elapsed >= MAX_INIT_COUNT_VAL * RESET_DIVIDER
           /\ (MAX_INIT_COUNT_VAL - current_count) * RESET_DIVIDER \in Int
           /\ Elapsed = (MAX_INIT_COUNT_VAL - current_count) * RESET_DIVIDER + prescale
<1>1. /\ main_counter \in Nat /\ phase \in 0 .. FEMTO - 1
      /\ current_count \in Nat /\ prescale \in Nat /\ FEMTO \in Nat \ {0}
      /\ RESET_DIVIDER \in Nat \ {0} /\ MAX_INIT_COUNT_VAL \in Nat \ {0}
  BY TimerFacts DEF TimerTypeOK
<1>2. main_counter * FEMTO \in Nat BY <1>1
<1>3. (MAX_INIT_COUNT_VAL - current_count) * RESET_DIVIDER \in Int BY <1>1
<1>4. main_counter = 0 => main_counter * FEMTO = 0 BY <1>1
<1>5. current_count = 0 =>
        (MAX_INIT_COUNT_VAL - current_count) * RESET_DIVIDER = MAX_INIT_COUNT_VAL * RESET_DIVIDER
  BY <1>1
<1>6. Measure \in Nat /\ Measure >= main_counter * FEMTO /\ Measure <= main_counter * FEMTO + FEMTO - 1
  BY <1>1, <1>2 DEF Measure
<1>7. Elapsed \in Int /\ (current_count = 0 => Elapsed >= MAX_INIT_COUNT_VAL * RESET_DIVIDER)
  BY <1>1, <1>3, <1>5, TimerFacts DEF Elapsed
<1>8. main_counter = 0 => Measure <= FEMTO - 1 BY <1>1, <1>4 DEF Measure
<1>9. main_counter <= Measure
  <2>1. \A x \in Nat, y \in Nat \ {0} : x <= x * y OBVIOUS
  <2> QED BY <1>1, <1>2, <1>6, <2>1
<1> QED BY <1>2, <1>3, <1>6, <1>7, <1>8, <1>9 DEF Elapsed

(* A clock of the HPET: it counts one, or wraps. *)
LEMMA HpetStep ==
    ASSUME TimerTypeOK, HpetClock
    PROVE  /\ phase' \in 0 .. FEMTO - 1 /\ main_counter' \in 0 .. WORD - 1
           /\ Measure' \in Nat /\ Measure' <= Measure + 1
           /\ hpet_on = TRUE /\ main_counter + 1 < WORD => Measure' = Measure + 1
           /\ hpet_on = FALSE => main_counter' = main_counter
<1>1. /\ main_counter \in 0 .. WORD - 1 /\ phase \in 0 .. FEMTO - 1 /\ FEMTO \in Nat \ {0}
      /\ WORD \in Nat \ {0}
  BY TimerFacts DEF TimerTypeOK
<1>2. phase' = (IF phase = FEMTO - 1 THEN 0 ELSE phase + 1)
  <2>1. \A p \in 0 .. FEMTO - 1 : (p + 1) % FEMTO = (IF p = FEMTO - 1 THEN 0 ELSE p + 1)
    BY <1>1, Wraps
  <2> QED BY <1>1, <2>1 DEF HpetClock
<1>3. main_counter' = (IF hpet_on /\ phase' = 0 THEN (main_counter + 1) % WORD ELSE main_counter)
  BY DEF HpetClock
<1>4. (main_counter + 1) % WORD = (IF main_counter = WORD - 1 THEN 0 ELSE main_counter + 1)
  BY <1>1, Wraps
<1>5. phase' \in 0 .. FEMTO - 1 BY <1>1, <1>2
<1>6. \/ main_counter' = main_counter
      \/ main_counter' = main_counter + 1 /\ phase' = 0
      \/ main_counter' = 0 /\ phase' = 0 /\ main_counter + 1 = WORD
  BY <1>1, <1>3, <1>4
<1>7. main_counter' \in 0 .. WORD - 1 BY <1>1, <1>3, <1>4
<1> DEFINE w == main_counter * FEMTO
<1>8. w \in Nat /\ (main_counter + 1) * FEMTO = w + FEMTO BY <1>1
<1>9. Measure = w + phase BY DEF Measure
<1>10. main_counter' = main_counter => Measure' = w + phase' BY DEF Measure
<1>11. main_counter' = main_counter + 1 => Measure' = w + FEMTO + phase' BY <1>8 DEF Measure
<1>16. main_counter' = 0 => Measure' = phase'
  <2>1. 0 * FEMTO = 0 BY <1>1
  <2> QED BY <1>5, <2>1 DEF Measure
<1> HIDE DEF w
<1>12. Measure' \in Nat BY <1>1, <1>5, <1>6, <1>8, <1>10, <1>11, <1>16
<1>13. Measure' <= Measure + 1
  <2>1. CASE main_counter' = main_counter BY <1>1, <1>2, <1>8, <1>9, <1>10, <2>1
  <2>2. CASE main_counter' = main_counter + 1 /\ phase' = 0
    <3>1. phase = FEMTO - 1 BY <1>1, <1>2, <2>2
    <3> QED BY <1>1, <1>8, <1>9, <1>11, <2>2, <3>1
  <2>3. CASE main_counter' = 0 /\ phase' = 0 BY <1>1, <1>8, <1>9, <1>16, <2>3
  <2> QED BY <1>6, <2>1, <2>2, <2>3
<1>14. ASSUME hpet_on = TRUE, main_counter + 1 < WORD PROVE Measure' = Measure + 1
  <2>1. CASE phase' = 0
    <3>1. phase = FEMTO - 1 BY <1>1, <1>2, <2>1
    <3>2. main_counter' = main_counter + 1 BY <1>1, <1>3, <1>4, <1>14, <2>1
    <3> QED BY <1>1, <1>8, <1>9, <1>11, <2>1, <3>1, <3>2
  <2>2. CASE phase' # 0
    <3>1. main_counter' = main_counter BY <1>3, <2>2
    <3>2. phase' = phase + 1 BY <1>2, <2>2
    <3> QED BY <1>1, <1>8, <1>9, <1>10, <3>1, <3>2
  <2> QED BY <2>1, <2>2
<1>15. hpet_on = FALSE => main_counter' = main_counter BY <1>3
<1> QED BY <1>5, <1>7, <1>12, <1>13, <1>14, <1>15

(* A clock of the local timer, which counts as long as its count lasts. *)
LEMMA LapicStep ==
    ASSUME TimerTypeOK, LapicClock, divider' = divider, init_count' = init_count
    PROVE  /\ prescale' \in 0 .. divider' - 1 /\ current_count' \in 0 .. init_count'
           /\ divider = RESET_DIVIDER /\ current_count > 0 => Elapsed' = Elapsed + 1
<1>1. /\ init_count \in Nat /\ current_count \in 0 .. init_count /\ divider \in Nat \ {0}
      /\ prescale \in 0 .. divider - 1 /\ RESET_DIVIDER \in Nat \ {0}
      /\ MAX_INIT_COUNT_VAL \in Nat
  BY TimerFacts DEF TimerTypeOK
<1>2. prescale' = (IF prescale = divider - 1 THEN 0 ELSE prescale + 1)
  <2>1. \A p \in 0 .. divider - 1 : (p + 1) % divider = (IF p = divider - 1 THEN 0 ELSE p + 1)
    BY <1>1, Wraps
  <2> QED BY <1>1, <2>1 DEF LapicClock
<1>3. current_count' = (IF prescale' = 0 /\ current_count > 0 THEN current_count - 1
                        ELSE current_count)
  BY DEF LapicClock
<1>4. prescale' \in 0 .. divider' - 1 /\ current_count' \in 0 .. init_count' BY <1>1, <1>2, <1>3
<1>5. ASSUME divider = RESET_DIVIDER, current_count > 0 PROVE Elapsed' = Elapsed + 1
  <2> DEFINE w == (MAX_INIT_COUNT_VAL - current_count) * RESET_DIVIDER
  <2>1. w \in Int /\ (MAX_INIT_COUNT_VAL - (current_count - 1)) * RESET_DIVIDER = w + RESET_DIVIDER
    <3>1. MAX_INIT_COUNT_VAL - (current_count - 1) = (MAX_INIT_COUNT_VAL - current_count) + 1
      BY <1>1
    <3>2. MAX_INIT_COUNT_VAL - current_count \in Int BY <1>1
    <3>3. \A x, y \in Int : (x + 1) * y = x * y + y OBVIOUS
    <3> QED BY <1>1, <3>1, <3>2, <3>3
  <2>2. Elapsed = w + prescale BY DEF Elapsed
  <2>3. CASE prescale = divider - 1
    <3>1. prescale' = 0 /\ current_count' = current_count - 1 BY <1>2, <1>3, <1>5, <2>3
    <3>2. Elapsed' = w + RESET_DIVIDER + 0 BY <2>1, <3>1 DEF Elapsed
    <3> HIDE DEF w
    <3> QED BY <1>1, <1>5, <2>1, <2>2, <2>3, <3>2
  <2>4. CASE prescale # divider - 1
    <3>1. prescale' = prescale + 1 /\ current_count' = current_count BY <1>1, <1>2, <1>3, <2>4
    <3>2. Elapsed' = w + (prescale + 1) BY <3>1 DEF Elapsed
    <3> HIDE DEF w
    <3> QED BY <1>1, <2>1, <2>2, <3>2
  <2> QED BY <2>3, <2>4
<1> QED BY <1>4, <1>5

(* The timers start before any calibration and any sleep. *)
LEMMA TimerInitInv == TimerInit => TimerInv
<1> SUFFICES ASSUME TimerInit PROVE TimerInv OBVIOUS
<1>1. TimerTypeOK
  <2>1. /\ lag \in 0 .. DELAY /\ main_counter \in 0 .. WORD - 1 /\ phase \in 0 .. FEMTO - 1
        /\ init_count \in 0 .. MAX_INIT_COUNT_VAL /\ current_count \in 0 .. init_count
        /\ divider \in {RESET_DIVIDER, DIVIDER} /\ prescale \in 0 .. divider - 1
        /\ ticks \in 0 .. MAX_INIT_COUNT_VAL
    BY TimerFacts DEF TimerInit
  <2>2. task \in [Sleepers -> {"away", "start", "poll", "lost", "back"}] BY DEF TimerInit
  <2>3. nap \in [Sleepers -> Naps \cup {0}] BY DEF TimerInit
  <2>4. slept \in [Sleepers -> 0 .. LONGEST] BY TimerFacts DEF TimerInit
  <2>5. timer_pc = "hpet_init" /\ hpet_on \in BOOLEAN BY DEF TimerInit
  <2> QED BY <2>1, <2>2, <2>3, <2>4, <2>5 DEF TimerTypeOK
<1>2. Calibrating BY DEF TimerInit, Calibrating, Measured
<1>3. Sleeping BY DEF TimerInit, Sleeping
<1> QED BY <1>1, <1>2, <1>3 DEF TimerInv

(* The instructions of the boot keep the sleepers away, and their types. *)
LEMMA InstructionSleeps ==
    ASSUME TimerInv, NEW here, NEW there, Instruction(here, there),
           here \notin {"done", "astray"}, UNCHANGED naps
    PROVE  /\ Sleeping' /\ lag' = 0 /\ lag' \in 0 .. DELAY
           /\ task' \in [Sleepers -> {"away", "start", "poll", "lost", "back"}]
           /\ nap' \in [Sleepers -> Naps \cup {0}] /\ slept' \in [Sleepers -> 0 .. LONGEST]
<1>1. timer_pc \notin {"done", "astray"} /\ lag' = 0 BY DEF Instruction
<1>2. \A s \in Sleepers : task[s] = "away" /\ slept[s] = 0 BY <1>1 DEF TimerInv, Sleeping
<1>3. task' = task /\ slept' = slept /\ nap' = nap BY DEF naps
<1>4. Sleeping' BY <1>2, <1>3 DEF Sleeping
<1>5. 0 \in 0 .. DELAY BY TimerFacts
<1> QED BY <1>1, <1>3, <1>4, <1>5 DEF TimerInv, TimerTypeOK

(* The instructions of hpet_init and apic_timer_init. *)
LEMMA InstructionInv == TimerInv /\ (hpet_init \/ apic_timer_init \/ BootAstray) => TimerInv'
<1> SUFFICES ASSUME TimerInv, hpet_init \/ apic_timer_init \/ BootAstray PROVE TimerInv' OBVIOUS
<1>t. TimerTypeOK /\ Calibrating BY DEF TimerInv
<1>f. /\ FEMTO \in Nat \ {0} /\ INTERVAL \in Nat \ {0} /\ RESET_DIVIDER \in Nat \ {0}
      /\ DIVIDER \in Nat \ {0} /\ MAX_INIT_COUNT_VAL \in Nat \ {0}
      /\ DELAY \in Nat /\ WORD \in Nat \ {0} /\ INTERVAL + 2 * FEMTO + 2 * DELAY < WORD
  BY TimerFacts
<1>c. /\ Measure \in Nat /\ Elapsed \in Int /\ lag \in 0 .. DELAY
      /\ main_counter = 0 => Measure <= FEMTO - 1
  BY <1>t, Counters DEF TimerTypeOK
<1>1. CASE hpet_init
  <2>1. /\ Instruction("hpet_init", timer_pc') /\ timer_pc' \in {"reset_hpet", "panic"}
        /\ (timer_pc' = "reset_hpet" => hpet_on' = FALSE) /\ hpet_on' \in BOOLEAN
        /\ UNCHANGED <<main_counter, phase, init_count, current_count, divider, prescale, ticks>>
        /\ UNCHANGED naps
    BY <1>1, <1>t DEF hpet_init, Instruction, local_timer, TimerTypeOK
  <2>2. /\ Sleeping' /\ lag' \in 0 .. DELAY
        /\ task' \in [Sleepers -> {"away", "start", "poll", "lost", "back"}]
        /\ nap' \in [Sleepers -> Naps \cup {0}] /\ slept' \in [Sleepers -> 0 .. LONGEST]
    BY <2>1, InstructionSleeps
  <2>3. TimerTypeOK' BY <1>t, <2>1, <2>2 DEF TimerTypeOK
  <2>4. divider = RESET_DIVIDER BY <1>t, <2>1 DEF Calibrating, Instruction
  <2>5. Calibrating' BY <2>1, <2>4 DEF Calibrating, Measured
  <2> QED BY <2>2, <2>3, <2>5 DEF TimerInv
<1>2. CASE reset_hpet_timer
  <2>1. /\ Instruction("reset_hpet", "reset_apic") /\ main_counter' = 0
        /\ UNCHANGED <<hpet_on, phase, init_count, current_count, divider, prescale, ticks>>
        /\ UNCHANGED naps
    BY <1>2 DEF reset_hpet_timer, local_timer
  <2>2. /\ Sleeping' /\ lag' \in 0 .. DELAY
        /\ task' \in [Sleepers -> {"away", "start", "poll", "lost", "back"}]
        /\ nap' \in [Sleepers -> Naps \cup {0}] /\ slept' \in [Sleepers -> 0 .. LONGEST]
    BY <2>1, InstructionSleeps
  <2>3. timer_pc = "reset_hpet" /\ timer_pc' = "reset_apic" BY <2>1 DEF Instruction
  <2>a. main_counter' \in 0 .. WORD - 1 BY <1>f, <2>1
  <2>4. TimerTypeOK' BY <1>t, <2>1, <2>2, <2>3, <2>a DEF TimerTypeOK
  <2>5. Calibrating' BY <1>t, <2>1, <2>3 DEF Calibrating, Measured
  <2> QED BY <2>2, <2>4, <2>5 DEF TimerInv
<1>3. CASE reset_apic_timer
  <2>1. /\ Instruction("reset_apic", "start_hpet")
        /\ init_count' = MAX_INIT_COUNT_VAL /\ current_count' = MAX_INIT_COUNT_VAL /\ prescale' = 0
        /\ UNCHANGED <<hpet_on, main_counter, phase, divider, ticks>>
        /\ UNCHANGED naps
    BY <1>3 DEF reset_apic_timer, LoadTimer, hpet
  <2>2. /\ Sleeping' /\ lag' = 0 /\ lag' \in 0 .. DELAY
        /\ task' \in [Sleepers -> {"away", "start", "poll", "lost", "back"}]
        /\ nap' \in [Sleepers -> Naps \cup {0}] /\ slept' \in [Sleepers -> 0 .. LONGEST]
    BY <2>1, InstructionSleeps
  <2>3. timer_pc = "reset_apic" /\ timer_pc' = "start_hpet" BY <2>1 DEF Instruction
  <2>a. /\ init_count' \in 0 .. MAX_INIT_COUNT_VAL /\ current_count' \in 0 .. init_count'
        /\ prescale' \in 0 .. divider' - 1
    BY <1>f, <1>t, <2>1 DEF TimerTypeOK
  <2>4. TimerTypeOK' BY <1>t, <2>1, <2>2, <2>3, <2>a DEF TimerTypeOK
  <2>6. Elapsed' = 0
    <3>1. (MAX_INIT_COUNT_VAL - MAX_INIT_COUNT_VAL) * RESET_DIVIDER = 0 BY <1>f
    <3> QED BY <2>1, <3>1 DEF Elapsed
  <2>5. Calibrating' BY <1>t, <2>1, <2>2, <2>3, <2>6 DEF Calibrating, Measured
  <2> QED BY <2>2, <2>4, <2>5 DEF TimerInv
<1>4. CASE start_hpet_timer
  <2>1. /\ Instruction("start_hpet", "poll") /\ hpet_on' = TRUE
        /\ UNCHANGED <<main_counter, phase, init_count, current_count, divider, prescale, ticks>>
        /\ UNCHANGED naps
    BY <1>4 DEF start_hpet_timer, local_timer
  <2>2. /\ Sleeping' /\ lag' = 0 /\ lag' \in 0 .. DELAY
        /\ task' \in [Sleepers -> {"away", "start", "poll", "lost", "back"}]
        /\ nap' \in [Sleepers -> Naps \cup {0}] /\ slept' \in [Sleepers -> 0 .. LONGEST]
    BY <2>1, InstructionSleeps
  <2>3. timer_pc = "start_hpet" /\ timer_pc' = "poll" BY <2>1 DEF Instruction
  <2>4. TimerTypeOK' BY <1>t, <2>1, <2>2, <2>3 DEF TimerTypeOK
  <2>6. Elapsed' = Elapsed /\ Measure' = Measure BY <2>1 DEF Elapsed, Measure
  <2>7. Elapsed <= lag /\ main_counter = 0 /\ Measure <= FEMTO - 1
    BY <1>c, <1>t, <2>3 DEF Calibrating
  <2>8. Elapsed >= 0
    <3>1. current_count \in 0 .. MAX_INIT_COUNT_VAL /\ prescale \in Nat
      BY <1>f, <1>t, <2>3 DEF TimerTypeOK, Calibrating
    <3>2. (MAX_INIT_COUNT_VAL - current_count) * RESET_DIVIDER \in Nat
      <4>1. MAX_INIT_COUNT_VAL - current_count \in Nat BY <1>f, <3>1
      <4> QED BY <1>f, <4>1
    <3> QED BY <3>1, <3>2 DEF Elapsed
  <2>9. /\ Measure' <= Elapsed' + FEMTO - 1 /\ Elapsed' <= Measure' + DELAY
        /\ Elapsed' <= INTERVAL + FEMTO - 2 + DELAY + lag'
    BY <1>c, <1>f, <2>2, <2>6, <2>7, <2>8
  <2>5. Calibrating' BY <1>t, <2>1, <2>3, <2>9 DEF Calibrating, Measured
  <2> QED BY <2>2, <2>4, <2>5 DEF TimerInv
<1>5. CASE Poll
  <2>0. /\ hpet_on = TRUE /\ Measure <= Elapsed + FEMTO - 1 /\ Elapsed <= Measure + DELAY
        /\ Elapsed <= INTERVAL + FEMTO - 2 + DELAY + lag
    BY <1>5, <1>t DEF Calibrating, Poll, Instruction
  <2>8. /\ main_counter * FEMTO \in Nat /\ Measure >= main_counter * FEMTO
        /\ Measure <= main_counter * FEMTO + FEMTO - 1 /\ main_counter \in Nat
    BY <1>t, Counters, TimerFacts DEF TimerTypeOK
  <2>b. poll_time_hpet_timer = main_counter * FEMTO
    <3>1. main_counter * FEMTO < WORD BY <1>c, <1>f, <2>0, <2>8
    <3> QED BY <2>8, <3>1, FitsWord DEF poll_time_hpet_timer
  <2>1. /\ Instruction("poll", IF main_counter * FEMTO < INTERVAL THEN "poll" ELSE "mask")
        /\ UNCHANGED <<hpet_on, main_counter, phase, init_count, current_count, divider, prescale, ticks>>
        /\ UNCHANGED naps
    BY <1>5, <2>b DEF Poll, local_timer, hpet
  <2>2. /\ Sleeping' /\ lag' = 0 /\ lag' \in 0 .. DELAY
        /\ task' \in [Sleepers -> {"away", "start", "poll", "lost", "back"}]
        /\ nap' \in [Sleepers -> Naps \cup {0}] /\ slept' \in [Sleepers -> 0 .. LONGEST]
    BY <2>1, InstructionSleeps
  <2>3. timer_pc = "poll" /\ timer_pc' = (IF main_counter * FEMTO < INTERVAL THEN "poll" ELSE "mask")
    BY <2>1 DEF Instruction
  <2>4. TimerTypeOK' BY <1>t, <2>1, <2>2, <2>3 DEF TimerTypeOK
  <2>6. Elapsed' = Elapsed /\ Measure' = Measure BY <2>1 DEF Elapsed, Measure
  <2>9. CASE main_counter * FEMTO < INTERVAL
    <3>2. Elapsed' <= INTERVAL + FEMTO - 2 + DELAY + lag'
      BY <1>c, <1>f, <2>2, <2>6, <2>0, <2>8, <2>9
    <3>3. timer_pc' = "poll" BY <2>3, <2>9
    <3>4. Calibrating' BY <1>t, <2>1, <2>3, <2>6, <2>0, <3>2, <3>3 DEF Calibrating, Measured
    <3> QED BY <2>2, <2>4, <3>4 DEF TimerInv
  <2>10. CASE ~(main_counter * FEMTO < INTERVAL)
    <3>1. timer_pc' = "mask" BY <2>3, <2>10
    <3>2. Elapsed' >= INTERVAL - FEMTO + 1 BY <1>c, <1>f, <2>6, <2>0, <2>8, <2>10
    <3>3. Elapsed' <= INTERVAL + FEMTO - 2 + 2 * DELAY + lag' BY <1>c, <1>f, <2>2, <2>6, <2>0
    <3>4. Calibrating' BY <1>t, <2>1, <2>3, <3>1, <3>2, <3>3 DEF Calibrating, Measured
    <3> QED BY <2>2, <2>4, <3>4 DEF TimerInv
  <2> QED BY <2>9, <2>10
<1>6. CASE MaskTimer
  <2>1. /\ Instruction("mask", "read")
        /\ UNCHANGED <<hpet_on, main_counter, phase, init_count, current_count, divider, prescale, ticks>>
        /\ UNCHANGED naps
    BY <1>6 DEF MaskTimer, local_timer, hpet
  <2>2. /\ Sleeping' /\ lag' = 0 /\ lag' \in 0 .. DELAY
        /\ task' \in [Sleepers -> {"away", "start", "poll", "lost", "back"}]
        /\ nap' \in [Sleepers -> Naps \cup {0}] /\ slept' \in [Sleepers -> 0 .. LONGEST]
    BY <2>1, InstructionSleeps
  <2>3. timer_pc = "mask" /\ timer_pc' = "read" BY <2>1 DEF Instruction
  <2>4. TimerTypeOK' BY <1>t, <2>1, <2>2, <2>3 DEF TimerTypeOK
  <2>6. Elapsed' = Elapsed BY <2>1 DEF Elapsed
  <2>7. Elapsed >= INTERVAL - FEMTO + 1 /\ Elapsed <= INTERVAL + FEMTO - 2 + 2 * DELAY + lag
    BY <1>t, <2>3 DEF Calibrating
  <2>8. Elapsed' >= INTERVAL - FEMTO + 1 /\ Elapsed' <= INTERVAL + FEMTO - 2 + 3 * DELAY + lag'
    BY <1>c, <1>f, <2>2, <2>6, <2>7
  <2>5. Calibrating' BY <1>t, <2>1, <2>3, <2>8 DEF Calibrating, Measured
  <2> QED BY <2>2, <2>4, <2>5 DEF TimerInv
<1>7. CASE ReadCount
  <2>1. /\ Instruction("read", "divide") /\ ticks' = MAX_INIT_COUNT_VAL - current_count
        /\ UNCHANGED <<hpet_on, main_counter, phase, init_count, current_count, divider, prescale>>
        /\ UNCHANGED naps
    BY <1>7 DEF ReadCount, local_timer, hpet
  <2>2. /\ Sleeping' /\ lag' \in 0 .. DELAY
        /\ task' \in [Sleepers -> {"away", "start", "poll", "lost", "back"}]
        /\ nap' \in [Sleepers -> Naps \cup {0}] /\ slept' \in [Sleepers -> 0 .. LONGEST]
    BY <2>1, InstructionSleeps
  <2>3. timer_pc = "read" /\ timer_pc' = "divide" BY <2>1 DEF Instruction
  <2>6. /\ Elapsed >= INTERVAL - FEMTO + 1 /\ Elapsed <= INTERVAL + FEMTO - 2 + 3 * DELAY + lag
        /\ divider = RESET_DIVIDER /\ init_count = MAX_INIT_COUNT_VAL
    BY <1>t, <2>3 DEF Calibrating
  <2>a. ticks' \in 0 .. MAX_INIT_COUNT_VAL BY <1>f, <1>t, <2>1, <2>6 DEF TimerTypeOK
  <2>4. TimerTypeOK' BY <1>t, <2>1, <2>2, <2>3, <2>a DEF TimerTypeOK
  <2>7. ticks' * RESET_DIVIDER \in Int /\ Elapsed = ticks' * RESET_DIVIDER + prescale
    BY <1>t, <2>1, Counters
  <2>8. prescale \in 0 .. RESET_DIVIDER - 1 BY <1>t, <2>6 DEF TimerTypeOK
  <2>9. /\ ticks' * RESET_DIVIDER > INTERVAL - FEMTO - RESET_DIVIDER
        /\ ticks' * RESET_DIVIDER <= INTERVAL + FEMTO + 4 * DELAY
    <3> DEFINE w == ticks' * RESET_DIVIDER
    <3> HIDE DEF w
    <3>1. w \in Int /\ Elapsed = w + prescale BY <2>7 DEF w
    <3>2. w > INTERVAL - FEMTO - RESET_DIVIDER /\ w <= INTERVAL + FEMTO + 4 * DELAY
      BY <1>c, <1>f, <2>6, <2>8, <3>1
    <3> QED BY <3>2 DEF w
  <2>5. Calibrating' BY <1>t, <2>1, <2>3, <2>9 DEF Calibrating, Measured
  <2> QED BY <2>2, <2>4, <2>5 DEF TimerInv
<1>8. CASE SetDivider
  <2>1. /\ Instruction("divide", "load") /\ divider' = DIVIDER /\ prescale' = 0
        /\ UNCHANGED <<hpet_on, main_counter, phase, init_count, current_count, ticks>>
        /\ UNCHANGED naps
    BY <1>8 DEF SetDivider, hpet
  <2>2. /\ Sleeping' /\ lag' \in 0 .. DELAY
        /\ task' \in [Sleepers -> {"away", "start", "poll", "lost", "back"}]
        /\ nap' \in [Sleepers -> Naps \cup {0}] /\ slept' \in [Sleepers -> 0 .. LONGEST]
    BY <2>1, InstructionSleeps
  <2>3. timer_pc = "divide" /\ timer_pc' = "load" BY <2>1 DEF Instruction
  <2>a. prescale' \in 0 .. divider' - 1 BY <1>f, <2>1
  <2>4. TimerTypeOK' BY <1>t, <2>1, <2>2, <2>3, <2>a DEF TimerTypeOK
  <2>5. Calibrating' BY <1>t, <2>1, <2>3 DEF Calibrating, Measured
  <2> QED BY <2>2, <2>4, <2>5 DEF TimerInv
<1>9. CASE LoadCount
  <2>1. /\ Instruction("load", "done")
        /\ init_count' = ticks /\ current_count' = ticks /\ prescale' = 0
        /\ UNCHANGED <<hpet_on, main_counter, phase, divider, ticks>>
        /\ UNCHANGED naps
    BY <1>9 DEF LoadCount, LoadTimer, hpet
  <2>2. /\ Sleeping' /\ lag' \in 0 .. DELAY
        /\ task' \in [Sleepers -> {"away", "start", "poll", "lost", "back"}]
        /\ nap' \in [Sleepers -> Naps \cup {0}] /\ slept' \in [Sleepers -> 0 .. LONGEST]
    BY <2>1, InstructionSleeps
  <2>3. timer_pc = "load" /\ timer_pc' = "done" BY <2>1 DEF Instruction
  <2>a. /\ init_count' \in 0 .. MAX_INIT_COUNT_VAL /\ current_count' \in 0 .. init_count'
        /\ prescale' \in 0 .. divider' - 1
    BY <1>f, <1>t, <2>1 DEF TimerTypeOK
  <2>4. TimerTypeOK' BY <1>t, <2>1, <2>2, <2>3, <2>a DEF TimerTypeOK
  <2>5. Calibrating' BY <1>t, <2>1, <2>3 DEF Calibrating, Measured
  <2> QED BY <2>2, <2>4, <2>5 DEF TimerInv
<1>10. CASE BootAstray
  <2>1. /\ Instruction(timer_pc, "astray") /\ timer_pc \notin {"done", "astray"}
        /\ UNCHANGED <<hpet_on, main_counter, phase, init_count, current_count, divider, prescale, ticks>>
        /\ UNCHANGED naps
    BY <1>10 DEF BootAstray, local_timer, hpet
  <2>2. /\ Sleeping' /\ lag' \in 0 .. DELAY
        /\ task' \in [Sleepers -> {"away", "start", "poll", "lost", "back"}]
        /\ nap' \in [Sleepers -> Naps \cup {0}] /\ slept' \in [Sleepers -> 0 .. LONGEST]
    BY <2>1, InstructionSleeps
  <2>3. timer_pc' = "astray" BY <2>1 DEF Instruction
  <2>4. TimerTypeOK' BY <1>t, <2>1, <2>2, <2>3 DEF TimerTypeOK
  <2>5. Calibrating' BY <1>t, <2>1, <2>3 DEF Calibrating, Measured
  <2> QED BY <2>2, <2>4, <2>5 DEF TimerInv
<1> QED BY <1>1, <1>2, <1>3, <1>4, <1>5, <1>6, <1>7, <1>8, <1>9, <1>10 DEF apic_timer_init

(* A clock during the boot. *)
LEMMA BootClockInv ==
    ASSUME TimerInv, HpetClock, timer_pc \notin {"done", "panic", "astray"}, lag < DELAY, lag' = lag + 1,
           LapicClock, UNCHANGED <<timer_pc, hpet_on, init_count, divider, ticks, task, nap, slept>>
    PROVE  TimerInv'
<1>t. TimerTypeOK /\ Calibrating BY DEF TimerInv
<1>f. /\ FEMTO \in Nat \ {0} /\ INTERVAL \in Nat \ {0} /\ RESET_DIVIDER \in Nat \ {0}
      /\ DELAY \in Nat /\ WORD \in Nat \ {0} /\ INTERVAL + 2 * FEMTO + 2 * DELAY < WORD
      /\ MAX_INIT_COUNT_VAL * RESET_DIVIDER \in Nat
      /\ MAX_INIT_COUNT_VAL * RESET_DIVIDER >= INTERVAL + FEMTO + 4 * DELAY
  BY TimerFacts
<1>c. /\ Measure \in Nat /\ Elapsed \in Int /\ lag \in 0 .. DELAY
      /\ current_count = 0 => Elapsed >= MAX_INIT_COUNT_VAL * RESET_DIVIDER
      /\ main_counter \in 0 .. WORD - 1 /\ main_counter <= Measure
  BY <1>t, Counters DEF TimerTypeOK
<1>h. /\ phase' \in 0 .. FEMTO - 1 /\ main_counter' \in 0 .. WORD - 1
      /\ Measure' \in Nat /\ Measure' <= Measure + 1
      /\ hpet_on = TRUE /\ main_counter + 1 < WORD => Measure' = Measure + 1
      /\ hpet_on = FALSE => main_counter' = main_counter
  BY <1>t, HpetStep
<1>l. /\ prescale' \in 0 .. divider' - 1 /\ current_count' \in 0 .. init_count'
      /\ divider = RESET_DIVIDER /\ current_count > 0 => Elapsed' = Elapsed + 1
  BY <1>t, LapicStep
<1>1. lag' \in 0 .. DELAY BY <1>c, <1>f
<1>2. TimerTypeOK' BY <1>t, <1>h, <1>l, <1>1 DEF TimerTypeOK
<1>3. Sleeping'
  <2>1. \A s \in Sleepers : task[s] = "away" /\ slept[s] = 0 BY DEF TimerInv, Sleeping
  <2> QED BY <2>1 DEF Sleeping
<1>4. ASSUME Elapsed <= INTERVAL + FEMTO - 2 + 3 * DELAY + lag,
             timer_pc \in {"start_hpet", "poll", "mask", "read"}
      PROVE  Elapsed' = Elapsed + 1
  <2>1. divider = RESET_DIVIDER BY <1>t, <1>4 DEF Calibrating
  <2>2. current_count # 0 BY <1>c, <1>f, <1>4
  <2>3. current_count > 0 BY <1>t, <2>2 DEF TimerTypeOK
  <2> QED BY <1>l, <2>1, <2>3
<1>5. ASSUME timer_pc = "start_hpet" PROVE Elapsed' <= lag'
  <2>1. Elapsed <= lag BY <1>t, <1>5 DEF Calibrating
  <2>2. Elapsed' = Elapsed + 1 BY <1>c, <1>f, <1>4, <1>5, <2>1
  <2> QED BY <1>c, <2>1, <2>2
<1>6. ASSUME timer_pc = "poll"
      PROVE  /\ hpet_on' = TRUE /\ Measure' <= Elapsed' + FEMTO - 1
             /\ Elapsed' <= Measure' + DELAY
             /\ Elapsed' <= INTERVAL + FEMTO - 2 + DELAY + lag'
  <2>1. /\ hpet_on = TRUE /\ Measure <= Elapsed + FEMTO - 1
        /\ Elapsed <= Measure + DELAY
        /\ Elapsed <= INTERVAL + FEMTO - 2 + DELAY + lag
    BY <1>t, <1>6 DEF Calibrating
  <2>2. Elapsed' = Elapsed + 1 BY <1>c, <1>f, <1>4, <1>6, <2>1
  <2>3. Measure' <= Elapsed' + FEMTO - 1 BY <1>c, <1>f, <1>h, <2>1, <2>2
  <2>6. main_counter + 1 < WORD BY <1>c, <1>f, <2>1
  <2>4. Elapsed' <= Measure' + DELAY BY <1>c, <1>f, <1>h, <2>1, <2>2, <2>6
  <2>5. Elapsed' <= INTERVAL + FEMTO - 2 + DELAY + lag' BY <1>c, <1>f, <2>1, <2>2
  <2> QED BY <2>1, <2>3, <2>4, <2>5
<1>7. ASSUME timer_pc = "mask"
      PROVE  /\ Elapsed' >= INTERVAL - FEMTO + 1
             /\ Elapsed' <= INTERVAL + FEMTO - 2 + 2 * DELAY + lag'
  <2>1. /\ Elapsed >= INTERVAL - FEMTO + 1
        /\ Elapsed <= INTERVAL + FEMTO - 2 + 2 * DELAY + lag
    BY <1>t, <1>7 DEF Calibrating
  <2>2. Elapsed' = Elapsed + 1 BY <1>c, <1>f, <1>4, <1>7, <2>1
  <2> QED BY <1>c, <1>f, <2>1, <2>2
<1>8. ASSUME timer_pc = "read"
      PROVE  /\ Elapsed' >= INTERVAL - FEMTO + 1
             /\ Elapsed' <= INTERVAL + FEMTO - 2 + 3 * DELAY + lag'
  <2>1. /\ Elapsed >= INTERVAL - FEMTO + 1
        /\ Elapsed <= INTERVAL + FEMTO - 2 + 3 * DELAY + lag
    BY <1>t, <1>8 DEF Calibrating
  <2>2. Elapsed' = Elapsed + 1 BY <1>c, <1>f, <1>4, <1>8, <2>1
  <2> QED BY <1>c, <1>f, <2>1, <2>2
<1>9. Calibrating' BY <1>t, <1>h, <1>5, <1>6, <1>7, <1>8 DEF Calibrating, Measured
<1> QED BY <1>2, <1>3, <1>9 DEF TimerInv

(* A clock when tasks sleep. *)
LEMMA SleepClockInv ==
    ASSUME TimerInv, HpetClock, timer_pc = "done",
           slept' = [s \in Sleepers |-> IF task[s] \in {"start", "poll"}
                                        THEN Capped(slept[s] + 1) ELSE slept[s]],
           UNCHANGED <<lag, prescale, current_count>>,
           UNCHANGED <<timer_pc, hpet_on, init_count, divider, ticks, task, nap>>
    PROVE  TimerInv'
<1>t. TimerTypeOK /\ Calibrating /\ Sleeping BY DEF TimerInv
<1>f. FEMTO \in Nat \ {0} /\ LONGEST \in Nat BY TimerFacts
<1>h. /\ phase' \in 0 .. FEMTO - 1 /\ main_counter' \in 0 .. WORD - 1
      /\ Measure' \in Nat /\ Measure' <= Measure + 1
  BY <1>t, HpetStep
<1>c. Measure \in Nat BY <1>t, Counters
<1>1. \A s \in Sleepers : slept[s] \in 0 .. LONGEST BY <1>t DEF TimerTypeOK
<1>2. \A n \in 0 .. LONGEST : /\ Capped(n + 1) \in 0 .. LONGEST
                              /\ Capped(n + 1) = LONGEST \/ Capped(n + 1) = n + 1
  BY <1>f DEF Capped
<1>3. slept' \in [Sleepers -> 0 .. LONGEST] BY <1>1, <1>2
<1>4. TimerTypeOK' BY <1>t, <1>h, <1>3 DEF TimerTypeOK
<1>5. Calibrating' BY <1>t DEF Calibrating, Measured
<1>6. Sleeping'
  <2>1. \A s \in Sleepers : task'[s] = "away" => slept'[s] = 0 BY <1>t DEF Sleeping
  <2>2. ASSUME NEW s \in Sleepers, task'[s] \in {"start", "poll"}
        PROVE  slept'[s] = LONGEST \/ Measure' <= slept'[s] + FEMTO - 1
    <3>1. slept'[s] = Capped(slept[s] + 1) BY <2>2
    <3>2. slept[s] = LONGEST \/ Measure <= slept[s] + FEMTO - 1 BY <1>t, <2>2 DEF Sleeping
    <3>3. slept[s] \in 0 .. LONGEST BY <1>1
    <3>4. slept[s] = LONGEST => slept'[s] = LONGEST BY <1>f, <3>1 DEF Capped
    <3>5. slept'[s] = LONGEST \/ slept'[s] = slept[s] + 1 BY <1>2, <3>1, <3>3
    <3> QED BY <1>c, <1>f, <1>h, <3>2, <3>3, <3>4, <3>5
  <2> QED BY <2>1, <2>2 DEF Sleeping
<1> QED BY <1>4, <1>5, <1>6 DEF TimerInv

(* The steps of a sleeper. *)
LEMMA SleeperInv ==
    ASSUME TimerInv, NEW s \in Sleepers,
           \/ \E t \in Naps : usleep(s, t)
           \/ SleepStart(s) \/ SleepEnd(s) \/ SleepLost(s) \/ SleepLostEnd(s) \/ SleepAstray(s)
    PROVE  TimerInv'
<1>t. TimerTypeOK /\ Calibrating /\ Sleeping BY DEF TimerInv
<1>f. FEMTO \in Nat \ {0} /\ LONGEST \in Nat /\ WORD \in Nat \ {0} BY TimerFacts
<1>u. /\ timer_pc = "done" /\ timer_pc' \in {"done", "astray"}
      /\ UNCHANGED <<lag, phase, init_count, current_count, divider, prescale, ticks>>
  BY DEF usleep, SleepStart, SleepEnd, SleepLost, SleepLostEnd, SleepAstray, Sleeps, local_timer,
         hpet, naps
<1>n. \A r \in Sleepers : slept[r] \in Nat BY <1>t, <1>f DEF TimerTypeOK
<1>c. Calibrating' BY <1>t, <1>u DEF Calibrating, Measured
<1>1. ASSUME NEW t \in Naps, usleep(s, t) PROVE TimerInv'
  <2>1. /\ task[s] = "away" /\ task' = [task EXCEPT ![s] = "start"] /\ nap' = [nap EXCEPT ![s] = t]
        /\ main_counter' = 0 /\ hpet_on' = hpet_on /\ slept' = slept
    BY <1>1 DEF usleep, Sleeps
  <2>2. main_counter' \in 0 .. WORD - 1 BY <1>f, <2>1
  <2>3. TimerTypeOK' BY <1>t, <1>u, <2>1, <2>2 DEF TimerTypeOK
  <2>4. Measure' <= FEMTO - 1 /\ Measure' \in Nat
    <3>1. 0 * FEMTO = 0 BY <1>f
    <3> QED BY <1>f, <1>t, <1>u, <2>1, <3>1 DEF Measure, TimerTypeOK
  <2>5. \A r \in Sleepers : Measure' <= slept'[r] + FEMTO - 1 BY <1>f, <1>n, <2>1, <2>4
  <2>6. \A r \in Sleepers : task'[r] = "away" => slept'[r] = 0
    BY <1>t, <2>1 DEF Sleeping, TimerTypeOK
  <2>7. Sleeping' BY <1>u, <2>5, <2>6 DEF Sleeping
  <2> QED BY <1>c, <2>3, <2>7 DEF TimerInv
<1>2. CASE SleepStart(s) \/ SleepEnd(s) \/ SleepLost(s) \/ SleepLostEnd(s)
  <2>1. /\ hpet_on' \in BOOLEAN /\ task[s] # "away"
        /\ \E there \in {"poll", "lost", "back"} :
              /\ task' = [task EXCEPT ![s] = there]
              /\ there = "poll" => task[s] = "start" /\ slept' = slept
        /\ slept' = slept \/ slept' = [slept EXCEPT ![s] = 0]
        /\ UNCHANGED <<main_counter, nap>>
    BY <1>2, <1>t DEF SleepStart, SleepEnd, SleepLost, SleepLostEnd, Sleeps, TimerTypeOK
  <2>6. slept' \in [Sleepers -> 0 .. LONGEST] BY <1>t, <1>f, <2>1 DEF TimerTypeOK
  <2>2. TimerTypeOK' BY <1>t, <1>u, <2>1, <2>6 DEF TimerTypeOK
  <2>3. Measure' = Measure BY <1>u, <2>1 DEF Measure
  <2>4. \A r \in Sleepers : /\ task'[r] = "away" => task[r] = "away" /\ slept'[r] = slept[r]
                            /\ task'[r] \in {"start", "poll"} =>
                                   task[r] \in {"start", "poll"} /\ slept'[r] = slept[r]
    BY <1>t, <2>1 DEF TimerTypeOK
  <2>5. Sleeping' BY <1>t, <1>u, <2>3, <2>4 DEF Sleeping
  <2> QED BY <1>c, <2>2, <2>5 DEF TimerInv
<1>3. CASE SleepAstray(s)
  <2>1. UNCHANGED <<hpet_on, main_counter, task, nap, slept>> BY <1>3 DEF SleepAstray, hpet, naps
  <2>2. TimerTypeOK' BY <1>t, <1>u, <2>1 DEF TimerTypeOK
  <2>3. Measure' = Measure BY <1>u, <2>1 DEF Measure
  <2>4. Sleeping' BY <1>t, <1>u, <2>1, <2>3 DEF Sleeping
  <2> QED BY <1>c, <2>2, <2>4 DEF TimerInv
<1> QED BY <1>1, <1>2, <1>3

(* Every step of the timers and of the clocks keeps the invariant. *)
LEMMA TimerStep == TimerInv /\ [TimerNext]_timer => TimerInv'
<1> SUFFICES ASSUME TimerInv, [TimerNext]_timer PROVE TimerInv' OBVIOUS
<1>1. CASE UNCHANGED timer
  BY <1>1 DEF timer, hpet, local_timer, naps, TimerInv, TimerTypeOK, Calibrating, Measured, Sleeping,
              Elapsed, Measure
<1>2. CASE Clock
  <2>1. HpetClock /\ UNCHANGED <<timer_pc, hpet_on, init_count, divider, ticks, task, nap>>
    BY <1>2 DEF Clock
  <2>2. CASE timer_pc \notin {"done", "panic", "astray"} /\ lag < DELAY /\ lag' = lag + 1 /\ LapicClock
             /\ UNCHANGED slept
    BY <2>1, <2>2, BootClockInv
  <2>3. CASE /\ timer_pc = "done"
             /\ slept' = [s \in Sleepers |-> IF task[s] \in {"start", "poll"}
                                             THEN Capped(slept[s] + 1) ELSE slept[s]]
             /\ UNCHANGED <<lag, prescale, current_count>>
    BY <2>1, <2>3, SleepClockInv
  <2> QED BY <1>2, <2>2, <2>3 DEF Clock
<1> QED BY <1>1, <1>2, InstructionInv, SleeperInv DEF TimerNext

(* usleep does not return early: from the invariant. *)
LEMMA SleepStep == TimerInv /\ [TimerNext]_timer => [SleepNotShort]_timer
<1> SUFFICES ASSUME TimerInv, TimerNext, NEW s \in Sleepers, task[s] = "poll", task'[s] = "back",
                    nap[s] * MICRO < WORD
             PROVE  slept[s] > nap[s] * MICRO - FEMTO
  BY DEF SleepNotShort
<1>t. TimerTypeOK /\ Sleeping BY DEF TimerInv
<1>2. SleepEnd(s)
  <2>1. ~hpet_init /\ ~apic_timer_init /\ ~BootAstray /\ ~Clock
    BY DEF hpet_init, apic_timer_init, reset_hpet_timer, reset_apic_timer, start_hpet_timer, Poll,
           MaskTimer, ReadCount, SetDivider, LoadCount, BootAstray, Clock, naps
  <2>3. PICK r \in Sleepers : \/ \E t \in Naps : usleep(r, t)
                             \/ SleepStart(r) \/ SleepEnd(r)
                             \/ SleepLost(r) \/ SleepLostEnd(r) \/ SleepAstray(r)
    BY <2>1 DEF TimerNext
  <2>5. ~SleepAstray(r) BY DEF SleepAstray, naps
  <2>4. r = s
    BY <1>t, <2>3, <2>5 DEF usleep, SleepStart, SleepEnd, SleepLost, SleepLostEnd, Sleeps, TimerTypeOK
  <2> QED BY <1>t, <2>3, <2>4, <2>5 DEF usleep, SleepStart, SleepLost, SleepLostEnd, Sleeps, TimerTypeOK
<1> DEFINE time == nap[s] * MICRO
<1>4. /\ Measure \in Nat /\ main_counter * FEMTO \in Nat /\ Measure >= main_counter * FEMTO
      /\ FEMTO \in Nat \ {0} /\ LONGEST \in Nat /\ MICRO \in Nat \ {0} /\ WORD \in Nat \ {0}
  BY <1>t, Counters, TimerFacts
<1>5. slept[s] \in 0 .. LONGEST /\ nap[s] \in Naps \cup {0} BY <1>t DEF TimerTypeOK
<1>6. nap[s] \in Nat /\ time \in Nat /\ time <= LONGEST
  <2>1. nap[s] \in Naps => nap[s] \in Nat /\ time <= LONGEST BY TimerNumbers
  <2>2. nap[s] = 0 => time <= LONGEST
    <3>1. 0 * MICRO = 0 BY <1>4
    <3> QED BY <1>4, <3>1
  <2>3. nap[s] \in Nat BY <1>5, <2>1
  <2> QED BY <1>4, <1>5, <2>1, <2>2, <2>3
<1>3. main_counter * FEMTO >= time
  <2>1. Target(nap[s]) = time BY <1>6, FitsWord DEF Target
  <2>2. (main_counter * FEMTO) % WORD >= time BY <1>2, <2>1 DEF SleepEnd, poll_time_hpet_timer
  <2>3. (main_counter * FEMTO) % WORD \in Nat /\ (main_counter * FEMTO) % WORD <= main_counter * FEMTO
    BY <1>4, FitsWord
  <2> QED BY <1>4, <1>6, <2>2, <2>3
<1> HIDE DEF time
<1>7. slept[s] = LONGEST \/ Measure <= slept[s] + FEMTO - 1 BY <1>t DEF Sleeping
<1>8. slept[s] > time - FEMTO BY <1>3, <1>4, <1>5, <1>6, <1>7
<1> QED BY <1>8 DEF time

(* The period that apic_timer_init leaves is that of its count. *)
LEMMA PeriodFromCount == TimerInv => PeriodScaled
<1> SUFFICES ASSUME TimerInv, timer_pc = "done"
             PROVE  /\ (init_count * divider) * RESET_DIVIDER >
                          DIVIDER * (INTERVAL - FEMTO - RESET_DIVIDER)
                    /\ (init_count * divider) * RESET_DIVIDER <=
                          DIVIDER * (INTERVAL + FEMTO + 4 * DELAY)
  BY DEF PeriodScaled
<1>1. /\ divider = DIVIDER /\ init_count = ticks /\ ticks \in Nat
      /\ ticks * RESET_DIVIDER > INTERVAL - FEMTO - RESET_DIVIDER
      /\ ticks * RESET_DIVIDER <= INTERVAL + FEMTO + 4 * DELAY
  BY TimerFacts DEF TimerInv, TimerTypeOK, Calibrating, Measured
<1>2. /\ FEMTO \in Nat \ {0} /\ INTERVAL \in Nat \ {0} /\ RESET_DIVIDER \in Nat \ {0}
      /\ DIVIDER \in Nat \ {0} /\ DELAY \in Nat
  BY TimerFacts
<1> DEFINE w == ticks * RESET_DIVIDER
           lo == INTERVAL - FEMTO - RESET_DIVIDER
           hi == INTERVAL + FEMTO + 4 * DELAY
<1>3. w \in Int /\ lo \in Int /\ hi \in Int /\ w > lo /\ w <= hi BY <1>1, <1>2
<1>4. (ticks * DIVIDER) * RESET_DIVIDER = DIVIDER * w BY <1>1, <1>2
<1> HIDE DEF w, lo, hi
<1>5. \A x, y \in Int, d \in Nat \ {0} : x <= y => d * x <= d * y
  <2> SUFFICES ASSUME NEW x \in Int, NEW y \in Int, NEW d \in Nat \ {0}, x <= y PROVE d * x <= d * y
    OBVIOUS
  <2>1. y - x \in Nat OBVIOUS
  <2>2. d * (y - x) \in Nat BY <2>1
  <2>3. d * (y - x) = d * y - d * x OBVIOUS
  <2>4. d * y \in Int /\ d * x \in Int OBVIOUS
  <2> QED BY <2>2, <2>3, <2>4
<1>6. DIVIDER * w <= DIVIDER * hi BY <1>2, <1>3, <1>5
<1>7. DIVIDER * w > DIVIDER * lo
  <2>1. lo + 1 <= w /\ lo + 1 \in Int BY <1>3
  <2>2. DIVIDER * (lo + 1) <= DIVIDER * w BY <1>2, <1>3, <1>5, <2>1
  <2>3. DIVIDER * (lo + 1) = DIVIDER * lo + DIVIDER BY <1>2, <1>3
  <2>4. DIVIDER * lo \in Int /\ DIVIDER * w \in Int BY <1>2, <1>3
  <2> QED BY <1>2, <2>2, <2>3, <2>4
<1> QED BY <1>1, <1>4, <1>6, <1>7 DEF lo, hi

(* timer.c and hpet.c: for all frequencies, dividers, intervals and        *)
(* delays, the count that apic_timer_init finds is that of its interval,   *)
(* the period is longer by the quotient of the dividers, and a usleep that *)
(* keeps its registers does not return early, whoever else sets the        *)
(* counter back, if its time fits a word.                                  *)
THEOREM TimeIsKept == TimerSpec => TimeKept
<1>1. TimerInit => TimerInv BY TimerInitInv
<1>2. TimerInv /\ [TimerNext]_timer => TimerInv' BY TimerStep
<1>3. TimerInv => TimerTypeOK /\ Measured /\ PeriodScaled
  BY PeriodFromCount DEF TimerInv, Calibrating
<1>4. TimerInv /\ [TimerNext]_timer => [SleepNotShort]_timer BY SleepStep
<1> QED BY <1>1, <1>2, <1>3, <1>4, PTL DEF TimerSpec, TimeKept

-----------------------------------------------------------------------------
(* The disk: disk.c.                                                       *)

(* The sectors the drive still has to transfer follow those that the       *)
(* caller has, and there are no more of them than the caller asked for.    *)
TransferExact ==
    /\ disk_pc = "idle" => drive.status \notin {"busy", "data"}
    /\ drive.status \in {"busy", "data"} =>
         /\ drive.next = (lba + Len(buf)) % LBAS
         /\ drive.left + Len(buf) <= total
    /\ \A k \in 1 .. Len(buf) : buf[k] = (lba + k - 1) % LBAS

DiskInv ==
    /\ DiskTypeOK
    /\ disk_pc = "idle" /\ total > 0 => Len(buf) = total
    /\ ~spoiled => TransferExact

(* The count of the drive is one that its register can hold. *)
LEMMA CountRange ==
    ASSUME NEW n \in Int
    PROVE  CountOf(n) \in 1 .. COUNTS
<1>1. COUNTS \in Nat \ {0} BY DiskNumbers
<1>2. n % COUNTS \in 0 .. COUNTS - 1 BY <1>1
<1> QED BY <1>1, <1>2 DEF CountOf

(* The disk starts with no call made and a drive that is ready. *)
LEMMA DiskInitInv == DiskInit => DiskInv
<1> SUFFICES ASSUME DiskInit PROVE DiskInv OBVIOUS
<1>1. /\ drive.left = 0 /\ drive.next = 0 /\ drive.status = "ready" /\ disk_pc = "idle" /\ lba = 0
      /\ total = 0 /\ buf = <<>> /\ Len(buf) = 0 /\ calls = 0
      /\ drive = [left |-> 0, next |-> 0, status |-> "ready"]
  BY DEF DiskInit
<1>2. 0 \in 0 .. COUNTS /\ 0 \in 0 .. LBAS - 1 /\ 0 \in 0 .. MAX_CALLS BY DiskNumbers
<1>3. drive \in [left : 0 .. COUNTS, next : 0 .. LBAS - 1, status : {"ready", "busy", "data", "error"}]
  BY <1>1, <1>2
<1>4. DiskTypeOK BY <1>1, <1>2, <1>3 DEF DiskTypeOK
<1>5. TransferExact BY <1>1 DEF TransferExact
<1> QED BY <1>1, <1>4, <1>5 DEF DiskInv

(* A call, which the drive may not hear. *)
LEMMA CallInv ==
    ASSUME DiskInv, NEW index, NEW a \in Lbas, NEW n \in Totals, disk_read_block(index, a, n)
    PROVE  DiskInv'
<1>1. /\ disk_pc = "idle" /\ calls < MAX_CALLS /\ disk_pc' = "poll"
      /\ lba' = a /\ total' = n /\ buf' = <<>> /\ calls' = calls + 1
      /\ spoiled' = (spoiled \/ CountOf(n) > n)
      /\ Command(a, n)
  BY DEF disk_read_block
<1>2. DiskTypeOK BY DEF DiskInv
<1>3. a \in Nat /\ n \in Int /\ LBAS \in Nat \ {0} /\ COUNTS \in Nat \ {0} BY DiskNumbers
<1>4. CountOf(n) \in 1 .. COUNTS BY <1>3, CountRange
<1>5. a % LBAS \in 0 .. LBAS - 1 BY <1>3
<1>6. Len(buf') = 0 BY <1>1
<1>b. Len(buf') <= (IF total' < 0 THEN 0 ELSE total') BY <1>1, <1>3, <1>6
<1>c. calls' \in 0 .. MAX_CALLS BY <1>1, <1>2, DiskNumbers DEF DiskTypeOK
<1>s. buf' \in Seq(0 .. LBAS - 1) BY <1>1
<1>7. CASE drive' = drive /\ ~(drive.status \notin {"busy", "data"} /\ Selected(a))
  <2>1. DiskTypeOK' BY <1>1, <1>2, <1>7, <1>b, <1>c, <1>s DEF DiskTypeOK
  <2>2. ~spoiled' => TransferExact'
    <3> SUFFICES ASSUME ~spoiled' PROVE TransferExact' OBVIOUS
    <3>1. TransferExact BY <1>1 DEF DiskInv
    <3>2. drive.status \notin {"busy", "data"} BY <1>1, <3>1 DEF TransferExact
    <3> QED BY <1>1, <1>6, <1>7, <3>2 DEF TransferExact
  <2> QED BY <1>1, <2>1, <2>2 DEF DiskInv
<1>8. CASE drive' = [left |-> CountOf(n), next |-> a % LBAS, status |-> "busy"]
  <2>1. drive'.left = CountOf(n) /\ drive'.next = a % LBAS /\ drive'.status = "busy" BY <1>8
  <2>2. drive' \in [left : 0 .. COUNTS, next : 0 .. LBAS - 1, status : {"ready", "busy", "data", "error"}]
    BY <1>4, <1>5, <1>8
  <2>3. DiskTypeOK' BY <1>1, <1>4, <2>1, <2>2, <1>b, <1>c, <1>s DEF DiskTypeOK
  <2>4. ~spoiled' => TransferExact'
    <3> SUFFICES ASSUME ~spoiled' PROVE TransferExact' OBVIOUS
    <3>0. ~(CountOf(n) > n) BY <1>1, Zenon
    <3>1. CountOf(n) <= n BY <1>3, <1>4, <3>0
    <3>2. drive'.next = (lba' + Len(buf')) % LBAS BY <1>1, <1>3, <1>6, <2>1
    <3>3. drive'.left + Len(buf') <= total' BY <1>1, <1>4, <1>6, <2>1, <3>1
    <3> QED BY <1>1, <1>6, <2>1, <3>2, <3>3 DEF TransferExact
  <2> QED BY <1>1, <2>3, <2>4 DEF DiskInv
<1> QED BY <1>1, <1>7, <1>8 DEF Command

(* A sector is stored. *)
LEMMA ReadSectorInv == DiskInv /\ ReadSector => DiskInv'
<1> SUFFICES ASSUME DiskInv, ReadSector PROVE DiskInv' OBVIOUS
<1>1. /\ disk_pc = "poll" /\ Len(buf) < total /\ drive.status = "data"
      /\ buf' = Append(buf, drive.next)
      /\ drive' = [left |-> drive.left - 1, next |-> (drive.next + 1) % LBAS,
                   status |-> IF drive.left = 1 THEN "ready" ELSE "busy"]
      /\ UNCHANGED <<disk_pc, lba, total, calls, spoiled>>
  BY DEF ReadSector
<1>2. DiskTypeOK BY DEF DiskInv
<1>3. /\ LBAS \in Nat \ {0} /\ COUNTS \in Nat \ {0} /\ lba \in Nat /\ total \in Int
  BY <1>2, DiskNumbers DEF DiskTypeOK
<1>4. drive.left \in 1 .. COUNTS /\ drive.next \in 0 .. LBAS - 1 BY <1>1, <1>2, <1>3 DEF DiskTypeOK
<1>5. /\ buf' \in Seq(0 .. LBAS - 1) /\ Len(buf) \in Nat /\ Len(buf') = Len(buf) + 1
      /\ \A k \in 1 .. Len(buf) : buf'[k] = buf[k]
      /\ buf'[Len(buf) + 1] = drive.next
  <2>1. buf \in Seq(0 .. LBAS - 1) BY <1>2 DEF DiskTypeOK
  <2> DEFINE S == 0 .. LBAS - 1
  <2> HIDE DEF S
  <2>2. buf \in Seq(S) /\ drive.next \in S BY <1>4, <2>1 DEF S
  <2>3. buf' \in Seq(S) /\ Len(buf) \in Nat /\ Len(buf') = Len(buf) + 1 BY <1>1, <2>2
  <2>4. \A k \in 1 .. Len(buf) : buf'[k] = buf[k] BY <1>1, <2>2, <2>3
  <2>5. buf'[Len(buf) + 1] = drive.next BY <1>1, <2>2, <2>3
  <2> QED BY <2>3, <2>4, <2>5 DEF S
<1>6. drive'.left = drive.left - 1 /\ drive'.next = (drive.next + 1) % LBAS
      /\ drive'.status = IF drive.left = 1 THEN "ready" ELSE "busy"
  BY <1>1
<1>7. DiskTypeOK'
  <2>1. (drive.next + 1) % LBAS \in 0 .. LBAS - 1 BY <1>3, <1>4
  <2>2. drive.left - 1 \in 0 .. COUNTS /\ (drive.left # 1 => drive.left - 1 > 0) BY <1>3, <1>4
  <2>3. drive' \in [left : 0 .. COUNTS, next : 0 .. LBAS - 1, status : {"ready", "busy", "data", "error"}]
    BY <1>1, <2>1, <2>2
  <2>4. Len(buf') <= (IF total' < 0 THEN 0 ELSE total') BY <1>1, <1>3, <1>5
  <2>5. drive'.status \in {"busy", "data"} => drive'.left > 0 BY <1>6, <2>2
  <2> QED BY <1>1, <1>2, <1>5, <2>3, <2>4, <2>5 DEF DiskTypeOK
<1>8. ~spoiled' => TransferExact'
  <2> SUFFICES ASSUME ~spoiled' PROVE TransferExact' OBVIOUS
  <2>1. TransferExact BY <1>1 DEF DiskInv
  <2>2. drive.next = (lba + Len(buf)) % LBAS /\ drive.left + Len(buf) <= total
    BY <1>1, <2>1 DEF TransferExact
  <2>3. drive'.next = (lba' + Len(buf')) % LBAS
    <3> DEFINE m == lba + Len(buf)
    <3>1. m \in Int BY <1>3, <1>5
    <3>2. ((m % LBAS) + 1) % LBAS = (m + 1) % LBAS
      <4> HIDE DEF m
      <4>1. \A a, b \in Int : ((a % LBAS) + b) % LBAS = (a + b) % LBAS
        BY <1>3, ModOfReduced
      <4> QED BY <3>1, <4>1
    <3>3. (lba + Len(buf)) + 1 = lba' + Len(buf') BY <1>1, <1>3, <1>5
    <3> QED BY <1>6, <2>2, <3>2, <3>3
  <2>4. drive'.left + Len(buf') <= total' BY <1>1, <1>3, <1>4, <1>5, <1>6, <2>2
  <2>5. \A k \in 1 .. Len(buf') : buf'[k] = (lba' + k - 1) % LBAS
    <3>1. \A k \in 1 .. Len(buf) : buf[k] = (lba + k - 1) % LBAS BY <2>1 DEF TransferExact
    <3>2. \A k \in 1 .. Len(buf') : k \in 1 .. Len(buf) \/ k = Len(buf) + 1 BY <1>5
    <3>3. lba + (Len(buf) + 1) - 1 = lba + Len(buf) BY <1>3, <1>5
    <3>4. buf'[Len(buf) + 1] = (lba + (Len(buf) + 1) - 1) % LBAS BY <1>5, <2>2, <3>3
    <3>5. \A k \in 1 .. Len(buf) : buf'[k] = (lba + k - 1) % LBAS BY <1>5, <3>1
    <3> QED BY <1>1, <3>2, <3>4, <3>5
  <2> QED BY <1>1, <2>3, <2>4, <2>5 DEF TransferExact
<1> QED BY <1>1, <1>7, <1>8 DEF DiskInv

(* Every step of a read, and of the drive, keeps the invariant. *)
LEMMA DiskStep == DiskInv /\ [DiskNext]_disk => DiskInv'
<1> SUFFICES ASSUME DiskInv, [DiskNext]_disk PROVE DiskInv' OBVIOUS
<1>2. DiskTypeOK BY DEF DiskInv
<1>d. /\ drive \in [left : 0 .. COUNTS, next : 0 .. LBAS - 1, status : {"ready", "busy", "data", "error"}]
      /\ COUNTS \in Nat
  BY <1>2, DiskNumbers DEF DiskTypeOK
<1>1. CASE UNCHANGED disk BY <1>1 DEF disk, DiskInv, DiskTypeOK, TransferExact
<1>3. CASE DriveReady
  <2>1. /\ drive.status = "busy" /\ drive' = [drive EXCEPT !.status = "data"]
        /\ UNCHANGED <<disk_pc, lba, total, buf, calls, spoiled>>
    BY <1>3 DEF DriveReady
  <2>2. drive'.left = drive.left /\ drive'.next = drive.next /\ drive'.status = "data"
    BY <1>d, <2>1
  <2>3. drive' \in [left : 0 .. COUNTS, next : 0 .. LBAS - 1, status : {"ready", "busy", "data", "error"}]
    BY <1>d, <2>1
  <2>4. DiskTypeOK' BY <1>2, <2>1, <2>2, <2>3 DEF DiskTypeOK
  <2>5. ~spoiled' => TransferExact' BY <2>1, <2>2 DEF DiskInv, TransferExact
  <2> QED BY <2>1, <2>4, <2>5 DEF DiskInv
<1>4. CASE DriveFails
  <2>1. /\ drive.status = "busy" /\ drive' = [drive EXCEPT !.status = "error", !.left = 0]
        /\ UNCHANGED <<disk_pc, lba, total, buf, calls, spoiled>>
    BY <1>4 DEF DriveFails
  <2>2. drive'.left = 0 /\ drive'.next = drive.next /\ drive'.status = "error"
    BY <1>d, <2>1
  <2>3. drive' \in [left : 0 .. COUNTS, next : 0 .. LBAS - 1, status : {"ready", "busy", "data", "error"}]
    <3>1. drive' = [left |-> 0, next |-> drive.next, status |-> "error"] BY <1>d, <2>1
    <3>2. drive.next \in 0 .. LBAS - 1 /\ 0 \in 0 .. COUNTS BY <1>d
    <3> QED BY <3>1, <3>2
  <2>4. DiskTypeOK' BY <1>2, <2>1, <2>2, <2>3 DEF DiskTypeOK
  <2>5. ~spoiled' => TransferExact' BY <2>1, <2>2 DEF DiskInv, TransferExact
  <2> QED BY <2>1, <2>4, <2>5 DEF DiskInv
<1>5. ASSUME NEW x, disk_read_block_refused(x) PROVE DiskInv'
  <2>1. calls < MAX_CALLS /\ calls' = calls + 1 /\ UNCHANGED <<drive, disk_pc, lba, total, buf, spoiled>>
    BY <1>5 DEF disk_read_block_refused
  <2>2. calls' \in 0 .. MAX_CALLS BY <1>2, <2>1, DiskNumbers DEF DiskTypeOK
  <2>3. DiskTypeOK' BY <1>2, <2>1, <2>2 DEF DiskTypeOK
  <2> QED BY <2>1, <2>3 DEF DiskInv, TransferExact
<1>6. CASE ReadReturns
  <2>1. /\ disk_pc = "poll" /\ Len(buf) >= total /\ disk_pc' = "idle"
        /\ UNCHANGED <<drive, lba, total, buf, calls, spoiled>>
    BY <1>6 DEF ReadReturns
  <2>2. DiskTypeOK' BY <1>2, <2>1 DEF DiskTypeOK
  <2>3. Len(buf) \in Nat /\ total \in Int /\ Len(buf) <= (IF total < 0 THEN 0 ELSE total)
    BY <1>2, DiskNumbers DEF DiskTypeOK
  <2>4. total > 0 => Len(buf) = total BY <2>1, <2>3
  <2>5. ~spoiled' => TransferExact'
    <3> SUFFICES ASSUME ~spoiled' PROVE TransferExact' OBVIOUS
    <3>1. TransferExact BY <2>1 DEF DiskInv
    <3>2. drive.status \notin {"busy", "data"}
      <4>1. drive.status \in {"busy", "data"} => drive.left > 0 /\ drive.left + Len(buf) <= total
        BY <1>2, <3>1 DEF DiskTypeOK, TransferExact
      <4>2. drive.left \in Nat BY <1>d
      <4> QED BY <2>1, <2>3, <4>1, <4>2
    <3> QED BY <2>1, <3>1, <3>2 DEF TransferExact
  <2> QED BY <2>1, <2>2, <2>4, <2>5 DEF DiskInv
<1> QED BY <1>1, <1>3, <1>4, <1>5, <1>6, CallInv, ReadSectorInv DEF DiskNext

(* disk.c: for every sequence of calls, and every drive, a read stores the *)
(* sectors that it asked for, in order, and no more, unless an earlier one *)
(* has left the drive in the middle of a transfer.                         *)
THEOREM ReadsExact == DiskSpec => []SectorsExact
<1>1. DiskInit => DiskInv BY DiskInitInv
<1>2. DiskInv /\ [DiskNext]_disk => DiskInv' BY DiskStep
<1>3. DiskInv => SectorsExact
  <2> SUFFICES ASSUME DiskInv PROVE SectorsExact OBVIOUS
  <2>1. DiskTypeOK BY DEF DiskInv
  <2>2. ASSUME ~spoiled, disk_pc = "idle", total > 0
        PROVE  buf = [k \in 1 .. total |-> (lba + k - 1) % LBAS]
    <3>1. Len(buf) = total /\ \A k \in 1 .. Len(buf) : buf[k] = (lba + k - 1) % LBAS
      BY <2>2 DEF DiskInv, TransferExact
    <3>2. buf \in Seq(0 .. LBAS - 1) BY <2>1 DEF DiskTypeOK
    <3>3. buf = [k \in 1 .. Len(buf) |-> buf[k]] BY <3>2
    <3> QED BY <3>1, <3>3
  <2> QED BY <2>1, <2>2 DEF SectorsExact, DataExact
<1> QED BY <1>1, <1>2, <1>3, PTL DEF DiskSpec

-----------------------------------------------------------------------------
Entries == Len(fw.madt)

(* The walk has come to entry k: there are no entries of length 0 before   *)
(* it, and the arrays hold what is before it.                              *)
Filled(k) ==
    /\ \A t \in Types : idx[t] = Number(t, k - 1)
    /\ (\A t \in Types : idx[t] <= Stride)
           => \A t \in Types : \A j \in OfType(t, k - 1) : slots[Place(t) + Number(t, j - 1)] = j

Reached(k) ==
    /\ ptr = Offset(k)
    /\ \A j \in 1 .. k - 1 : fw.madt[j].length # 0 /\ Offset(j) < Offset(k)
    /\ ~ZeroLength => Filled(k)

AcpiInv ==
    /\ AcpiTypeOK /\ TablesExact /\ FaultOnlyIf /\ MadtChecked
    /\ acpi_pc \in {"init", "madt"} => ptr = 0 /\ idx = [t \in Types |-> 0]
    /\ acpi_pc = "walk" => \E k \in 1 .. Entries + 1 : Reached(k)

(* The constants are numbers, and the seven types have arrays of their own. *)
LEMMA AcpiConstants ==
    /\ ROOM \in Nat \ {0} /\ LONG_BYTES \in Nat \ {0}
    /\ Stride \in Nat \ {0} /\ 16 * Stride \in Nat
<1>1. ROOM \in Nat \ {0} /\ LONG_BYTES \in Nat \ {0} BY AcpiNumbers
<1>2. ROOM * LONG_BYTES \in Nat \ {0} BY <1>1
<1>3. \A n \in Nat : 16 * n \in Nat OBVIOUS
<1> QED BY <1>1, <1>2, <1>3 DEF Stride

(* The place of an array is a multiple of Stride, ... *)
Nth(t) == CASE t = 0 -> 0 [] t = 1 -> 1 [] t = 2 -> 4 [] t = 3 -> 5 [] t = 4 -> 8 [] t = 5 -> 9
            [] OTHER -> 12

(* ... for each type another one, ... *)
LEMMA TypesApart ==
    /\ Types = {0, 1, 2, 3, 4, 5, 9}
    /\ \A t \in Types : Nth(t) \in 0 .. 12
    /\ \A t, u \in Types : Nth(t) = Nth(u) => t = u
<1>1. Types = {0, 1, 2, 3, 4, 5, 9}
  BY DEF Types, PROCESSOR_LOCAL_APIC, IO_APIC, IO_APIC_INTERRUPT_SRC_OVERRIDE, IO_APIC_NMI_SRC,
         LOCAL_APIC_NMI, LOCAL_APIC_ADDR_OVERRIDE, PROCESSOR_LOCAL_X2_APIC
<1>2. \A t \in Types : Nth(t) \in 0 .. 12 BY <1>1 DEF Nth
<1>3. \A t, u \in Types : Nth(t) = Nth(u) => t = u BY <1>1 DEF Nth
<1> QED BY <1>1, <1>2, <1>3

(* ... as the heap's addresses come out, ... *)
LEMMA Places == ASSUME NEW t \in Types PROVE Place(t) = Nth(t) * Stride /\ Nth(t) \in 0 .. 12
<1>1. PlacePlain(t) = ROOM * Nth(t)
  BY DEF PlacePlain, Nth, PROCESSOR_LOCAL_APIC, IO_APIC, IO_APIC_INTERRUPT_SRC_OVERRIDE,
         IO_APIC_NMI_SRC, LOCAL_APIC_NMI, LOCAL_APIC_ADDR_OVERRIDE
<1>2. Nth(t) \in 0 .. 12 /\ Nth(t) \in Nat BY TypesApart
<1>3. \A a, b, c \in Nat : a * (b * c) = c * (b * a) OBVIOUS
<1>4. LONG_BYTES * (ROOM * Nth(t)) = Nth(t) * (ROOM * LONG_BYTES) BY <1>2, <1>3, AcpiConstants
<1> QED BY <1>1, <1>2, <1>4 DEF Place, Stride

(* ... and arrays of two types do not overlap.                             *)
LEMMA PlacesApart ==
    ASSUME NEW t \in Types, NEW u \in Types, t # u,
           NEW g \in 0 .. Stride - 1, NEW j \in 0 .. Stride - 1
    PROVE  Place(t) + g # Place(u) + j
<1>1. \A a, b, p \in Nat : a < b => a * p + p <= b * p /\ a * p \in Nat /\ b * p \in Nat
  <2> SUFFICES ASSUME NEW a \in Nat, NEW b \in Nat, NEW p \in Nat, a < b
      PROVE  a * p + p <= b * p /\ a * p \in Nat /\ b * p \in Nat
    OBVIOUS
  <2>1. PICK d \in Nat : b = a + 1 + d
    <3>1. b - a - 1 \in Nat /\ b = a + 1 + (b - a - 1) OBVIOUS
    <3> QED BY <3>1
  <2>2. (a + 1 + d) * p = a * p + p + d * p OBVIOUS
  <2>3. d * p \in Nat /\ a * p \in Nat /\ b * p \in Nat OBVIOUS
  <2> QED BY <2>1, <2>2, <2>3
<1> DEFINE m == Nth(t)  n == Nth(u)  x == m * Stride  y == n * Stride
<1>2. m \in Nat /\ n \in Nat /\ m # n BY TypesApart
<1>3. Place(t) = x /\ Place(u) = y BY Places
<1>4. m < n \/ n < m
  <2> HIDE DEF m, n
  <2> QED BY <1>2
<1>5. /\ m < n => x + Stride <= y /\ x \in Nat /\ y \in Nat
      /\ n < m => y + Stride <= x /\ x \in Nat /\ y \in Nat
  <2> HIDE DEF m, n
  <2> QED BY <1>1, <1>2, AcpiConstants
<1> HIDE DEF m, n, x, y
<1>6. x + g # y + j BY <1>2, <1>4, <1>5, AcpiConstants
<1> QED BY <1>3, <1>6

(* A machine's tables are those of the assumption. *)
LEMMA FirmwareType ==
    ASSUME fw \in Firmwares
    PROVE  /\ fw.rsdp_sum \in Nat /\ fw.revision \in Nat /\ fw.rsdt_sum \in Nat
           /\ fw.cut \in Nat
           /\ Len(fw.sdts) \in Nat /\ Entries \in Nat
           /\ \A k \in 1 .. Entries : fw.madt[k].type \in Nat /\ fw.madt[k].length \in Nat
           /\ Entries = 0 => fw.cut = 0
           /\ Entries # 0 => fw.cut < fw.madt[Entries].length
<1> DEFINE E == [type : Nat, length : Nat]  T == [signature : STRING, checksum : Nat]
<1>1. /\ {fw.rsdp_sum, fw.revision, fw.rsdt_sum, fw.cut} \subseteq Nat
      /\ fw.sdts \in Seq(T) /\ fw.madt \in Seq(E)
      /\ IF fw.madt = <<>> THEN fw.cut = 0 ELSE fw.cut < fw.madt[Len(fw.madt)].length
  BY AcpiNumbers
<1>2. \A k \in 1 .. Entries : fw.madt[k].type \in Nat /\ fw.madt[k].length \in Nat
  <2> SUFFICES ASSUME NEW k \in 1 .. Entries
      PROVE  fw.madt[k].type \in Nat /\ fw.madt[k].length \in Nat
    OBVIOUS
  <2>1. fw.madt[k] \in E
    <3> HIDE DEF E
    <3> QED BY <1>1, ElementOfSeq DEF Entries
  <2> QED BY <2>1
<1> HIDE DEF E, T
<1>3. Len(fw.sdts) \in Nat /\ Entries \in Nat BY <1>1, LenProperties DEF Entries
<1>4. Entries = 0 <=> fw.madt = <<>> BY <1>1, EmptySeq DEF Entries
<1> QED BY <1>1, <1>2, <1>3, <1>4 DEF Entries

(* The offsets are the sums of the lengths before them: there is such a    *)
(* function, since there is one as far as any entry.                       *)
LEMMA Offsets ==
    ASSUME fw \in Firmwares
    PROVE  /\ Offset(1) = 0
           /\ \A k \in 1 .. Entries : Offset(k + 1) = Offset(k) + fw.madt[k].length
<1> DEFINE L == Entries
           len(n) == fw.madt[n].length
           body(n, v) == IF n = 0 THEN 0 ELSE v[n - 1] + len(n)
           upto(k, v) == v = [n \in 0 .. k |-> body(n, v)]
           good == {k \in 0 .. L : \E v : upto(k, v)}
<1>1. L \in Nat BY FirmwareType
<1> HIDE DEF L, len
<1>2. 0 \in good
  <2> DEFINE z == [n \in 0 .. 0 |-> 0]
  <2>1. \A n \in 0 .. 0 : n = 0 OBVIOUS
  <2>2. z = [n \in 0 .. 0 |-> body(n, z)] BY <2>1
  <2>3. 0 \in 0 .. L BY <1>1
  <2> QED BY <2>2, <2>3
<1>3. ASSUME NEW k \in 1 .. L, k - 1 \in good PROVE k \in good
  <2>1. PICK v : upto(k - 1, v) BY <1>3
  <2> DEFINE w == [n \in 0 .. k |-> IF n = k THEN body(k, v) ELSE v[n]]
  <2>2. k \in 0 .. L /\ k \in Nat /\ k # 0 BY <1>1
  <2>3. \A n \in 0 .. k : n # k => n \in 0 .. k - 1 BY <2>2
  <2>4. \A n \in 0 .. k : n # 0 => n - 1 \in 0 .. k - 1 /\ n - 1 \in 0 .. k /\ n - 1 # k BY <2>2
  <2>5. \A n \in 0 .. k - 1 : v[n] = body(n, v) BY <2>1
  <2>6. \A n \in 0 .. k : n # 0 => w[n - 1] = v[n - 1] BY <2>4
  <2>7. \A n \in 0 .. k : w[n] = body(n, v) BY <2>3, <2>5
  <2>8. \A n \in 0 .. k : body(n, w) = body(n, v) BY <2>6
  <2>9. \A n \in 0 .. k : w[n] = body(n, w) BY <2>7, <2>8
  <2>10. upto(k, w)
    <3> DEFINE u == [n \in 0 .. k |-> body(n, w)]
    <3>1. \A n \in 0 .. k : w[n] = u[n] BY <2>9
    <3>2. DOMAIN w = 0 .. k /\ DOMAIN u = 0 .. k OBVIOUS
    <3>3. w = u
      <4> HIDE DEF body
      <4> QED BY <3>1, <3>2
    <3> QED BY <3>3
  <2> HIDE DEF upto, w
  <2> QED BY <2>2, <2>10
<1>4. L \in good
  <2> HIDE DEF good
  <2>1. \A k \in 0 .. L : k \in good BY <1>1, <1>2, <1>3, UpTo
  <2> QED BY <1>1, <2>1
<1>5. PICK s : /\ s = [n \in 0 .. Entries |-> IF n = 0 THEN 0 ELSE s[n - 1] + fw.madt[n].length]
               /\ \A k : Offset(k) = s[k - 1]
  <2>1. \E v : v = [n \in 0 .. Entries |-> IF n = 0 THEN 0 ELSE v[n - 1] + fw.madt[n].length]
    BY <1>4 DEF L, len
  <2> QED BY <2>1 DEF Offset, Entries
<1>6. Offset(1) = 0
  <2>1. 0 \in 0 .. Entries /\ 1 - 1 = 0 BY FirmwareType
  <2> QED BY <1>5, <2>1
<1>7. ASSUME NEW k \in 1 .. Entries PROVE Offset(k + 1) = Offset(k) + fw.madt[k].length
  <2>1. k \in 0 .. Entries /\ k # 0 /\ (k + 1) - 1 = k BY FirmwareType
  <2> QED BY <1>5, <2>1
<1> QED BY <1>6, <1>7

(* They grow from one entry to a later one. *)
LEMMA OffsetsGrow ==
    ASSUME fw \in Firmwares
    PROVE  /\ \A k \in 1 .. Entries + 1 : Offset(k) \in Nat
           /\ \A k, m \in 1 .. Entries + 1 : k <= m => Offset(k) <= Offset(m)
<1>1. Entries \in Nat /\ \A k \in 1 .. Entries : fw.madt[k].length \in Nat BY FirmwareType
<1>2. Offset(1) = 0 /\ \A k \in 1 .. Entries : Offset(k + 1) = Offset(k) + fw.madt[k].length
  BY Offsets
<1> DEFINE good == {n \in 0 .. Entries :
                        /\ Offset(n + 1) \in Nat
                        /\ \A k \in 1 .. n + 1 : Offset(k) \in Nat /\ Offset(k) <= Offset(n + 1)}
<1>3. 0 \in good
  <2>1. \A k \in 1 .. 0 + 1 : k = 1 OBVIOUS
  <2>2. 0 + 1 = 1 /\ 0 \in 0 .. Entries /\ 0 \in Nat /\ 0 <= 0 BY <1>1
  <2> QED BY <1>2, <2>1, <2>2
<1>4. ASSUME NEW n \in 1 .. Entries, n - 1 \in good PROVE n \in good
  <2>1. (n - 1) + 1 = n /\ n \in Nat BY <1>1
  <2>2. Offset(n) \in Nat /\ \A k \in 1 .. n : Offset(k) \in Nat /\ Offset(k) <= Offset(n)
    BY <1>4, <2>1
  <2>3. Offset(n + 1) \in Nat /\ Offset(n) <= Offset(n + 1) BY <1>1, <1>2, <2>2
  <2>4. \A k \in 1 .. n + 1 : k = n + 1 \/ k \in 1 .. n BY <2>1
  <2>5. ASSUME NEW k \in 1 .. n + 1 PROVE Offset(k) \in Nat /\ Offset(k) <= Offset(n + 1)
    <3>1. CASE k = n + 1 BY <2>3, <3>1
    <3>2. CASE k \in 1 .. n
      <4>1. Offset(k) \in Nat /\ Offset(k) <= Offset(n) BY <2>2, <3>2
      <4> QED BY <2>2, <2>3, <4>1
    <3> QED BY <2>4, <3>1, <3>2
  <2>6. n \in 0 .. Entries BY <1>1
  <2> QED BY <2>3, <2>5, <2>6
<1>5. \A n \in 0 .. Entries : n \in good
  <2> HIDE DEF good
  <2> QED BY <1>1, <1>3, <1>4, UpTo
<1>6. \A k \in 1 .. Entries + 1 : k - 1 \in 0 .. Entries /\ (k - 1) + 1 = k BY <1>1
<1>7. \A k \in 1 .. Entries + 1 : Offset(k) \in Nat BY <1>5, <1>6
<1>8. ASSUME NEW k \in 1 .. Entries + 1, NEW m \in 1 .. Entries + 1, k <= m
      PROVE  Offset(k) <= Offset(m)
  <2>1. k \in 1 .. m BY <1>8
  <2>2. m - 1 \in good /\ (m - 1) + 1 = m BY <1>5, <1>6
  <2> QED BY <2>1, <2>2
<1> QED BY <1>7, <1>8

(* The walk looks at the entry it has reached. *)
LEMMA EntryReached ==
    ASSUME fw \in Firmwares, NEW k \in 1 .. Entries, Reached(k) PROVE EntryAt(ptr) = k
<1> DEFINE slot(j) == Offset(j) = ptr /\ \A g \in 1 .. j - 1 : Offset(g) # ptr
<1>1. Entries \in Nat BY FirmwareType
<1>2. \A j \in 1 .. Entries : Offset(j) \in Nat
  <2>1. \A j \in 1 .. Entries : j \in 1 .. Entries + 1 BY <1>1
  <2> QED BY <2>1, OffsetsGrow
<1>3. ptr = Offset(k) /\ \A j \in 1 .. k - 1 : Offset(j) < Offset(k) BY DEF Reached
<1>4. \A j \in 1 .. k - 1 : j \in 1 .. Entries BY <1>1
<1>5. slot(k)
  <2> SUFFICES ASSUME NEW j \in 1 .. k - 1 PROVE Offset(j) # ptr
    BY <1>3
  <2>1. Offset(j) < Offset(k) /\ Offset(j) \in Nat /\ Offset(k) \in Nat BY <1>2, <1>3, <1>4
  <2> QED BY <1>3, <2>1
<1>6. ASSUME NEW j \in 1 .. Entries, slot(j) PROVE j = k
  <2>1. CASE j < k
    <3>1. j \in 1 .. k - 1 BY <2>1, <1>1
    <3> QED BY <1>5, <1>6, <3>1
  <2>2. CASE k < j
    <3>1. k \in 1 .. j - 1 BY <2>2, <1>1
    <3> QED BY <1>3, <1>6, <3>1
  <2>3. j \in Int /\ k \in Int OBVIOUS
  <2> QED BY <2>1, <2>2, <2>3
<1>7. EntryAt(ptr) = CHOOSE j \in 1 .. Entries : slot(j) BY DEF EntryAt, Entries
<1> HIDE DEF slot
<1> QED BY <1>5, <1>6, <1>7

(* How many entries of a type there are. *)
LEMMA Numbers ==
    ASSUME fw \in Firmwares, NEW t, NEW n \in Nat
    PROVE  /\ IsFiniteSet(OfType(t, n)) /\ Number(t, n) \in Nat /\ Number(t, n) <= n
           /\ Number(t, n + 1) = Number(t, n) + (IF fw.madt[n + 1].type = t THEN 1 ELSE 0)
<1>1. IsFiniteSet(1 .. n) /\ Cardinality(1 .. n) = n BY FS_Interval
<1>2. IsFiniteSet(OfType(t, n)) /\ Cardinality(OfType(t, n)) <= Cardinality(1 .. n)
  BY <1>1, FS_Subset DEF OfType
<1>3. Number(t, n) \in Nat /\ Number(t, n) <= n BY <1>1, <1>2, FS_CardinalityType DEF Number
<1>4. 1 .. n + 1 = (1 .. n) \cup {n + 1} /\ n + 1 \notin 1 .. n OBVIOUS
<1>5. OfType(t, n + 1) = OfType(t, n) \cup (IF fw.madt[n + 1].type = t THEN {n + 1} ELSE {})
  BY <1>4 DEF OfType
<1>6. n + 1 \notin OfType(t, n) BY <1>4 DEF OfType
<1>7. Number(t, n + 1) = Number(t, n) + (IF fw.madt[n + 1].type = t THEN 1 ELSE 0)
  <2>1. CASE fw.madt[n + 1].type = t
    <3>1. Cardinality(OfType(t, n) \cup {n + 1}) = Cardinality(OfType(t, n)) + 1
      BY <1>2, <1>6, FS_AddElement
    <3> QED BY <1>5, <2>1, <3>1 DEF Number
  <2>2. CASE fw.madt[n + 1].type # t
    <3>1. OfType(t, n + 1) = OfType(t, n) BY <1>5, <2>2
    <3> QED BY <1>3, <2>2, <3>1 DEF Number
  <2> QED BY <2>1, <2>2
<1> QED BY <1>2, <1>3, <1>5, <1>7

(* An entry has its number below that of all the entries of its type. *)
LEMMA NumberBelow ==
    ASSUME fw \in Firmwares, NEW t, NEW n \in Nat, NEW j \in OfType(t, n)
    PROVE  Number(t, j - 1) \in Nat /\ Number(t, j - 1) < Number(t, n)
<1>1. j \in 1 .. n /\ j - 1 \in Nat /\ (j - 1) + 1 = j /\ fw.madt[j].type = t BY DEF OfType
<1>2. Number(t, j) = Number(t, j - 1) + 1 /\ Number(t, j - 1) \in Nat BY <1>1, Numbers
<1>3. OfType(t, j) \subseteq OfType(t, n) BY <1>1 DEF OfType
<1>4. Number(t, j) <= Number(t, n)
  <2>1. IsFiniteSet(OfType(t, n)) BY Numbers
  <2> QED BY <1>3, <2>1, FS_Subset DEF Number
<1>5. Number(t, n) \in Nat BY Numbers
<1> QED BY <1>2, <1>4, <1>5

(* An entry that is put behind the others of its type overwrites none. *)
LEMMA RecordFills ==
    ASSUME AcpiTypeOK, NEW k \in 1 .. Entries, Filled(k), Record(k), acpi_pc' # "fault", fw' = fw,
           acpi_pc # "fault"
    PROVE  Filled(k + 1)'
<1>0. fw \in Firmwares BY DEF AcpiTypeOK
<1> DEFINE u == fw.madt[k].type  dest == Place(u) + idx[u]
<1>1. k - 1 \in Nat /\ (k - 1) + 1 = k /\ (k + 1) - 1 = k BY <1>0, FirmwareType
<1>2. /\ \A t, n : Number(t, n)' = Number(t, n) /\ OfType(t, n)' = OfType(t, n)
  BY DEF Number, OfType
<1>3. \A t \in Types : idx[t] = Number(t, k - 1) BY DEF Filled
<1>4. CASE u \notin Types
  <2>1. \A t \in Types : Number(t, k) = Number(t, k - 1) /\ OfType(t, k) = OfType(t, k - 1)
    <3> SUFFICES ASSUME NEW t \in Types
        PROVE  Number(t, k) = Number(t, k - 1) /\ OfType(t, k) = OfType(t, k - 1)
      OBVIOUS
    <3>1. u # t BY <1>4
    <3>2. Number(t, k - 1) \in Nat BY <1>0, <1>1, Numbers
    <3>3. Number(t, k) = Number(t, k - 1) + 0 BY <1>0, <1>1, <3>1, Numbers
    <3>4. OfType(t, k) = OfType(t, k - 1)
      <4>1. \A j \in 1 .. k : j = k \/ j \in 1 .. k - 1 BY <1>1
      <4>2. \A j \in 1 .. k - 1 : j \in 1 .. k BY <1>1
      <4> QED BY <3>1, <4>1, <4>2 DEF OfType
    <3> QED BY <3>2, <3>3, <3>4
  <2>2. idx' = idx /\ slots' = slots BY <1>4 DEF Record
  <2> QED BY <1>1, <1>2, <2>1, <2>2 DEF Filled
<1>5. CASE u \in Types
  <2>1. /\ dest \in Slots /\ slots' = [slots EXCEPT ![dest] = k]
        /\ idx' = [idx EXCEPT ![u] = idx[u] + 1]
    BY <1>5 DEF Record
  <2>2. \A t \in Types : idx'[t] = IF t = u THEN idx[t] + 1 ELSE idx[t]
    BY <1>5, <2>1 DEF AcpiTypeOK
  <2>3. \A t \in Types : idx[t] \in Nat BY DEF AcpiTypeOK
  <2>4. ASSUME NEW t \in Types PROVE idx'[t] = Number(t, k)
    <3>1. Number(t, k) = Number(t, k - 1) + (IF u = t THEN 1 ELSE 0) BY <1>0, <1>1, Numbers
    <3>2. Number(t, k - 1) \in Nat BY <1>0, <1>1, Numbers
    <3> QED BY <1>3, <2>2, <3>1, <3>2
  <2>5. ASSUME \A t \in Types : idx'[t] <= Stride, NEW t \in Types, NEW j \in OfType(t, k)
        PROVE  slots'[Place(t) + Number(t, j - 1)] = j
    <3>1. \A v \in Types : idx[v] <= Stride
      <4>1. Stride \in Nat BY AcpiConstants
      <4> QED BY <2>2, <2>3, <2>5, <4>1
    <3>2. idx[u] \in 0 .. Stride - 1
      <4>1. idx[u] + 1 <= Stride BY <1>5, <2>2, <2>5
      <4> QED BY <1>5, <2>3, <4>1, AcpiConstants
    <3>3. CASE j = k
      <4>1. t = u BY <3>3 DEF OfType
      <4>2. Place(t) + Number(t, j - 1) = dest BY <1>3, <1>5, <3>3, <4>1
      <4> QED BY <2>1, <3>3, <4>2 DEF AcpiTypeOK
    <3>4. CASE j # k
      <4>1. j \in OfType(t, k - 1)
        <5>1. \A g \in 1 .. k : g = k \/ g \in 1 .. k - 1 BY <1>1
        <5> QED BY <3>4, <5>1 DEF OfType
      <4>2. Number(t, j - 1) \in Nat /\ Number(t, j - 1) < Number(t, k - 1)
        BY <1>0, <1>1, <4>1, NumberBelow
      <4>3. Number(t, j - 1) < idx[t] BY <1>3, <4>2
      <4>4. Number(t, j - 1) \in 0 .. Stride - 1 BY <2>3, <3>1, <4>2, <4>3, AcpiConstants
      <4>5. slots[Place(t) + Number(t, j - 1)] = j BY <3>1, <4>1 DEF Filled
      <4>6. Place(t) + Number(t, j - 1) # dest
        <5>1. CASE t = u
          <6>1. Place(u) \in Int
            <7>1. Place(u) = Nth(u) * Stride /\ Nth(u) \in 0 .. 12 BY <1>5, Places
            <7> QED BY <7>1, AcpiConstants
          <6>2. Number(u, j - 1) < idx[u] /\ Number(u, j - 1) \in Nat /\ idx[u] \in Nat
            BY <1>5, <2>3, <4>2, <4>3, <5>1
          <6>3. \A p \in Int, a, b \in Nat : a < b => p + a # p + b OBVIOUS
          <6> QED BY <5>1, <6>1, <6>2, <6>3
        <5>2. CASE t # u BY <1>5, <3>2, <4>4, <5>2, PlacesApart
        <5> QED BY <5>1, <5>2
      <4>7. Place(t) + Number(t, j - 1) \in Slots
        <5> DEFINE m == Nth(t)  x == m * Stride
        <5>1. Place(t) = x /\ m \in 0 .. 12 BY Places
        <5>2. \A a \in 0 .. 12, b \in Nat : a * b \in Nat /\ a * b <= 12 * b
          <6> SUFFICES ASSUME NEW a \in 0 .. 12, NEW b \in Nat
              PROVE  a * b \in Nat /\ a * b <= 12 * b
            OBVIOUS
          <6>1. 12 - a \in Nat /\ (12 - a) * b \in Nat OBVIOUS
          <6>2. (12 - a) * b = 12 * b - a * b OBVIOUS
          <6>3. a * b \in Nat OBVIOUS
          <6> QED BY <6>1, <6>2, <6>3
        <5>3. x \in Nat /\ x <= 12 * Stride BY <5>1, <5>2, AcpiConstants
        <5> HIDE DEF m, x
        <5> QED BY <4>4, <5>1, <5>3, AcpiConstants DEF Slots
      <4>8. \A d \in Slots : d # dest => slots'[d] = slots[d] BY <2>1 DEF AcpiTypeOK
      <4> QED BY <4>5, <4>6, <4>7, <4>8
    <3> QED BY <3>3, <3>4
  <2> QED BY <1>1, <1>2, <2>4, <2>5 DEF Filled
<1> QED BY <1>4, <1>5

(* The firmware begins with nothing read, ... *)
LEMMA AcpiInitInv == AcpiInit => AcpiInv
<1> SUFFICES ASSUME AcpiInit PROVE AcpiInv
  OBVIOUS
<1>1. fw \in Firmwares /\ acpi_pc = "init" BY DEF AcpiInit
<1>2. Len(fw.sdts) \in Nat BY <1>1, FirmwareType
<1>3. AcpiTypeOK
  <2>1. madt \in 0 .. Len(fw.sdts) /\ ptr \in Nat BY <1>2 DEF AcpiInit
  <2>2. acpi_version_2 \in BOOLEAN BY DEF AcpiInit
  <2>3. idx \in [Types -> Nat] BY DEF AcpiInit
  <2>4. slots \in [Slots -> 1 .. Len(fw.madt) \cup {None}] BY DEF AcpiInit
  <2> QED BY <1>1, <2>1, <2>2, <2>3, <2>4 DEF AcpiTypeOK
<1>4. TablesExact /\ FaultOnlyIf /\ MadtChecked
  BY <1>1 DEF TablesExact, FaultOnlyIf, MadtChecked
<1> QED BY <1>1, <1>3, <1>4 DEF AcpiInv, AcpiInit

(* ... acpi_init takes the RSDT, ... *)
LEMMA InitStep == ASSUME AcpiInv, acpi_init PROVE AcpiInv'
<1>1. fw \in Firmwares BY DEF AcpiInv, AcpiTypeOK
<1>2. fw' = fw /\ madt' = madt /\ ptr' = ptr /\ idx' = idx /\ slots' = slots BY DEF acpi_init
<1>3. fw.rsdp_sum \in Nat /\ fw.revision \in Nat BY <1>1, FirmwareType
<1>4. /\ acpi_pc = "init" /\ acpi_pc' \in {"panic", "fault", "madt"}
      /\ acpi_pc' = "fault" => acpi_version_2' = TRUE
  <2>1. acpi_pc = "init" BY DEF acpi_init
  <2>2. fw.revision >= 2 <=> ~(fw.revision < 2) BY <1>3
  <2>3. CASE fw.rsdp_sum # 0 BY <2>1, <2>3 DEF acpi_init
  <2>4. CASE fw.rsdp_sum = 0 /\ fw.revision >= 2 BY <2>1, <2>4 DEF acpi_init
  <2>5. CASE fw.rsdp_sum = 0 /\ ~(fw.revision >= 2) /\ fw.rsdt_sum # 0 BY <2>1, <2>2, <2>5 DEF acpi_init
  <2>6. CASE fw.rsdp_sum = 0 /\ ~(fw.revision >= 2) /\ fw.rsdt_sum = 0 BY <2>1, <2>2, <2>6 DEF acpi_init
  <2> QED BY <2>3, <2>4, <2>5, <2>6
<1>5. acpi_version_2' \in BOOLEAN BY DEF acpi_init
<1>7. AcpiTypeOK' BY <1>2, <1>4, <1>5 DEF AcpiInv, AcpiTypeOK
<1>10. TablesExact' /\ FaultOnlyIf' /\ MadtChecked'
  BY <1>4 DEF TablesExact, FaultOnlyIf, MadtChecked
<1> QED BY <1>2, <1>4, <1>7, <1>10 DEF AcpiInv

(* ... madt_init finds the first table that checks, ... *)
LEMMA MadtStep == ASSUME AcpiInv, madt_init PROVE AcpiInv'
<1>1. fw \in Firmwares BY DEF AcpiInv, AcpiTypeOK
<1> DEFINE checks(g) == fw.sdts[g].signature = "APIC" /\ fw.sdts[g].checksum = 0
           found == {g \in 1 .. Len(fw.sdts) : checks(g)}
<1>2. /\ fw' = fw /\ acpi_version_2' = acpi_version_2 /\ ptr' = ptr
      /\ idx' = idx /\ slots' = slots /\ acpi_pc = "madt"
  BY DEF madt_init
<1>3. madt' = (IF found = {} THEN 0 ELSE Min(found)) /\ acpi_pc' = (IF madt' = 0 THEN "panic" ELSE "walk")
  BY DEF madt_init, acpi_find_sdt_tbl
<1>4. Len(fw.sdts) \in Nat /\ Entries \in Nat BY <1>1, FirmwareType
<1>5. found \in SUBSET Nat
  <2>1. \A g \in 1 .. Len(fw.sdts) : g \in Nat BY <1>4
  <2> QED BY <2>1
<1>6. found # {} => Min(found) \in found /\ \A g \in found : Min(found) <= g
  <2> HIDE DEF found
  <2> QED BY <1>5, MinOfNaturals
<1>7. madt' \in 0 .. Len(fw.sdts) BY <1>3, <1>4, <1>6
<1>8. AcpiTypeOK'
  <2>1. acpi_pc' \in {"panic", "walk"} BY <1>3
  <2> QED BY <1>2, <1>7, <2>1 DEF AcpiInv, AcpiTypeOK
<1>9. CASE found = {}
  <2>1. acpi_pc' = "panic" BY <1>3, <1>9
  <2> QED BY <1>8, <2>1 DEF AcpiInv, TablesExact, FaultOnlyIf, MadtChecked
<1>10. CASE found # {}
  <2>1. madt' = Min(found) /\ madt' \in found BY <1>3, <1>6, <1>10
  <2>2. madt' \in 1 .. Len(fw.sdts) /\ checks(madt') BY <2>1
  <2>3. acpi_pc' = "walk" BY <1>3, <1>4, <2>2
  <2>4. ASSUME NEW g \in 1 .. madt' - 1, fw.sdts[g].signature = "APIC"
        PROVE  fw.sdts[g].checksum # 0
    <3>1. g \in 1 .. Len(fw.sdts) /\ ~(madt' <= g) BY <1>4, <2>2
    <3>2. g \notin found BY <1>6, <1>10, <2>1, <3>1
    <3> QED BY <2>4, <3>1, <3>2
  <2>5. MadtChecked' BY <1>2, <2>2, <2>4 DEF MadtChecked
  <2>7. TablesExact' /\ FaultOnlyIf' BY <2>3 DEF TablesExact, FaultOnlyIf
  <2>8. 1 \in 1 .. Entries + 1 BY <1>4
  <2>9. Reached(1)'
    <3>1. ptr' = 0 /\ idx' = [t \in Types |-> 0] BY <1>2 DEF AcpiInv
    <3>2. Offset(1)' = 0 BY <1>1, <1>2, Offsets DEF Offset
    <3>3. 1 - 1 = 0 /\ 1 .. 0 = {} OBVIOUS
    <3>4. \A t : OfType(t, 0)' = {} /\ Number(t, 0)' = 0
      BY <3>3, FS_EmptySet DEF OfType, Number
    <3>5. Filled(1)' BY <3>1, <3>3, <3>4 DEF Filled
    <3> QED BY <3>1, <3>2, <3>3, <3>5 DEF Reached
  <2>10. \E k \in 1 .. Entries' + 1 : Reached(k)'
    <3>1. Entries' = Entries BY <1>2 DEF Entries
    <3> QED BY <2>8, <2>9, <3>1
  <2> QED BY <1>8, <2>3, <2>5, <2>7, <2>10 DEF AcpiInv
<1> QED BY <1>9, <1>10

(* ... the walk goes on by one entry, or stays with one of length 0, ...   *)
LEMMA WalkStep == ASSUME AcpiInv, Walk PROVE AcpiInv'
<1>1. AcpiTypeOK /\ fw \in Firmwares /\ acpi_pc = "walk" /\ ptr < MadtEnd
  BY DEF AcpiInv, AcpiTypeOK, Walk, Walking
<1>2. PICK k \in 1 .. Entries + 1 : Reached(k) BY <1>1 DEF AcpiInv
<1>3. /\ Entries \in Nat /\ fw.cut \in Nat
      /\ \A j \in 1 .. Entries : fw.madt[j].type \in Nat /\ fw.madt[j].length \in Nat
  BY <1>1, FirmwareType
<1>4. /\ \A j \in 1 .. Entries + 1 : Offset(j) \in Nat
  BY <1>1, OffsetsGrow
<1>5. k \in 1 .. Entries
  <2>1. Entries + 1 \in 1 .. Entries + 1 BY <1>3
  <2>2. ptr = Offset(k) BY <1>2 DEF Reached
  <2>3. MadtEnd = Offset(Entries + 1) - fw.cut BY DEF MadtEnd, Entries
  <2>4. k # Entries + 1 BY <1>1, <1>3, <1>4, <2>1, <2>2, <2>3
  <2> QED BY <1>3, <2>4
<1>6. EntryAt(ptr) = k BY <1>1, <1>2, <1>5, EntryReached
<1> DEFINE len == fw.madt[k].length
<1>7. /\ Record(k) /\ ptr' = ptr + len /\ fw' = fw /\ acpi_version_2' = acpi_version_2
      /\ madt' = madt
  BY <1>6 DEF Walk
<1>8. len \in Nat BY <1>3, <1>5
<1>9. /\ Entries' = Entries /\ (ZeroLength' <=> ZeroLength)
      /\ \A j : Offset(j)' = Offset(j)
  BY <1>7 DEF Entries, ZeroLength, Offset
<1>10. acpi_pc' \in {"walk", "fault"} BY <1>1, <1>7 DEF Record
<1>11. AcpiTypeOK'
  <2>1. ptr' \in Nat BY <1>1, <1>7, <1>8 DEF AcpiTypeOK
  <2>2. idx' \in [Types -> Nat] /\ slots' \in [Slots -> 1 .. Len(fw.madt) \cup {None}]
    <3>1. idx \in [Types -> Nat] /\ slots \in [Slots -> 1 .. Len(fw.madt) \cup {None}]
      BY <1>1 DEF AcpiTypeOK
    <3>2. k \in 1 .. Len(fw.madt) BY <1>5 DEF Entries
    <3>3. \A t \in Types : idx[t] + 1 \in Nat BY <3>1
    <3> QED BY <1>7, <3>1, <3>2, <3>3 DEF Record
  <2> QED BY <1>1, <1>7, <1>10, <2>1, <2>2 DEF AcpiTypeOK
<1>12. MadtChecked' BY <1>1, <1>7 DEF AcpiInv, MadtChecked
<1>14. TablesExact' BY <1>10 DEF TablesExact
<1>15. CASE acpi_pc' = "fault"
  <2> DEFINE u == fw.madt[k].type
  <2>1. u \in Types /\ Place(u) + idx[u] \notin Slots BY <1>1, <1>7, <1>15 DEF Record
  <2>2. idx[u] \in Nat BY <1>1, <2>1 DEF AcpiTypeOK
  <2>3. ASSUME ~ZeroLength PROVE Entries > 4 * Stride
    <3>1. idx[u] = Number(u, k - 1) BY <1>2, <2>1, <2>3 DEF Reached, Filled
    <3>2. k - 1 \in Nat BY <1>3
    <3>3. Number(u, k - 1) <= k - 1 BY <1>1, <3>2, Numbers
    <3> DEFINE m == Nth(u)  x == m * Stride  g == idx[u]
    <3>4. Place(u) = x /\ m \in 0 .. 12 BY <2>1, Places
    <3>5. x \in Nat /\ x <= 12 * Stride
      <4>1. \A a \in 0 .. 12, b \in Nat : a * b \in Nat /\ a * b <= 12 * b
        <5> SUFFICES ASSUME NEW a \in 0 .. 12, NEW b \in Nat
            PROVE  a * b \in Nat /\ a * b <= 12 * b
          OBVIOUS
        <5>1. 12 - a \in Nat /\ (12 - a) * b \in Nat OBVIOUS
        <5>2. (12 - a) * b = 12 * b - a * b OBVIOUS
        <5>3. a * b \in Nat OBVIOUS
        <5> QED BY <5>1, <5>2, <5>3
      <4> QED BY <3>4, <4>1, AcpiConstants
    <3>6. g \in Nat /\ x + g \notin Slots /\ g <= k - 1 BY <2>1, <2>2, <3>1, <3>3, <3>4
    <3> HIDE DEF m, x, g
    <3>7. x + g >= 16 * Stride BY <3>5, <3>6, AcpiConstants DEF Slots
    <3>8. g >= 4 * Stride BY <3>5, <3>6, <3>7, AcpiConstants
    <3> QED BY <1>3, <1>5, <3>6, <3>8, AcpiConstants
  <2>4. FaultOnlyIf' BY <1>7, <1>9, <2>3 DEF FaultOnlyIf, Entries
  <2> QED BY <1>11, <1>12, <1>14, <1>15, <2>4 DEF AcpiInv
<1>16. CASE acpi_pc' = "walk"
  <2>1. FaultOnlyIf' BY <1>16 DEF FaultOnlyIf
  <2>2. CASE len = 0
    <3>1. ZeroLength BY <1>5, <2>2 DEF ZeroLength, Entries
    <3>2. ptr' = ptr BY <1>1, <1>7, <2>2 DEF AcpiTypeOK
    <3>3. Reached(k)' BY <1>2, <1>7, <1>9, <3>1, <3>2 DEF Reached
    <3>4. \E j \in 1 .. Entries' + 1 : Reached(j)' BY <1>9, <3>3
    <3> QED BY <1>11, <1>12, <1>14, <1>16, <2>1, <3>4 DEF AcpiInv
  <2>3. CASE len # 0
    <3>1. Offset(k + 1) = Offset(k) + len BY <1>1, <1>5, Offsets
    <3>2. k + 1 \in 1 .. Entries + 1 /\ (k + 1) - 1 = k BY <1>3, <1>5
    <3>3. ptr' = Offset(k + 1) BY <1>2, <1>7, <3>1 DEF Reached
    <3>4. ASSUME NEW j \in 1 .. k PROVE fw.madt[j].length # 0 /\ Offset(j) < Offset(k + 1)
      <4>1. j = k \/ j \in 1 .. k - 1 BY <1>3
      <4>2. Offset(k) \in Nat /\ Offset(k) < Offset(k + 1) BY <1>4, <1>8, <2>3, <3>1
      <4>3. CASE j \in 1 .. k - 1
        <5>1. fw.madt[j].length # 0 /\ Offset(j) < Offset(k) BY <1>2, <4>3 DEF Reached
        <5>2. Offset(j) \in Nat
          <6>1. j \in 1 .. Entries + 1 BY <1>3, <4>3
          <6> QED BY <1>4, <6>1
        <5>3. Offset(k + 1) \in Nat BY <1>4, <3>2
        <5> QED BY <4>2, <5>1, <5>2, <5>3
      <4> QED BY <2>3, <4>1, <4>2, <4>3
    <3>5. ~ZeroLength => Filled(k + 1)'
      <4> SUFFICES ASSUME ~ZeroLength PROVE Filled(k + 1)'
        OBVIOUS
      <4>1. Filled(k) BY <1>2 DEF Reached
      <4> QED BY <1>1, <1>5, <1>7, <1>16, <4>1, RecordFills
    <3>6. Reached(k + 1)' BY <1>7, <1>9, <3>2, <3>3, <3>4, <3>5 DEF Reached
    <3>7. \E j \in 1 .. Entries' + 1 : Reached(j)' BY <1>9, <3>2, <3>6
    <3> QED BY <1>11, <1>12, <1>14, <1>16, <2>1, <3>7 DEF AcpiInv
  <2> QED BY <2>2, <2>3
<1> QED BY <1>10, <1>15, <1>16

(* ... and ends behind the last one. *)
LEMMA DoneStep == ASSUME AcpiInv, WalkDone PROVE AcpiInv'
<1>1. AcpiTypeOK /\ fw \in Firmwares /\ acpi_pc = "walk" /\ ptr >= MadtEnd
  BY DEF AcpiInv, AcpiTypeOK, WalkDone
<1>2. /\ fw' = fw /\ acpi_version_2' = acpi_version_2 /\ madt' = madt
      /\ ptr' = ptr /\ idx' = idx /\ slots' = slots /\ acpi_pc' = "done"
  BY DEF WalkDone
<1>3. PICK k \in 1 .. Entries + 1 : Reached(k) BY <1>1 DEF AcpiInv
<1>4. /\ Entries \in Nat /\ fw.cut \in Nat
      /\ \A j \in 1 .. Entries : fw.madt[j].length \in Nat
      /\ Entries # 0 => fw.cut < fw.madt[Entries].length
  BY <1>1, FirmwareType
<1>5. k = Entries + 1
  <2> SUFFICES ASSUME k # Entries + 1 PROVE FALSE
    OBVIOUS
  <2>1. k \in 1 .. Entries /\ k <= Entries /\ Entries \in 1 .. Entries /\ Entries # 0 BY <1>4
  <2>2. Entries \in 1 .. Entries + 1 /\ Entries + 1 \in 1 .. Entries + 1 BY <2>1
  <2>3. Offset(k) <= Offset(Entries) /\ Offset(k) \in Nat /\ Offset(Entries) \in Nat
    BY <1>1, <2>1, <2>2, OffsetsGrow
  <2>4. Offset(Entries + 1) = Offset(Entries) + fw.madt[Entries].length BY <1>1, <2>1, Offsets
  <2>5. MadtEnd = Offset(Entries + 1) - fw.cut BY DEF MadtEnd, Entries
  <2>6. ptr = Offset(k) BY <1>3 DEF Reached
  <2>7. fw.madt[Entries].length \in Nat /\ fw.cut < fw.madt[Entries].length BY <1>4, <2>1
  <2> QED BY <1>1, <1>4, <2>3, <2>4, <2>5, <2>6, <2>7
<1>6. (Entries + 1) - 1 = Entries BY <1>4
<1>7. ~ZeroLength
  <2>1. \A j \in 1 .. Entries : fw.madt[j].length # 0 BY <1>3, <1>5, <1>6 DEF Reached
  <2> QED BY <2>1 DEF ZeroLength, Entries
<1>8. Filled(Entries + 1) BY <1>3, <1>5, <1>7 DEF Reached
<1>9. TablesExact'
  <2>1. \A t, n : Number(t, n)' = Number(t, n) /\ OfType(t, n)' = OfType(t, n)
    BY <1>2 DEF Number, OfType
  <2>2. Len(fw.madt)' = Entries BY <1>2 DEF Entries
  <2> QED BY <1>2, <1>6, <1>8, <2>1, <2>2 DEF TablesExact, Filled
<1>10. AcpiTypeOK' BY <1>1, <1>2 DEF AcpiTypeOK
<1>11. FaultOnlyIf' BY <1>2 DEF FaultOnlyIf
<1>12. MadtChecked' BY <1>1, <1>2 DEF AcpiInv, MadtChecked
<1> QED BY <1>2, <1>9, <1>10, <1>11, <1>12 DEF AcpiInv

(* acpi.c reads its tables exactly, whatever a firmware presents. *)
THEOREM TablesAreRead == AcpiSpec => []TablesRead
<1>1. AcpiInv /\ [AcpiNext]_acpi => AcpiInv'
  <2> SUFFICES ASSUME AcpiInv, [AcpiNext]_acpi PROVE AcpiInv'
    OBVIOUS
  <2>1. CASE UNCHANGED acpi
    <3>1. /\ fw' = fw /\ acpi_pc' = acpi_pc /\ acpi_version_2' = acpi_version_2
          /\ madt' = madt /\ ptr' = ptr /\ idx' = idx /\ slots' = slots
      BY <2>1 DEF acpi
    <3>2. \A t, n : Number(t, n)' = Number(t, n) /\ OfType(t, n)' = OfType(t, n)
      BY <3>1 DEF Number, OfType
    <3>3. (ZeroLength' <=> ZeroLength) /\ Entries' = Entries /\ \A k : Offset(k)' = Offset(k)
      BY <3>1 DEF ZeroLength, Entries, Offset
    <3>4. AcpiTypeOK' BY <3>1 DEF AcpiInv, AcpiTypeOK
    <3>5. TablesExact' BY <3>1, <3>2 DEF AcpiInv, TablesExact
    <3>6. FaultOnlyIf' BY <3>1, <3>3 DEF AcpiInv, FaultOnlyIf
    <3>7. MadtChecked' BY <3>1 DEF AcpiInv, MadtChecked
    <3>9. \A k : Reached(k) => Reached(k)' BY <3>1, <3>2, <3>3 DEF Reached, Filled
    <3> QED BY <3>1, <3>3, <3>4, <3>5, <3>6, <3>7, <3>9 DEF AcpiInv
  <2> QED BY <2>1, InitStep, MadtStep, WalkStep, DoneStep DEF AcpiNext
<1>2. AcpiInv => TablesRead BY DEF AcpiInv, TablesRead
<1> QED BY <1>1, <1>2, AcpiInitInv, PTL DEF AcpiSpec

-----------------------------------------------------------------------------
(* The I/O APIC: ioapic.c.  The types, with the last entry in its place    *)
(* once ioapic_init is done, are the strengthening that the two invariants *)
(* of LinesRouted need.                                                    *)

IoApicInv ==
    /\ IoApicTypeOK
    /\ ioapic_up => max_redirection_entry = machine.entries - 1
    /\ ~ ioapic_up => unmasked = {}
    /\ IrqRouted
    /\ OpenPins

(* What IoApicNumbers says of a machine. *)
LEMMA MachineType ==
    ASSUME NEW m \in Machines
    PROVE  /\ m.entries \in Nat \ {0} /\ m.gsib \in Nat
           /\ m.firmware \in [0 .. m.entries - 1 -> Entry]
           /\ Len(m.overrides) \in Nat
           /\ \A k \in 1 .. Len(m.overrides) : m.overrides[k].irq \in ISA /\ m.overrides[k].gsi \in Nat
           /\ \A g, j \in 1 .. Len(m.overrides) :
                  g # j => /\ m.overrides[g].irq # m.overrides[j].irq
                           /\ m.overrides[g].gsi # m.overrides[j].gsi
<1>1. m.overrides \in Seq([irq : ISA, gsi : 0 .. REACH - 1]) BY IoApicNumbers
<1>2. \A k \in 1 .. Len(m.overrides) : m.overrides[k] \in [irq : ISA, gsi : 0 .. REACH - 1]
  BY <1>1, ElementOfSeq
<1>3. \A k \in 1 .. Len(m.overrides) : m.overrides[k].irq \in ISA /\ m.overrides[k].gsi \in Nat
  <2>1. \A x \in 0 .. REACH - 1 : x \in Nat OBVIOUS
  <2>2. \A e \in [irq : ISA, gsi : 0 .. REACH - 1] : e.irq \in ISA /\ e.gsi \in 0 .. REACH - 1
    OBVIOUS
  <2> QED BY <1>2, <2>1, <2>2
<1>4. Len(m.overrides) \in Nat BY <1>1, LenProperties
<1>5. m.entries \in Nat \ {0}
  <2>1. m.entries \in 1 .. REACH BY IoApicNumbers
  <2> QED BY <2>1
<1> QED BY <1>3, <1>4, <1>5, IoApicNumbers

(* Max of a set with one element. *)
LEMMA MaxOne == ASSUME NEW x \in Nat PROVE Max({x}) = x
BY DEF Max

(* An IRQ has at most one override, and so has a pin: the first for the    *)
(* one is the last for the other.                                          *)
LEMMA OneOverride ==
    ASSUME machine \in Machines, NEW k \in 1 .. Len(machine.overrides)
    PROVE  /\ OfIrq(machine.overrides[k].irq) = {k} /\ Min(OfIrq(machine.overrides[k].irq)) = k
           /\ OfGsi(machine.overrides[k].gsi) = {k} /\ Max(OfGsi(machine.overrides[k].gsi)) = k
<1>1. OfIrq(machine.overrides[k].irq) = {k} BY MachineType DEF OfIrq
<1>2. OfGsi(machine.overrides[k].gsi) = {k} BY MachineType DEF OfGsi
<1>3. k \in Nat BY MachineType
<1>4. Min({k}) = k BY <1>3, MinOfNaturals
<1>5. Max({k}) = k BY <1>3, MaxOne
<1> QED BY <1>1, <1>2, <1>4, <1>5

(* An IRQ has an override of its own, or none: then its pin is its number. *)
LEMMA PinOfIrq ==
    ASSUME machine \in Machines, NEW irq \in Nat
    PROVE  \/ OfIrq(irq) = {} /\ Pin(irq) = irq - machine.gsib
           \/ \E k \in 1 .. Len(machine.overrides) :
                  /\ machine.overrides[k].irq = irq /\ OfIrq(irq) = {k}
                  /\ Pin(irq) = machine.overrides[k].gsi - machine.gsib
<1>1. CASE OfIrq(irq) = {} BY <1>1 DEF Pin
<1>2. CASE OfIrq(irq) # {}
  <2>1. PICK k \in 1 .. Len(machine.overrides) : machine.overrides[k].irq = irq BY <1>2 DEF OfIrq
  <2> QED BY <1>2, <2>1, OneOverride DEF Pin
<1> QED BY <1>1, <1>2

(* Where the first interrupt is number 0, the calls reach the entry meant. *)
LEMMA GsiMeant ==
    ASSUME machine \in Machines, machine.gsib = 0, NEW irq \in Nat
    PROVE  GsiOf(irq) = Meant(irq) /\ Meant(irq) \in Nat
<1>1. \A n \in Nat : n - 0 = n OBVIOUS
<1>2. CASE irq = 0 BY <1>2 DEF GsiOf, Meant, TIMER_IRQ
<1>3. CASE irq # 0 /\ OfIrq(irq) = {} BY <1>1, <1>3 DEF GsiOf, Meant, TIMER_IRQ, Pin
<1>4. CASE irq # 0 /\ OfIrq(irq) # {}
  <2>1. PICK k \in 1 .. Len(machine.overrides) : machine.overrides[k].irq = irq BY <1>4 DEF OfIrq
  <2>2. Min(OfIrq(irq)) = k /\ machine.overrides[k].gsi \in Nat BY <2>1, OneOverride, MachineType
  <2> QED BY <1>1, <1>4, <2>2 DEF GsiOf, Meant, TIMER_IRQ, Pin
<1> QED BY <1>2, <1>3, <1>4

(* Every call's numbers are naturals. *)
LEMMA IrqsNat == Irqs \subseteq Nat /\ ISA \subseteq Irqs /\ AllVectors \subseteq Irqs
BY IoApicNumbers DEF Irqs, ISA, AllVectors

(* Nothing is routed and nothing is open before ioapic_init. *)
LEMMA IoApicInitInv == IoApicInit => IoApicInv
<1> SUFFICES ASSUME IoApicInit PROVE IoApicInv
  OBVIOUS
<1>1. machine \in Machines BY DEF IoApicInit
<1>2. /\ machine.entries \in Nat \ {0} /\ redtbl \in [0 .. machine.entries - 1 -> Entry]
  BY <1>1, MachineType DEF IoApicInit
<1>3. 0 \in 0 .. machine.entries - 1 BY <1>2
<1>4. lvt_masked \in BOOLEAN /\ ioapic_up \in BOOLEAN /\ unmasked = {} /\ ~ ioapic_up /\ lvt_masked
      /\ max_redirection_entry = 0
  BY Zenon DEF IoApicInit
<1>5. IoApicTypeOK BY <1>1, <1>2, <1>3, <1>4 DEF IoApicTypeOK
<1>6. OpenPins BY <1>4 DEF OpenPins
<1>7. IrqRouted BY <1>4 DEF IrqRouted
<1> QED BY <1>4, <1>5, <1>6, <1>7 DEF IoApicInv

(* What ioapic_init leaves in an entry. *)
LEMMA InitEntry ==
    ASSUME machine \in Machines, NEW r \in [0 .. machine.entries - 1 -> Entry]
    PROVE  LET new == MapIdentity(MapOverrides(MaskAll(r)))
           IN  /\ new \in [0 .. machine.entries - 1 -> Entry]
               /\ \A p \in 0 .. machine.entries - 1 :
                      /\ new[p].mask = TRUE
                      /\ OfGsi(p) # {} => new[p] = map_redtbl_entry(machine.overrides[Max(OfGsi(p))].irq)
                      /\ p \in ISA /\ OfGsi(p) = {} => new[p] = map_redtbl_entry(p)
<1> DEFINE D == 0 .. machine.entries - 1
           a == MaskAll(r)
           b == MapOverrides(a)
           c == MapIdentity(b)
<1>1. \A v \in Nat : map_redtbl_entry(v) \in Entry /\ map_redtbl_entry(v).mask = TRUE
  <2>1. \A v \in Nat : v + IDT_EXCEPTIONS \in Nat BY IoApicNumbers
  <2> QED BY <2>1 DEF map_redtbl_entry, Entry
<1>2. a = [p \in D |-> [r[p] EXCEPT !.mask = TRUE]] BY DEF MaskAll
<1>3. \A p \in D : a[p] \in Entry /\ a[p].mask = TRUE
  <2>1. \A p \in D : a[p] = [r[p] EXCEPT !.mask = TRUE] BY <1>2
  <2>2. \A p \in D : r[p] \in Entry OBVIOUS
  <2>3. \A e \in Entry : [e EXCEPT !.mask = TRUE] \in Entry /\ [e EXCEPT !.mask = TRUE].mask = TRUE
    BY DEF Entry
  <2> QED BY <2>1, <2>2, <2>3
<1>4. b = [p \in D |-> IF OfGsi(p) = {} THEN a[p]
                       ELSE map_redtbl_entry(machine.overrides[Max(OfGsi(p))].irq)]
  BY <1>2 DEF MapOverrides
<1>5. c = [p \in D |-> IF p \in ISA /\ OfGsi(p) = {} THEN map_redtbl_entry(p) ELSE b[p]]
  BY <1>4 DEF MapIdentity
<1>6. \A p \in D : OfGsi(p) # {} => machine.overrides[Max(OfGsi(p))].irq \in Nat
  <2> SUFFICES ASSUME NEW p \in D, OfGsi(p) # {} PROVE machine.overrides[Max(OfGsi(p))].irq \in Nat
    OBVIOUS
  <2>1. PICK k \in 1 .. Len(machine.overrides) : machine.overrides[k].gsi = p BY DEF OfGsi
  <2>2. Max(OfGsi(p)) = k BY <2>1, OneOverride
  <2>3. machine.overrides[k].irq \in ISA BY MachineType
  <2> QED BY <2>2, <2>3, IrqsNat
<1>7. ISA \subseteq Nat BY IrqsNat
<1> HIDE DEF a, b
<1>8. \A p \in D : b[p] \in Entry /\ b[p].mask = TRUE BY <1>1, <1>3, <1>4, <1>6
<1> HIDE DEF c
<1>9. \A p \in D : c[p] \in Entry /\ c[p].mask = TRUE BY <1>1, <1>5, <1>7, <1>8
<1>10. \A p \in D : /\ OfGsi(p) # {} => c[p] = map_redtbl_entry(machine.overrides[Max(OfGsi(p))].irq)
                    /\ p \in ISA /\ OfGsi(p) = {} => c[p] = map_redtbl_entry(p)
  BY <1>4, <1>5
<1>11. c \in [D -> Entry] BY <1>5, <1>9
<1>12. c = MapIdentity(MapOverrides(MaskAll(r))) BY DEF a, b, c
<1> QED BY <1>9, <1>10, <1>11, <1>12

(* ioapic_init puts every line's vector on its pin: where a line without   *)
(* an override could lose its pin, the override's line is on it as well.   *)
LEMMA IoApicUp == ASSUME IoApicInv, ioapic_init PROVE IoApicInv'
<1> DEFINE D == 0 .. machine.entries - 1
           new == MapIdentity(MapOverrides(MaskAll(redtbl)))
<1>1. machine \in Machines /\ redtbl \in [D -> Entry] BY DEF IoApicInv, IoApicTypeOK
<1>2. /\ machine' = machine /\ ioapic_up' = TRUE /\ unmasked' = unmasked /\ lvt_masked' = lvt_masked
      /\ max_redirection_entry' = machine.entries - 1 /\ unmasked = {}
  BY DEF ioapic_init, IoApicInv
<1>3. redtbl' = new BY DEF ioapic_init
<1>4. /\ new \in [D -> Entry]
      /\ \A p \in D :
             /\ new[p].mask = TRUE
             /\ OfGsi(p) # {} => new[p] = map_redtbl_entry(machine.overrides[Max(OfGsi(p))].irq)
             /\ p \in ISA /\ OfGsi(p) = {} => new[p] = map_redtbl_entry(p)
  BY <1>1, InitEntry
<1> HIDE DEF new
<1>5. IoApicTypeOK'
  <2>1. machine.entries \in Nat \ {0} BY <1>1, MachineType
  <2>2. machine.entries - 1 \in D BY <2>1
  <2>3. redtbl' \in [0 .. machine'.entries - 1 -> Entry] BY <1>2, <1>3, <1>4
  <2>4. max_redirection_entry' \in 0 .. machine'.entries - 1 BY <1>2, <2>2
  <2>5. /\ machine' \in Machines /\ lvt_masked' \in BOOLEAN /\ ioapic_up' \in BOOLEAN
        /\ unmasked' \subseteq Irqs
    BY <1>1, <1>2 DEF IoApicInv, IoApicTypeOK
  <2>6. Irqs' = Irqs BY DEF Irqs, ISA, AllVectors
  <2> QED BY <2>3, <2>4, <2>5, <2>6 DEF IoApicTypeOK
<1>6. Pins' = D BY <1>3, <1>4 DEF Pins
<1>7. \A x : OfIrq(x)' = OfIrq(x) BY <1>2 DEF OfIrq
<1>8. \A x : Pin(x)' = Pin(x) BY <1>2, <1>7 DEF Pin
<1>9. IrqRouted'
  <2> SUFFICES ASSUME machine.gsib = 0, NEW irq \in ISA, Pin(irq) \in D,
                      OfIrq(irq) # {} \/ \A j \in ISA \ {irq} : Pin(j) # Pin(irq)
               PROVE  new[Pin(irq)] = map_redtbl_entry(irq)
    <3>1. ASSUME NEW p, NEW x, new[p] = map_redtbl_entry(x), x \in ISA
          PROVE  new[p].vector = IDT_EXCEPTIONS + x /\ new[p].destination = 0
      <4>1. x + IDT_EXCEPTIONS = IDT_EXCEPTIONS + x BY <3>1, IoApicNumbers DEF ISA
      <4> QED BY <3>1, <4>1 DEF map_redtbl_entry
    <3> QED BY <1>2, <1>3, <1>6, <1>7, <1>8, <3>1, Zenon DEF IrqRouted
  <2>1. \A n \in Nat : n - machine.gsib = n OBVIOUS
  <2>2. irq \in Nat BY IrqsNat
  <2>3. CASE OfIrq(irq) # {}
    <3>1. PICK k \in 1 .. Len(machine.overrides) :
              machine.overrides[k].irq = irq /\ Pin(irq) = machine.overrides[k].gsi - machine.gsib
      BY <1>1, <2>2, <2>3, PinOfIrq
    <3>2. Pin(irq) = machine.overrides[k].gsi BY <1>1, <2>1, <3>1, MachineType
    <3>3. OfGsi(Pin(irq)) # {} /\ Max(OfGsi(Pin(irq))) = k BY <1>1, <3>2, OneOverride
    <3> QED BY <1>4, <3>1, <3>3
  <2>4. CASE OfIrq(irq) = {}
    <3>1. Pin(irq) = irq BY <1>1, <2>1, <2>2, <2>4, PinOfIrq
    <3>2. OfGsi(irq) = {}
      <4> SUFFICES ASSUME OfGsi(irq) # {} PROVE FALSE
        OBVIOUS
      <4>1. PICK k \in 1 .. Len(machine.overrides) : machine.overrides[k].gsi = irq BY DEF OfGsi
      <4> DEFINE j == machine.overrides[k].irq
      <4>2. j \in ISA /\ j \in Nat BY <1>1, MachineType, IrqsNat
      <4>3. OfIrq(j) = {k} BY <1>1, OneOverride
      <4>4. j # irq BY <2>4, <4>3
      <4>5. Pin(j) = irq BY <1>1, <2>1, <2>2, <4>1, <4>2, <4>3, OneOverride DEF Pin
      <4> QED BY <2>4, <3>1, <4>2, <4>4, <4>5
    <3> QED BY <1>4, <3>1, <3>2
  <2> QED BY <2>3, <2>4
<1>10. OpenPins'
  <2>1. {p \in Pins' : ~ redtbl'[p].mask} = {} BY <1>3, <1>4, <1>6
  <2>2. lvt_masked' <=> TIMER_IRQ \notin unmasked' BY <1>2 DEF IoApicInv, OpenPins
  <2>3. {Meant(x)' : x \in unmasked'} = {} BY <1>2
  <2> QED BY <2>1, <2>2, <2>3 DEF OpenPins
<1> QED BY <1>2, <1>5, <1>9, <1>10 DEF IoApicInv

(* mask_irq and unmask_irq leave the routing alone. *)
LEMMA MaskChanges ==
    ASSUME IoApicInv, ioapic_up, NEW irqs \in SUBSET Irqs, NEW to \in BOOLEAN,
           redtbl' = [p \in Pins |-> IF p \in {GsiOf(x) : x \in irqs} /\ p <= max_redirection_entry
                                     THEN [redtbl[p] EXCEPT !.mask = to] ELSE redtbl[p]],
           lvt_masked' \in BOOLEAN, unmasked' \subseteq Irqs,
           lvt_masked' <=> TIMER_IRQ \notin unmasked',
           unmasked' = (IF to THEN unmasked \ irqs ELSE unmasked \cup irqs),
           UNCHANGED <<machine, max_redirection_entry, ioapic_up>>
    PROVE  IoApicInv'
<1> DEFINE D == 0 .. machine.entries - 1
           hit == {GsiOf(x) : x \in irqs}
<1>1. machine \in Machines /\ redtbl \in [D -> Entry] /\ ioapic_up' = TRUE /\ machine' = machine
  BY DEF IoApicInv, IoApicTypeOK
<1>2. Pins = D /\ max_redirection_entry = machine.entries - 1 BY <1>1 DEF Pins, IoApicInv
<1>3. machine.entries \in Nat BY <1>1, MachineType
<1>4. redtbl' = [p \in D |-> IF p \in hit THEN [redtbl[p] EXCEPT !.mask = to] ELSE redtbl[p]]
  <2>1. \A p \in D : p <= max_redirection_entry BY <1>2, <1>3
  <2> QED BY <1>2, <2>1
<1> HIDE DEF hit
<1>5. \A p \in D : /\ redtbl'[p] \in Entry /\ redtbl'[p].vector = redtbl[p].vector
                   /\ redtbl'[p].destination = redtbl[p].destination
                   /\ p \in hit => redtbl'[p].mask = to
                   /\ p \notin hit => redtbl'[p] = redtbl[p]
  <2> SUFFICES ASSUME NEW p \in D
      PROVE  /\ redtbl'[p] \in Entry /\ redtbl'[p].vector = redtbl[p].vector
             /\ redtbl'[p].destination = redtbl[p].destination
             /\ p \in hit => redtbl'[p].mask = to
             /\ p \notin hit => redtbl'[p] = redtbl[p]
    OBVIOUS
  <2> DEFINE e == redtbl[p]
             f == [e EXCEPT !.mask = to]
  <2>1. e \in Entry BY <1>1
  <2>2. redtbl'[p] = IF p \in hit THEN f ELSE e BY <1>4
  <2> HIDE DEF e
  <2>3. f \in Entry /\ f.vector = e.vector /\ f.destination = e.destination /\ f.mask = to
    BY <2>1 DEF Entry
  <2> HIDE DEF f
  <2>4. CASE p \in hit
    <3>1. redtbl'[p] = f BY <2>2, <2>4
    <3> QED BY <2>3, <2>4, <3>1 DEF e
  <2>5. CASE p \notin hit
    <3>1. redtbl'[p] = e BY <2>2, <2>5
    <3> QED BY <2>1, <2>5, <3>1 DEF e
  <2> QED BY <2>4, <2>5
<1>6. redtbl' \in [D -> Entry] /\ Pins' = D
  <2>1. redtbl' \in [D -> Entry] BY <1>4, <1>5
  <2> QED BY <2>1 DEF Pins
<1>7. IoApicTypeOK'
  <2>1. Irqs' = Irqs BY DEF Irqs, ISA, AllVectors
  <2> QED BY <1>1, <1>6, <2>1 DEF IoApicInv, IoApicTypeOK
<1>8. \A x : OfIrq(x)' = OfIrq(x) BY <1>1 DEF OfIrq
<1>9. \A x : Pin(x)' = Pin(x) /\ Meant(x)' = Meant(x) BY <1>1, <1>8 DEF Pin, Meant
<1>10. IrqRouted'
  <2>1. IrqRouted BY DEF IoApicInv
  <2> QED BY <1>1, <1>2, <1>5, <1>6, <1>8, <1>9, <2>1 DEF IrqRouted
<1>11. OpenPins'
  <2> SUFFICES ASSUME machine.gsib = 0, \A x, y \in Irqs : Meant(x) = Meant(y) => x = y
               PROVE  {p \in D : ~ redtbl'[p].mask} = {Meant(x) : x \in unmasked'} \cap D
    BY <1>1, <1>6, <1>9, Zenon DEF OpenPins
  <2>1. {p \in D : ~ redtbl[p].mask} = {Meant(x) : x \in unmasked} \cap D
    BY <1>2 DEF IoApicInv, OpenPins
  <2>2. \A x \in irqs : GsiOf(x) = Meant(x) BY <1>1, GsiMeant, IrqsNat
  <2>3. hit = {Meant(x) : x \in irqs} BY <2>2 DEF hit
  <2>4. unmasked \subseteq Irqs BY DEF IoApicInv, IoApicTypeOK
  <2>5. CASE to = TRUE
    <3>1. unmasked' = unmasked \ irqs BY <2>5
    <3>2. \A p \in D : ~ redtbl'[p].mask <=> p \notin hit /\ ~ redtbl[p].mask BY <1>5, <2>5
    <3>3. {p \in D : ~ redtbl'[p].mask} = ({Meant(x) : x \in unmasked} \cap D) \ hit
      BY <2>1, <3>2
    <3>4. {Meant(x) : x \in unmasked} \ {Meant(x) : x \in irqs} = {Meant(x) : x \in unmasked \ irqs}
      BY <2>4
    <3> QED BY <2>3, <3>1, <3>3, <3>4
  <2>6. CASE to = FALSE
    <3>1. unmasked' = unmasked \cup irqs BY <2>6
    <3>2. \A p \in D : ~ redtbl'[p].mask <=> p \in hit \/ ~ redtbl[p].mask BY <1>5, <2>6
    <3>3. {p \in D : ~ redtbl'[p].mask} = ({Meant(x) : x \in unmasked} \cap D) \cup (hit \cap D)
      BY <2>1, <3>2
    <3> QED BY <2>3, <3>1, <3>3
  <2> QED BY <2>5, <2>6
<1> QED BY <1>1, <1>2, <1>7, <1>10, <1>11 DEF IoApicInv

(* Both calls, for one line or for all. *)
LEMMA MaskStep ==
    ASSUME IoApicInv, ioapic_up, NEW irqs \in SUBSET Irqs, MaskIrqs(irqs) \/ UnmaskIrqs(irqs)
    PROVE  IoApicInv'
<1>1. lvt_masked \in BOOLEAN /\ unmasked \subseteq Irqs /\ (lvt_masked <=> TIMER_IRQ \notin unmasked)
  BY DEF IoApicInv, IoApicTypeOK, OpenPins
<1>2. CASE MaskIrqs(irqs)
  <2>1. /\ lvt_masked' \in BOOLEAN /\ unmasked' \subseteq Irqs
        /\ lvt_masked' <=> TIMER_IRQ \notin unmasked'
        /\ unmasked' = unmasked \ irqs
    BY <1>1, <1>2, Zenon DEF MaskIrqs
  <2>2. UNCHANGED <<machine, max_redirection_entry, ioapic_up>> BY <1>2 DEF MaskIrqs
  <2>3. redtbl' = [p \in Pins |-> IF p \in {GsiOf(x) : x \in irqs} /\ p <= max_redirection_entry
                                  THEN [redtbl[p] EXCEPT !.mask = TRUE] ELSE redtbl[p]]
    BY <1>2, Zenon DEF MaskIrqs, mask_gsi
  <2> QED BY <2>1, <2>2, <2>3, MaskChanges
<1>3. CASE UnmaskIrqs(irqs)
  <2>1. /\ lvt_masked' \in BOOLEAN /\ unmasked' \subseteq Irqs
        /\ lvt_masked' <=> TIMER_IRQ \notin unmasked'
        /\ unmasked' = unmasked \cup irqs
    BY <1>1, <1>3, Zenon DEF UnmaskIrqs
  <2>2. UNCHANGED <<machine, max_redirection_entry, ioapic_up>> BY <1>3 DEF UnmaskIrqs
  <2>3. redtbl' = [p \in Pins |-> IF p \in {GsiOf(x) : x \in irqs} /\ p <= max_redirection_entry
                                  THEN [redtbl[p] EXCEPT !.mask = FALSE] ELSE redtbl[p]]
    BY <1>3, Zenon DEF UnmaskIrqs, unmask_gsi
  <2> QED BY <2>1, <2>2, <2>3, MaskChanges
<1> QED BY <1>2, <1>3

(* Every step of the I/O APIC keeps the invariant. *)
LEMMA IoApicStep == ASSUME IoApicInv, [IoApicNext]_ioapic PROVE IoApicInv'
<1>1. CASE ioapic_init BY <1>1, IoApicUp
<1>2. CASE ioapic_up /\ \E irq \in ISA : mask_irq(irq) \/ unmask_irq(irq)
  <2>1. PICK irq \in ISA : MaskIrqs({irq}) \/ UnmaskIrqs({irq}) BY <1>2 DEF mask_irq, unmask_irq
  <2>2. {irq} \in SUBSET Irqs BY IrqsNat
  <2> QED BY <1>2, <2>1, <2>2, MaskStep
<1>3. CASE ioapic_up /\ (mask_all_irq \/ unmask_all_irq)
  <2>1. AllVectors \in SUBSET Irqs BY IrqsNat
  <2> QED BY <1>3, <2>1, MaskStep DEF mask_all_irq, unmask_all_irq
<1>4. CASE UNCHANGED ioapic
  <2>1. /\ machine' = machine /\ max_redirection_entry' = max_redirection_entry /\ redtbl' = redtbl
        /\ lvt_masked' = lvt_masked /\ ioapic_up' = ioapic_up /\ unmasked' = unmasked
    BY <1>4 DEF ioapic
  <2>2. \A x : OfIrq(x)' = OfIrq(x) BY <2>1 DEF OfIrq
  <2>3. Pins' = Pins /\ \A x : Pin(x)' = Pin(x) /\ Meant(x)' = Meant(x)
    BY <2>1, <2>2 DEF Pins, Pin, Meant
  <2>4. IoApicTypeOK' BY <2>1 DEF IoApicInv, IoApicTypeOK, Irqs, ISA, AllVectors
  <2>5. IrqRouted' BY <2>1, <2>2, <2>3 DEF IoApicInv, IrqRouted, ISA
  <2>6. OpenPins' BY <2>1, <2>3 DEF IoApicInv, OpenPins, Irqs, ISA, AllVectors
  <2> QED BY <2>1, <2>4, <2>5, <2>6 DEF IoApicInv
<1> QED BY <1>1, <1>2, <1>3, <1>4 DEF IoApicNext

(* The calls for all lines take vectors, and no override is for one. *)
LEMMA AllMiss == ASSUME IoApicInv PROVE AllMissesIsa
<1> SUFFICES ASSUME mask_all_irq \/ unmask_all_irq, NEW irq \in ISA,
                    GsiOf(irq) \in Pins, GsiOf(irq) < IDT_EXCEPTIONS
             PROVE  redtbl'[GsiOf(irq)].mask = redtbl[GsiOf(irq)].mask
  BY DEF AllMissesIsa
<1>1. machine \in Machines BY DEF IoApicInv, IoApicTypeOK
<1>2. \A v \in AllVectors : GsiOf(v) = v /\ v >= IDT_EXCEPTIONS /\ v \in Nat
  <2> SUFFICES ASSUME NEW v \in AllVectors PROVE GsiOf(v) = v /\ v >= IDT_EXCEPTIONS /\ v \in Nat
    OBVIOUS
  <2>1. v >= IDT_EXCEPTIONS /\ v \in Nat /\ v \notin ISA BY IoApicNumbers DEF AllVectors, ISA
  <2>2. OfIrq(v) = {} BY <1>1, <2>1, MachineType DEF OfIrq
  <2> QED BY <2>1, <2>2 DEF GsiOf
<1>3. GsiOf(irq) \notin {GsiOf(x) : x \in AllVectors}
  <2>1. \A a, b \in Nat : b = a /\ b < IDT_EXCEPTIONS => ~(a >= IDT_EXCEPTIONS) BY IoApicNumbers
  <2> QED BY <1>2, <2>1
<1>4. redtbl'[GsiOf(irq)] = redtbl[GsiOf(irq)]
  BY <1>3 DEF mask_all_irq, unmask_all_irq, MaskIrqs, UnmaskIrqs, mask_gsi, unmask_gsi
<1> QED BY <1>4

(* LinesRouted, for every machine whose overrides are of different ISA     *)
(* lines and pins: the vectors and the masks that mask_irq and unmask_irq  *)
(* leave, and the lines that mask_all_irq misses.                          *)
THEOREM LinesAreRouted == IoApicSpec => LinesRouted
<1>1. IoApicInit => IoApicInv BY IoApicInitInv
<1>2. IoApicInv /\ [IoApicNext]_ioapic => IoApicInv' BY IoApicStep
<1>3. IoApicInv => IoApicTypeOK /\ IrqRouted /\ OpenPins BY DEF IoApicInv
<1>4. IoApicInv /\ [IoApicNext]_ioapic => [AllMissesIsa]_ioapic BY AllMiss
<1> QED BY <1>1, <1>2, <1>3, <1>4, PTL DEF IoApicSpec, LinesRouted
=============================================================================
