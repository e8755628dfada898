-------------------------------- MODULE Smp --------------------------------
(***************************************************************************)
(* Starting the application processors: smp/smp.c, on the spin lock of     *)
(* klibc/lock.c.                                                           *)
(*                                                                         *)
(* The boot processor sets ap_done to the number of other processors,      *)
(* writes each one's goto_address, and spins until ap_done is 0.  A        *)
(* processor that sees its goto_address enters ap_entry_point, decrements  *)
(* ap_done (a load and a store) under ap_done_lock, and spins for ever.    *)
(* kprint takes a lock of its own that no application processor uses; it   *)
(* is left out.                                                            *)
(***************************************************************************)
EXTENDS Integers, FiniteSets

CONSTANT
    cpu_count       \* smp_response->cpu_count

ASSUME SmpAssumption == cpu_count \in Nat \ {0}

VARIABLES
    boot_cpu,       \* the boot processor's index in smp_response->cpus
    ap_done,        \* the global counter
    locked,         \* ap_done_lock
    goto_address,   \* the cpus whose goto_address is written
    bsp,            \* where smp_init stands
    i,              \* its loop counter
    pc,             \* where each application processor stands
    loaded          \* the value of ap_done in its register

vars == <<boot_cpu, ap_done, locked, goto_address, bsp, i, pc, loaded>>

Cpus == 0 .. cpu_count - 1
Aps == Cpus \ {boot_cpu}

-----------------------------------------------------------------------------
(* smp_init, up to its loop. *)
smp_init ==
    /\ bsp = "start"
    /\ ap_done' = cpu_count - 1
    /\ i' = 1
    /\ bsp' = "boot"
    /\ UNCHANGED <<boot_cpu, locked, goto_address, pc, loaded>>

(* The loop that stops one processor short. *)
BootApShort ==
    /\ bsp = "boot"
    /\ IF i < cpu_count - 1
       THEN goto_address' = goto_address \cup {i} /\ i' = i + 1 /\ UNCHANGED bsp
       ELSE bsp' = "wait" /\ UNCHANGED <<goto_address, i>>
    /\ UNCHANGED <<boot_cpu, ap_done, locked, pc, loaded>>

(* One iteration: write goto_address of cpus[i], or leave the loop. *)
BootAp ==
    /\ bsp = "boot"
    /\ IF i < cpu_count
       THEN /\ goto_address' = goto_address \cup {i}
            /\ i' = i + 1
            /\ UNCHANGED bsp
       ELSE /\ bsp' = "wait"
            /\ UNCHANGED <<goto_address, i>>
    /\ UNCHANGED <<boot_cpu, ap_done, locked, pc, loaded>>

(* The wait for all processors but one. *)
WaitForApsShort ==
    /\ bsp = "wait"
    /\ ~ (ap_done > 1)
    /\ bsp' = "done"
    /\ UNCHANGED <<boot_cpu, ap_done, locked, goto_address, i, pc, loaded>>

(* while (ap_done > 0) {} *)
WaitForAps ==
    /\ bsp = "wait"
    /\ ~ (ap_done > 0)
    /\ bsp' = "done"
    /\ UNCHANGED <<boot_cpu, ap_done, locked, goto_address, i, pc, loaded>>

-----------------------------------------------------------------------------
(* The boot loader parks each application processor on its goto_address;   *)
(* writing the boot processor's own has no effect.                         *)
ap_entry_point(c) ==
    /\ pc[c] = "parked"
    /\ c \in goto_address
    /\ pc' = [pc EXCEPT ![c] = "lock"]
    /\ UNCHANGED <<boot_cpu, ap_done, locked, goto_address, bsp, i, loaded>>

(* A lock that does not look at the flag. *)
lock_untested(c) ==
    /\ pc[c] = "lock"
    /\ locked' = TRUE
    /\ pc' = [pc EXCEPT ![c] = "load"]
    /\ UNCHANGED <<boot_cpu, ap_done, goto_address, bsp, i, loaded>>

(* The test-and-set that finds the flag clear. *)
lock(c) ==
    /\ pc[c] = "lock"
    /\ ~ locked
    /\ locked' = TRUE
    /\ pc' = [pc EXCEPT ![c] = "load"]
    /\ UNCHANGED <<boot_cpu, ap_done, goto_address, bsp, i, loaded>>

(* ap_done--, a load ... *)
Load(c) ==
    /\ pc[c] = "load"
    /\ loaded' = [loaded EXCEPT ![c] = ap_done]
    /\ pc' = [pc EXCEPT ![c] = "store"]
    /\ UNCHANGED <<boot_cpu, ap_done, locked, goto_address, bsp, i>>

(* ... and a store. *)
Store(c) ==
    /\ pc[c] = "store"
    /\ ap_done' = loaded[c] - 1
    /\ pc' = [pc EXCEPT ![c] = "unlock"]
    /\ UNCHANGED <<boot_cpu, locked, goto_address, bsp, i, loaded>>

unlock(c) ==
    /\ pc[c] = "unlock"
    /\ locked' = FALSE
    /\ pc' = [pc EXCEPT ![c] = "spin"]
    /\ UNCHANGED <<boot_cpu, ap_done, goto_address, bsp, i, loaded>>

-----------------------------------------------------------------------------
Init ==
    /\ boot_cpu \in Cpus
    /\ ap_done = 0
    /\ locked = FALSE
    /\ goto_address = {}
    /\ bsp = "start"
    /\ i = 0
    /\ pc = [c \in Cpus |-> "parked"]
    /\ loaded = [c \in Cpus |-> 0]

SmpInit == smp_init \/ BootAp \/ WaitForAps

ApStep(c) ==
    /\ c \in Aps
    /\ ap_entry_point(c) \/ lock(c) \/ Load(c) \/ Store(c) \/ unlock(c)

Next == SmpInit \/ \E c \in Cpus : ApStep(c)

(* Every processor executes its own instructions. *)
Spec == Init /\ [][Next]_vars /\ WF_vars(SmpInit) /\ \A c \in Cpus : WF_vars(ApStep(c))

-----------------------------------------------------------------------------
(* Every variable keeps its type. *)
TypeOK ==
    /\ boot_cpu \in Cpus
    /\ ap_done \in 0 .. cpu_count - 1
    /\ locked \in BOOLEAN
    /\ goto_address \subseteq 1 .. cpu_count - 1
    /\ bsp \in {"start", "boot", "wait", "done"}
    /\ i \in 0 .. cpu_count
    /\ pc \in [Cpus -> {"parked", "lock", "load", "store", "unlock", "spin"}]
    /\ loaded \in [Cpus -> 0 .. cpu_count - 1]

(* The processors that have not decremented ap_done yet. *)
Pending == {c \in Aps : pc[c] \in {"parked", "lock", "load", "store"}}

(* The boot processor goes on to install its TSS and the scheduler only    *)
(* when every application processor has decremented ap_done, wherever the  *)
(* boot processor stands in the boot loader's list.                        *)
AllCheckedIn == bsp = "done" => Pending = {}

(* ap_done counts the processors still to come: no decrement is lost.      *)
CountExact == bsp # "start" => ap_done = Cardinality(Pending)

(* At most one processor is between lock and unlock. *)
MutualExclusion ==
    \A c, d \in Aps :
        pc[c] \in {"load", "store", "unlock"} /\ pc[d] \in {"load", "store", "unlock"} => c = d

(* smp_init returns exactly if the boot loader lists the boot processor    *)
(* first, as the loop from cpus[1] on presumes: otherwise it waits for     *)
(* ever, for a processor that it never starts.                             *)
SmpInitReturns ==
    /\ boot_cpu = 0 => <>(bsp = "done")
    /\ boot_cpu # 0 => [](bsp # "done")
=============================================================================
