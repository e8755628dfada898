------------------------------- MODULE Timer --------------------------------
(***************************************************************************)
(* The timers: kernel/src/devices/hpet.c and timer.c.                      *)
(*                                                                         *)
(* hpet_init stops the HPET.  apic_timer_init lets the local timer count   *)
(* down while the HPET measures an interval, and starts it again, periodic,*)
(* with the count it has found.  usleep and wait_10ms wait on the same     *)
(* counter of the HPET, which each call sets back.                         *)
(*                                                                         *)
(* Time goes by in clocks of the local timer's bus.  Interrupts and the    *)
(* emulator may take up to DELAY of them between two instructions.  The    *)
(* interrupt stubs save no register: what goes on after one may have lost  *)
(* its time, or the address of the HPET.                                   *)
(***************************************************************************)
EXTENDS Integers

CONSTANTS
    FEMTO,          \* clocks per tick of the HPET, as its capabilities say
    WORD,           \* 2^64, in clocks: what a time is kept modulo
    MICRO,          \* clocks in a microsecond, FEMTOSECONDS_PER_MICROSECOND
    INTERVAL,       \* clocks of APIC_TIMER_INTERVAL
    RESET_DIVIDER,  \* what the local timer divides by before the kernel (2 after a reset)
    DIVIDER,        \* what divide_config = 3 makes it divide by
    MAX_INIT_COUNT_VAL,
    DELAY,          \* bound on the clocks between two instructions
    Sleepers,       \* tasks that call usleep
    Naps,           \* the times they ask for, in microseconds
    LONGEST         \* bound on the ghost clocks

(* The clocks of a sleeper stop at LONGEST: no time that fits a word is    *)
(* longer.  The interval fits by far (10 ms in five hours), and the count  *)
(* that apic_timer_init starts from, the greatest there is, does not run   *)
(* out while it measures.                                                  *)
ASSUME TimerNumbers ==
    /\ {FEMTO, WORD, MICRO, INTERVAL, RESET_DIVIDER, DIVIDER, MAX_INIT_COUNT_VAL} \subseteq Nat \ {0}
    /\ DELAY \in Nat /\ Naps \subseteq Nat /\ LONGEST \in Nat
    /\ \A n \in Naps : n * MICRO < WORD => n * MICRO <= LONGEST
    /\ INTERVAL + 2 * FEMTO + 2 * DELAY < WORD
    /\ MAX_INIT_COUNT_VAL * RESET_DIVIDER >= INTERVAL + FEMTO + 4 * DELAY

VARIABLES
    timer_pc, lag,  \* the next step of the boot processor; clocks since the one before
    hpet_on, main_counter, phase,           \* the HPET, and the clocks since its last tick
    init_count, current_count, divider, prescale,   \* the local timer
    ticks,          \* apic_ticks_10ms
    task, nap, slept        \* of each sleeper: where it is, what it waits for, and the clocks since

hpet == <<hpet_on, main_counter, phase>>
local_timer == <<init_count, current_count, divider, prescale>>
naps == <<task, nap, slept>>
timer == <<timer_pc, lag, hpet, local_timer, ticks, naps>>

(* Both products have 64 bits. *)
poll_time_hpet_timer == (main_counter * FEMTO) % WORD
Target(ms) == (ms * MICRO) % WORD

-----------------------------------------------------------------------------
(* As the firmware left it. *)
TimerInit ==
    /\ timer_pc = "hpet_init" /\ lag = 0
    /\ hpet_on \in BOOLEAN /\ main_counter \in {0, WORD - 1} /\ phase = 0
    /\ init_count = 0 /\ current_count = 0 /\ divider = RESET_DIVIDER /\ prescale = 0
    /\ ticks = 0
    /\ task = [s \in Sleepers |-> "away"]
    /\ nap = [s \in Sleepers |-> 0] /\ slept = [s \in Sleepers |-> 0]

Instruction(here, there) == timer_pc = here /\ timer_pc' = there /\ lag' = 0

(* hpet_init: without an HPET among the tables of ACPI the kernel halts. *)
hpet_init ==
    /\ \/ Instruction("hpet_init", "reset_hpet") /\ hpet_on' = FALSE
       \/ Instruction("hpet_init", "panic") /\ UNCHANGED hpet_on
    /\ UNCHANGED <<main_counter, phase, local_timer, ticks, naps>>

(* apic_timer_init, instruction by instruction. *)
reset_hpet_timer ==
    /\ Instruction("reset_hpet", "reset_apic")
    /\ main_counter' = 0
    /\ UNCHANGED <<hpet_on, phase, local_timer, ticks, naps>>

(* A write to the initial count starts the countdown. *)
LoadTimer(n) == init_count' = n /\ current_count' = n /\ prescale' = 0

reset_apic_timer ==
    /\ Instruction("reset_apic", "start_hpet")
    /\ LoadTimer(MAX_INIT_COUNT_VAL)
    /\ UNCHANGED <<hpet, divider, ticks, naps>>

start_hpet_timer ==
    /\ Instruction("start_hpet", "poll")
    /\ hpet_on' = TRUE
    /\ UNCHANGED <<main_counter, phase, local_timer, ticks, naps>>

Poll ==
    /\ Instruction("poll", IF poll_time_hpet_timer < INTERVAL THEN "poll" ELSE "mask")
    /\ UNCHANGED <<hpet, local_timer, ticks, naps>>

(* mask_irq(TIMER_IRQ); its effect is in module IoApic. *)
MaskTimer ==
    /\ Instruction("mask", "read")
    /\ UNCHANGED <<hpet, local_timer, ticks, naps>>

ReadCount ==
    /\ Instruction("read", "divide")
    /\ ticks' = MAX_INIT_COUNT_VAL - current_count
    /\ UNCHANGED <<hpet, local_timer, naps>>

(* The mode, the vector and the divider. *)
SetDivider ==
    /\ Instruction("divide", "load")
    /\ divider' = DIVIDER /\ prescale' = 0
    /\ UNCHANGED <<hpet, init_count, current_count, ticks, naps>>

LoadCount ==
    /\ Instruction("load", "done")
    /\ LoadTimer(ticks)
    /\ UNCHANGED <<hpet, divider, ticks, naps>>

apic_timer_init ==
    \/ reset_hpet_timer \/ reset_apic_timer \/ start_hpet_timer \/ Poll \/ MaskTimer
    \/ ReadCount \/ SetDivider \/ LoadCount

(* An interrupt of the keyboard, which ps2_init has opened, takes registers*)
(* that the boot needs.                                                    *)
BootAstray ==
    /\ Instruction(timer_pc, "astray") /\ timer_pc \notin {"done", "panic", "astray"}
    /\ UNCHANGED <<hpet, local_timer, ticks, naps>>

-----------------------------------------------------------------------------
(* usleep, by the tasks that run once the boot is done; wait_10ms is       *)
(* usleep(10000).  A sleeper may be anywhere when another resets the HPET. *)
Sleeps(s, here, there) ==
    /\ timer_pc = "done"
    /\ task[s] = here
    /\ task' = [task EXCEPT ![s] = there]
    /\ UNCHANGED <<timer_pc, lag, phase, local_timer, ticks>>

(* A call that takes the counter as it finds it. *)
usleep_no_reset(s, time) ==
    /\ Sleeps(s, "away", "start")
    /\ nap' = [nap EXCEPT ![s] = time]
    /\ UNCHANGED <<main_counter, slept, hpet_on>>

usleep(s, time) ==
    /\ Sleeps(s, "away", "start")
    /\ nap' = [nap EXCEPT ![s] = time]
    /\ main_counter' = 0
    /\ UNCHANGED <<hpet_on, slept>>

SleepStart(s) ==
    /\ Sleeps(s, "start", "poll")
    /\ hpet_on' = TRUE
    /\ UNCHANGED <<main_counter, nap, slept>>

SleepEnd(s) ==
    /\ Sleeps(s, "poll", "back")
    /\ poll_time_hpet_timer >= Target(nap[s])
    /\ slept' = [slept EXCEPT ![s] = 0]
    /\ UNCHANGED <<hpet_on, main_counter, nap>>

(* An interrupt takes registers that the call needs: what it waits for now *)
(* may come at any time or never, ...                                      *)
SleepLost(s) ==
    /\ \E here \in {"start", "poll"} : Sleeps(s, here, "lost")
    /\ slept' = [slept EXCEPT ![s] = 0]
    /\ UNCHANGED <<hpet_on, main_counter, nap>>

SleepLostEnd(s) ==
    /\ Sleeps(s, "lost", "back")
    /\ UNCHANGED <<hpet_on, main_counter, nap, slept>>

(* ... and what it writes may go anywhere.                                 *)
SleepAstray(s) ==
    /\ timer_pc = "done" /\ task[s] = "start"
    /\ timer_pc' = "astray"
    /\ UNCHANGED <<lag, hpet, local_timer, ticks, naps>>

-----------------------------------------------------------------------------
(* A clock of the bus.  The boot processor is never later than DELAY.  The *)
(* HPET counts FEMTO clocks as a tick, the local timer counts down to 0.   *)
Capped(n) == IF n < LONGEST THEN n ELSE LONGEST

HpetClock ==
    /\ phase' = (phase + 1) % FEMTO
    /\ main_counter' = IF hpet_on /\ phase' = 0
                       THEN (main_counter + 1) % WORD ELSE main_counter

LapicClock ==
    /\ prescale' = (prescale + 1) % divider
    /\ current_count' = IF prescale' = 0 /\ current_count > 0
                        THEN current_count - 1 ELSE current_count

Clock ==
    /\ HpetClock
    /\ \/ /\ timer_pc \notin {"done", "panic", "astray"} /\ lag < DELAY
          /\ lag' = lag + 1
          /\ LapicClock
          /\ UNCHANGED slept
       \/ /\ timer_pc = "done"
          /\ slept' = [s \in Sleepers |-> IF task[s] \in {"start", "poll"}
                                          THEN Capped(slept[s] + 1) ELSE slept[s]]
          /\ UNCHANGED <<lag, prescale, current_count>>
    /\ UNCHANGED <<timer_pc, hpet_on, init_count, divider, ticks, task, nap>>

TimerNext ==
    \/ hpet_init \/ apic_timer_init \/ BootAstray \/ Clock
    \/ \E s \in Sleepers :
          \/ \E t \in Naps : usleep(s, t)
          \/ SleepStart(s) \/ SleepEnd(s)
          \/ SleepLost(s) \/ SleepLostEnd(s) \/ SleepAstray(s)

(* Time goes by, the boot processor runs, and so does every task that is   *)
(* in usleep: the scheduler starves none of them (module Scheduler).  A    *)
(* counter that has reached the time of a sleeper stays there until        *)
(* another call sets it back or the product wraps, which takes hours; a    *)
(* sleeper polls many times before that.                                   *)
TimerSpec ==
    /\ TimerInit /\ [][TimerNext]_timer
    /\ WF_timer(Clock) /\ WF_timer(hpet_init \/ apic_timer_init)
    /\ \A s \in Sleepers : WF_timer(SleepStart(s)) /\ SF_timer(SleepEnd(s))

-----------------------------------------------------------------------------
(* Types of timer.c and hpet.c: the count that apic_timer_init finds lies  *)
(* between 0 and the count it started from, and no counter leaves its range.*)
TimerTypeOK ==
    /\ timer_pc \in {"hpet_init", "reset_hpet", "reset_apic", "start_hpet", "poll", "mask", "read",
                     "divide", "load", "done", "panic", "astray"}
    /\ lag \in 0 .. DELAY
    /\ hpet_on \in BOOLEAN /\ main_counter \in 0 .. WORD - 1 /\ phase \in 0 .. FEMTO - 1
    /\ init_count \in 0 .. MAX_INIT_COUNT_VAL /\ current_count \in 0 .. init_count
    /\ divider \in {RESET_DIVIDER, DIVIDER} /\ prescale \in 0 .. divider - 1
    /\ ticks \in 0 .. MAX_INIT_COUNT_VAL
    /\ task \in [Sleepers -> {"away", "start", "poll", "lost", "back"}]
    /\ nap \in [Sleepers -> Naps \cup {0}] /\ slept \in [Sleepers -> 0 .. LONGEST]

(* apic_timer_init: the count it finds is the interval at the divider of   *)
(* the reset, up to a tick of either timer and to the delays between the   *)
(* instructions, unless an interrupt led the boot astray.                  *)
Measured ==
    timer_pc \in {"divide", "load", "done"} =>
        /\ ticks * RESET_DIVIDER > INTERVAL - FEMTO - RESET_DIVIDER
        /\ ticks * RESET_DIVIDER <= INTERVAL + FEMTO + 4 * DELAY

(* apic_timer_init measures with one divider and runs with another: the    *)
(* period of the timer is the interval times the quotient of the two, and  *)
(* so not the interval unless the two are equal.                           *)
PeriodScaled ==
    timer_pc = "done" =>
        LET period == init_count * divider
        IN  /\ period * RESET_DIVIDER > DIVIDER * (INTERVAL - FEMTO - RESET_DIVIDER)
            /\ period * RESET_DIVIDER <= DIVIDER * (INTERVAL + FEMTO + 4 * DELAY)

(* usleep does not return early, up to a tick of the HPET, whatever the    *)
(* other sleepers do to the counter: unless its time times the length of a *)
(* microsecond is more than a word holds, or an interrupt inside the call  *)
(* took the time it waits for.                                             *)
SleepNotShort ==
    \A s \in Sleepers : task[s] = "poll" /\ task'[s] = "back" /\ nap[s] * MICRO < WORD
        => slept[s] > nap[s] * MICRO - FEMTO

(* timer.c and hpet.c: the count that is found is that of the interval,    *)
(* the period is longer by the quotient of the dividers, and a usleep that *)
(* keeps its registers does not return early although all sleepers share a *)
(* counter that each resets.                                               *)
TimeKept == [](TimerTypeOK /\ Measured /\ PeriodScaled) /\ [][SleepNotShort]_timer

(* apic_timer_init ends: the HPET that hpet_init has stopped runs again    *)
(* when the loop polls it.                                                 *)
CalibrationEnds == <>(timer_pc \in {"done", "panic", "astray"})

(* Every usleep ends unless an interrupt took its registers, although each *)
(* call sets the others back: there are finitely many calls, and no return *)
(* stops the HPET.                                                         *)
SleepEnds ==
    \A s \in Sleepers :
        task[s] = "start" ~> task[s] \in {"back", "lost"} \/ timer_pc = "astray"
=============================================================================
