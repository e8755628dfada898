-------------------------------- MODULE Disk --------------------------------
(***************************************************************************)
(* The disk driver: kernel/src/disk/disk.c.  A read writes the drive's     *)
(* registers and polls the status for the data bit, sector by sector; it   *)
(* looks at neither the busy nor the error bit.                            *)
(*                                                                         *)
(* The drive is external.  Its sector count has COUNTS values, of which 0  *)
(* stands for COUNTS itself; its address has LBAS values, and the bit above*)
(* them selects the second drive, which is absent.  It ignores commands    *)
(* while it has data to transfer.                                          *)
(***************************************************************************)
EXTENDS Integers, Sequences

CONSTANTS COUNTS, LBAS, Lbas, Totals, MAX_CALLS

ASSUME DiskNumbers ==
    /\ COUNTS \in Nat \ {0} /\ LBAS \in Nat \ {0}
    /\ Lbas \subseteq Nat /\ Totals \subseteq Int /\ MAX_CALLS \in Nat

VARIABLES
    drive,          \* sectors left to transfer, address of the next one, its state
    disk_pc,        \* of the caller
    lba, total,     \* the arguments of the call
    buf,            \* sectors read by it
    calls,
    spoiled         \* a read of no sector has left the drive with data to transfer

disk == <<drive, disk_pc, lba, total, buf, calls, spoiled>>

DiskInit ==
    /\ drive = [left |-> 0, next |-> 0, status |-> "ready"]
    /\ disk_pc = "idle" /\ lba = 0 /\ total = 0 /\ buf = <<>> /\ calls = 0 /\ spoiled = FALSE

(* The drive: what command 0x20 does to it, and what it does then. *)
CountOf(n) == IF n % COUNTS = 0 THEN COUNTS ELSE n % COUNTS
Selected(a) == (a \div LBAS) % 2 = 0

Command(a, n) ==
    drive' = IF ~Selected(a) \/ drive.status \in {"busy", "data"} THEN drive
             ELSE [left |-> CountOf(n), next |-> a % LBAS, status |-> "busy"]

DriveReady ==
    /\ drive.status = "busy"
    /\ drive' = [drive EXCEPT !.status = "data"]
    /\ UNCHANGED <<disk_pc, lba, total, buf, calls, spoiled>>

DriveFails ==
    /\ drive.status = "busy"
    /\ drive' = [drive EXCEPT !.status = "error", !.left = 0]
    /\ UNCHANGED <<disk_pc, lba, total, buf, calls, spoiled>>

(* disk_get: there is one disk. *)
disk_get(index) == IF index # 0 THEN "NULL" ELSE "disk"

(* disk_read_block, of a pointer that is not the disk's. *)
disk_read_block_refused(index) ==
    /\ disk_pc = "idle" /\ calls < MAX_CALLS /\ disk_get(index) # "disk"
    /\ calls' = calls + 1
    /\ UNCHANGED <<drive, disk_pc, lba, total, buf, spoiled>>

(* An address of which only the low half is written. *)
disk_read_block_low(index, a, n) ==
    /\ disk_pc = "idle" /\ calls < MAX_CALLS /\ disk_get(index) = "disk"
    /\ Command(a % (LBAS \div 2), n)
    /\ lba' = a /\ total' = n /\ buf' = <<>> /\ calls' = calls + 1
    /\ spoiled' = (spoiled \/ CountOf(n) > n)
    /\ disk_pc' = "poll"

(* disk_read_sector up to the command. *)
disk_read_block(index, a, n) ==
    /\ disk_pc = "idle" /\ calls < MAX_CALLS /\ disk_get(index) = "disk"
    /\ Command(a, n)
    /\ lba' = a /\ total' = n /\ buf' = <<>> /\ calls' = calls + 1
    /\ spoiled' = (spoiled \/ CountOf(n) > n)
    /\ disk_pc' = "poll"

(* An iteration of its loop: the data bit, and 256 words. *)
ReadSector ==
    /\ disk_pc = "poll" /\ Len(buf) < total
    /\ drive.status = "data" /\ Selected(lba)
    /\ buf' = Append(buf, drive.next)
    /\ drive' = [left |-> drive.left - 1, next |-> (drive.next + 1) % LBAS,
                 status |-> IF drive.left = 1 THEN "ready" ELSE "busy"]
    /\ UNCHANGED <<disk_pc, lba, total, calls, spoiled>>

ReadReturns ==
    /\ disk_pc = "poll" /\ Len(buf) >= total
    /\ disk_pc' = "idle"
    /\ UNCHANGED <<drive, lba, total, buf, calls, spoiled>>

DiskNext ==
    \/ DriveReady \/ DriveFails
    \/ \E i \in {0, 1} : disk_read_block_refused(i) \/
           \E a \in Lbas, n \in Totals : disk_read_block(i, a, n)
    \/ ReadSector \/ ReadReturns

(* The drive answers one way or the other; the caller runs. *)
DiskSpec ==
    /\ DiskInit /\ [][DiskNext]_disk
    /\ WF_disk(DriveReady \/ DriveFails) /\ WF_disk(ReadSector) /\ WF_disk(ReadReturns)

-----------------------------------------------------------------------------
(* Types of disk.c and its drive; a read never stores more sectors than    *)
(* it was asked for, nor a sector that the drive does not have.            *)
DiskTypeOK ==
    /\ drive \in [left : 0 .. COUNTS, next : 0 .. LBAS - 1,
                  status : {"ready", "busy", "data", "error"}]
    /\ drive.status \in {"busy", "data"} => drive.left > 0
    /\ disk_pc \in {"idle", "poll"}
    /\ lba \in Lbas \cup {0} /\ total \in Totals \cup {0}
    /\ buf \in Seq(0 .. LBAS - 1) /\ Len(buf) <= (IF total < 0 THEN 0 ELSE total)
    /\ calls \in 0 .. MAX_CALLS

(* disk_read_sector: a read returns the sectors that it asked for, in      *)
(* order, unless a call for fewer sectors than the drive was told has left *)
(* the drive in the middle of a transfer: the command is then ignored, and *)
(* the data are those of the earlier call.                                 *)
DataExact ==
    ~spoiled /\ disk_pc = "idle" /\ total > 0 =>
        buf = [i \in 1 .. total |-> (lba + i - 1) % LBAS]

(* disk.c: a read stores the sectors that it asked for, in order, and no   *)
(* more, unless an earlier one has left the drive in the middle of a       *)
(* transfer.                                                               *)
SectorsExact == DiskTypeOK /\ DataExact

(* disk_read_sector returns, unless it waits for a drive that has nothing  *)
(* to answer: one that has reported an error, has given all the sectors    *)
(* that its count holds, or is not the one selected.  Then it waits for    *)
(* ever: nothing brings it back.                                           *)
Unanswered ==
    /\ disk_pc = "poll" /\ Len(buf) < total
    /\ drive.status \in {"error", "ready"} \/ ~Selected(lba)

ReadEnds ==
    /\ disk_pc = "poll" ~> disk_pc = "idle" \/ Unanswered
    /\ [](Unanswered => []Unanswered)
=============================================================================
