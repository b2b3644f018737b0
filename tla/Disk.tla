-------------------------------- MODULE Disk --------------------------------
(***************************************************************************)
(* The IDE driver (b32_disk.cpp) as the file system uses it: one sector    *)
(* per call, always from the master of the first channel.                  *)
(*                                                                         *)
(* The drive is addressed with three registers of eight bits and the low   *)
(* half of the drive register.  The driver writes the latter only when it  *)
(* selects another drive than the last time, so it keeps the high bits of  *)
(* the first address it was ever given.                                    *)
(***************************************************************************)
EXTENDS Integers

CONSTANTS
    LBA_LOW,    \* addresses that the three registers tell apart, 2^24
    LBA_HIGH    \* values of the drive register's half, 2^4

ASSUME DiskConstants == LBA_LOW \in Nat \ {0} /\ LBA_HIGH \in Nat \ {0}

VARIABLES
    PCI_done,
    prog_if,      \* how the IDE controller decodes its ports
    drive_head    \* high bits in the drive register, -1 before it is written

disk_vars == <<PCI_done, prog_if, drive_head>>

(* The controllers that the driver may find: in compatibility mode, in     *)
(* native mode with both channels switchable, or fixed in native mode.     *)
COMPATIBLE == \h8A
SWITCHABLE == \h8F
NATIVE == \h85

DiskInit == /\ PCI_done = FALSE /\ drive_head = -1
            /\ prog_if \in {COMPATIBLE, SWITCHABLE, NATIVE}

ProgIfKept == prog_if   \* fault: the controller is left as it is

(* enumerate_PCI_devices, once: check_target clears the mode bits of a     *)
(* controller that allows it.  (It puts the new value into the byte below, *)
(* and zeros where the mode bits are; the other bits are read-only.)       *)
ProgIfOnce == IF ~PCI_done /\ prog_if = SWITCHABLE THEN COMPATIBLE ELSE prog_if

enumerate_PCI_devices == PCI_done' = TRUE /\ prog_if' = ProgIfOnce

(* Ports 1F0H-1F7H answer in compatibility mode only; read elsewhere, the  *)
(* status is FFH: busy, for ever.                                          *)
Answers == ProgIfOnce = COMPATIBLE

(* The drive is selected, with the high bits of lba, the first time. *)
HeadFor(lba) == IF drive_head = -1 THEN (lba \div LBA_LOW) % LBA_HIGH
                                   ELSE drive_head

(* The sector that the drive delivers for a READ of lba. *)
Addressed(lba) == (HeadFor(lba) * LBA_LOW) + (lba % LBA_LOW)

read_ide_disk_sector(lba) == drive_head' = HeadFor(lba)

(* What a read does, whatever it returns. *)
read_disk_sector(lba) == enumerate_PCI_devices /\ read_ide_disk_sector(lba)
=============================================================================
