----------------------------- MODULE HardDrive -----------------------------
(***************************************************************************)
(* The hard drive of crates/rumiga-core at work: the ATA drive (Ata), the    *)
(* Gayle registers of memory.rs that latch its interrupt, the two lines of   *)
(* emulator.rs that carry it to INTREQ before every CPU instruction, and a   *)
(* guest driver, which is external: it sends requests by sector number, in   *)
(* LBA or in cylinders, heads and sectors, moves the data by words or bytes, *)
(* sleeps until the drive interrupts, and may give a request up, by a        *)
(* software reset or by writing another command into the transfer.  Between  *)
(* requests it probes the slave, which is not there.                        *)
(*                                                                         *)
(* A step of the guest is one instruction, preceded by the delivery of the   *)
(* interrupt as run_scanline does it.                                       *)
(***************************************************************************)
EXTENDS Ata

CONSTANTS
  Image,       \* the image that is mounted
  Headers,     \* what its first blocks may hold where a Rigid Disk Block would be
  Jobs,        \* requests of the driver
  MaxJobs      \* bound on the requests of one behaviour

ASSUME HardDriveAssumption ==
  /\ MaxJobs \in Nat
  /\ Headers \subseteq [0 .. RdbScanBlocks - 1 -> RdbHeader]
  /\ \A j \in Jobs :
       /\ j.lba \in Nat /\ j.count \in Nat /\ j.count < SectorsOfZero /\ j.wide \in BOOLEAN
       /\ j.op = "initialize parameters" => j.lba # 0 /\ j.lba <= 16 /\ j.count # 0

VARIABLES
  ata, gayle,  \* GAYLE_IRQ_IDE in gayle_irq
  ports,       \* INT_PORTS in INTREQ
  host,        \* the image the host keeps
  \* the driver
  pc, job, jobs, geometry, moved, got, abort,
  answer       \* what its last read brought

bus    == <<gayle, ports>>
driver == <<pc, job, jobs, geometry, moved, got, answer>>
vars   == <<ata, gayle, ports, host, pc, job, jobs, geometry, moved, got, abort, answer>>

NoJob == [op |-> "none", lba |-> 0, count |-> 0, mode |-> "lba", wide |-> TRUE]

\* The driver has enabled Gayle's IDE interrupt and identified the drive.
Init ==
  /\ \E headers \in Headers : ata = InsertDisk(NewController, Image, headers)
  /\ host = Image
  /\ gayle = FALSE /\ ports = FALSE
  /\ pc = "idle" /\ job = NoJob /\ jobs = 0
  /\ geometry = [heads |-> ata.heads, track |-> ata.track]
  /\ moved = 0 /\ got = << >> /\ answer = << >>
  /\ abort \in {"reset", "command"}

\* process_gayle_ide_interrupts, before the instruction: the latch and the line.
Latched   == gayle \/ (ata.irq /\ ~ata.nIEN)
Delivered == gayle' = Latched /\ ports' = (ports \/ Latched)

\* The status register through Gayle: reading it acknowledges the interrupt.
ReadStatus ==
  /\ ata' = [ata EXCEPT !.irq = FALSE] /\ gayle' = FALSE
  /\ ports' = (ports \/ Latched)

Moves == {"identify"} \cup ReadCommands \cup WriteCommands
Total == IF job.op = "identify" THEN SectorBytes
         ELSE (IF job.count = 0 THEN SectorsOfZero ELSE job.count) * SectorBytes
IsWrite == job.op \in WriteCommands

\* The byte the driver sends as the i-th of its current request.
Sent(i) == <<jobs, i>>
-----------------------------------------------------------------------------
(* The guest *)

\* Values of lcyl and hcyl.
Cylinders == 65536

\* The sectors of a cylinder, as the driver knows them.
Cylinder == geometry.heads * geometry.track

\* The driver sends only what the registers hold: 28 bits of a sector number, four
\* of a head, eight of a sector and sixteen of a cylinder.
Addressable(j) ==
  j.op \in ReadCommands \cup WriteCommands =>
    \/ j.mode = "lba" /\ j.lba < 16 * HeadWeight
    \/ /\ j.mode # "lba" /\ geometry.heads <= 16 /\ geometry.track < 256
       /\ j.lba \div Cylinder < Cylinders

\* The driver addresses the sector with the geometry it knows.
Selected(j) ==
  IF j.op = "initialize parameters" THEN WriteSelect(ata, j.lba - 1, FALSE, FALSE)
  ELSE IF j.mode = "lba" THEN WriteSelect(ata, j.lba \div HeadWeight, TRUE, FALSE)
  ELSE WriteSelect(ata, (j.lba % Cylinder) \div geometry.track, FALSE, FALSE)

Addressing(j) ==
  IF j.mode = "lba"
  THEN WriteTaskfile(Selected(j), j.count, j.lba % 256, (j.lba \div 256) % Cylinders)
  ELSE WriteTaskfile(Selected(j), j.count, (j.lba % geometry.track) + 1, j.lba \div Cylinder)

SetUp ==
  /\ pc = "idle" /\ jobs < MaxJobs /\ jobs' = jobs + 1
  /\ \E j \in Jobs : Addressable(j) /\ job' = j /\ ata' = Addressing(j)
  /\ pc' = "command" /\ moved' = 0 /\ got' = << >>
  /\ Delivered /\ UNCHANGED <<host, geometry, abort, answer>>

IssueCommand ==
  /\ pc = "command"
  /\ ata' = WriteCommand(ata, job.op)
  /\ geometry' = IF job.op = "initialize parameters"
                 THEN [heads |-> job.lba, track |-> job.count] ELSE geometry
  /\ pc' = IF IsWrite THEN "poll" ELSE "wait"
  /\ Delivered /\ UNCHANGED <<host, job, jobs, moved, got, abort, answer>>

\* The alternate status does not acknowledge anything.
Poll ==
  /\ pc = "poll" /\ "DRQ" \in ReadRegister(ata, "status")
  /\ pc' = "data"
  /\ Delivered /\ UNCHANGED <<ata, host, job, jobs, geometry, moved, got, abort, answer>>

Width == IF job.wide THEN 2 ELSE 1

\* After a sector the driver waits for the drive's interrupt, but not after the
\* last sector of a read.
Moved ==
  /\ moved' = moved + Width
  /\ pc' = CASE moved' = Total /\ ~IsWrite -> "idle"
             [] moved' = Total /\ IsWrite -> "wait"
             [] moved' < Total /\ Boundary(moved') -> "wait"
             [] OTHER -> "data"

ReadData ==
  /\ pc = "data" /\ ~IsWrite
  /\ ata' = IF job.wide THEN AfterRead(ata, 2) ELSE ReadDataByte(ata)
  /\ got' = got \o (IF job.wide THEN DataWord(ata)
                    ELSE <<IF ata.direction = "Read" THEN ata.buffer[ata.index + 1] ELSE Open>>)
  /\ Moved
  /\ answer' = IF pc' = "idle" /\ job.op # "identify" THEN got' ELSE answer
  /\ Delivered /\ UNCHANGED <<host, job, jobs, geometry, abort>>

WriteData ==
  /\ pc = "data" /\ IsWrite
  /\ ata' = IF job.wide THEN AfterWrite(ata, <<Sent(moved + 1), Sent(moved + 2)>>)
                        ELSE WriteDataByte(ata, Sent(moved + 1))
  /\ Moved
  /\ Delivered /\ UNCHANGED <<host, job, jobs, geometry, got, abort, answer>>

\* The interrupt handler: it asks Gayle whether the drive interrupted, ...
Interrupted ==
  /\ pc = "wait" /\ (ports \/ Latched)
  /\ IF Latched THEN ReadStatus /\ pc' = "handler"
                ELSE ports' = FALSE /\ UNCHANGED <<ata, gayle, pc>>
  /\ UNCHANGED <<host, job, jobs, geometry, moved, got, abort, answer>>

\* ... and clears INTREQ after it has read the status.
LeaveHandler ==
  /\ pc = "handler"
  /\ gayle' = Latched /\ ports' = FALSE
  /\ pc' = IF job.op \in Moves /\ moved < Total THEN "data" ELSE "idle"
  /\ UNCHANGED <<ata, host, job, jobs, geometry, moved, got, abort, answer>>

\* The driver gives its request up, as it does after a timeout of its own.
GiveUp ==
  /\ pc \in {"poll", "data", "wait"} /\ job.op \in Moves
  /\ ata' = IF abort = "reset"
            THEN WriteControl(WriteControl(ata, TRUE, FALSE), FALSE, FALSE)
            ELSE WriteCommand(ata, "set features")
  /\ pc' = "idle"
  /\ Delivered /\ UNCHANGED <<host, job, jobs, geometry, moved, got, abort, answer>>

\* Nobody answers for the slave: its command and taskfile writes are ignored.
ProbeSlave ==
  /\ pc = "idle" /\ ~ata.slave
  /\ LET probe == WriteTaskfile(WriteSelect(ata, 0, FALSE, TRUE), 2, 2, 2)
     IN  ata' = WriteCommand(probe, "identify")
  /\ Delivered /\ UNCHANGED <<host, abort>> /\ UNCHANGED driver

\* The host writes the image back when the machine has changed it.
Flush ==
  /\ ata.dirty /\ host' = ata.disk /\ ata' = [ata EXCEPT !.dirty = FALSE]
  /\ UNCHANGED abort /\ UNCHANGED bus /\ UNCHANGED driver

Progress == IssueCommand \/ Poll \/ ReadData \/ WriteData \/ Interrupted \/ LeaveHandler
Next == SetUp \/ Progress \/ GiveUp \/ ProbeSlave \/ Flush

\* The guest's processor keeps running its driver.
Spec == Init /\ [][Next]_vars /\ WF_vars(Progress)
-----------------------------------------------------------------------------
(* Properties *)

Request(j, n) ==
  LET count == IF j.count = 0 THEN SectorsOfZero ELSE j.count
  IN  [write |-> j.op \in WriteCommands, lba |-> j.lba, count |-> count,
       data  |-> IF j.op \in WriteCommands
                 THEN [i \in 1 .. count * SectorBytes |-> <<n, i>>] ELSE << >>]

SectorJobs == {j \in Jobs : j.op \in ReadCommands \cup WriteCommands}

Requested == {Request(j, n) : j \in SectorJobs, n \in 1 .. MaxJobs}

\* The request that is neither carried out nor given up.
Outstanding ==
  IF pc = "idle" \/ job \notin SectorJobs \/ moved = Total THEN NoJob
                                                        ELSE Request(job, jobs)

V == INSTANCE Volume WITH image <- ata.disk, request <- Outstanding, None <- NoJob,
                          Requests <- Requested, Load <- Extent

\* The drive implements Volume: a sector transfer reads or replaces, all at once,
\* exactly the sectors the driver asked for, with the data it sent, whether it
\* addresses them by LBA or by cylinder, head and sector, by words or bytes, in a
\* run of up to 256 sectors and beyond the end of the image; a transfer that is given
\* up leaves the image as it was (write_data_word, current_lba).
VolumeSpec == V!Spec

\* Every request of the driver ends: no sector boundary and no completion passes
\* without an interrupt that reaches the sleeping driver, through the drive's latch,
\* Gayle's and INTREQ, each cleared at another moment.
TransferEnds == pc # "idle" ~> pc = "idle"

\* While a transfer runs, its index is inside the buffer, which holds whole sectors,
\* whatever was abandoned before and whether words or bytes are moved; and for a
\* driver that abandons transfers by a reset only, DRQ tells whether the data port
\* moves bytes.  (A command written into a transfer stops the transfer but leaves DRQ
\* set.)
DrqTruthful ==
  /\ ata.direction # "None" =>
       Boundary(Len(ata.buffer)) /\ ata.index \in 0 .. Len(ata.buffer) - 1
  /\ abort = "reset" => ("DRQ" \in ata.status <=> ata.direction # "None")

\* A change of the image is flagged until the host has it: hdf_dirty is never lost
\* between a write and the flush.
UnsavedIsDirty == ata.disk # host => ata.dirty
=============================================================================
