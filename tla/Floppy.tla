------------------------------- MODULE Floppy -------------------------------
(***************************************************************************)
(* crates/rumiga-core/src/floppy.rs with the parts of emulator.rs that drive *)
(* it: selection, motor and step from CIA-B port B, the DSKLEN protocol, the *)
(* word-by-word DMA with its cache of one encoded track per drive, the       *)
(* decoder of written tracks, disk changes by the host (desktop/src/main.rs), *)
(* and the status byte.                                                     *)
(*                                                                         *)
(* A disk is a function from sectors to their contents.  An encoded track is *)
(* a sequence of words: the gap and, for each sector, the sync word and one  *)
(* word that stands for its header, data and checksums.  The guest's disk    *)
(* driver is external: it selects a drive, waits until it is ready, seeks,   *)
(* transfers one track and waits for the block interrupt.                   *)
(***************************************************************************)
EXTENDS Integers, Sequences, SequencesExt

CONSTANTS
  Drives,        \* DF0 to DF3
  Disks,         \* disks of the host
  LastCylinder,  \* 79
  Sectors,       \* sectors of a track
  SpinUp,        \* scanlines until a drive is ready: 5616
  Jobs,          \* requests of the driver
  MaxJobs,       \* bound on the driver's requests
  MaxChanges     \* bound on the disks the host inserts and ejects

ASSUME FloppyAssumption == /\ Drives \subseteq Nat /\ LastCylinder \in Nat
                           /\ Sectors \in Nat \ {0} /\ SpinUp \in Nat \ {0}

VARIABLES
  drives,        \* DriveState of each drive
  fdc,           \* the other fields of FloppyController
  intreq,        \* DSKSYNC and DSKBLK in INTREQ
  ram,           \* the words of the driver's buffer in chip RAM
  \* the driver
  pc, job, jobs,
  \* the host
  loaded,        \* the file each drive's disk came from; 0: none, or it was ejected
  host,          \* the images as the host keeps them
  changes,
  \* history
  expected,      \* what the image in each drive should hold
  overwritten,   \* drives whose file was written back by another drive since
  sides          \* of each drive, the sides read since the track last changed

driver  == <<pc, job, jobs>>
shelf   == <<loaded, host, changes, overwritten>>
vars    == <<drives, fdc, intreq, ram, pc, job, jobs, loaded, host, changes, expected,
             overwritten, sides>>

Cylinder == 0 .. LastCylinder
Sector   == 0 .. Sectors - 1
Place    == Cylinder \X {0, 1} \X Sector
Empty    == [p \in Place |-> 0]
Gap      == [kind |-> "gap"]
Sync     == [kind |-> "sync"]

\* A sector as the words after its sync mark carry it.
SectorWord(track, sector, data, whole) ==
  [kind |-> "sector", track |-> track, sector |-> sector, data |-> data, whole |-> whole]

\* The words of a track: data says what each of its sectors holds.
TrackLength == 2 * Sectors + 1
TrackWords(track, data, whole) ==
  [i \in 1 .. TrackLength |->
     CASE i = 1             -> Gap
       [] i > 1 /\ i % 2 = 0 -> Sync
       [] OTHER -> SectorWord(track, (i - 3) \div 2, data[(i - 3) \div 2], whole)]

EncodeTrack(image, cyl, side) ==
  TrackWords(2 * cyl + side, [s \in Sector |-> image[<<cyl, side, s>>]], TRUE)

NewDrive(id) ==
  [present |-> FALSE, image |-> Empty, track |-> << >>, cyl |-> 0, motor |-> FALSE,
   pos |-> 0, id |-> id, shift |-> 0, spin |-> 0, ready |-> FALSE, changed |-> TRUE,
   dirty |-> FALSE]

InsertDisk(d, image) ==
  [d EXCEPT !.present = TRUE, !.image = image, !.track = << >>, !.id = TRUE,
            !.changed = TRUE, !.ready = FALSE]

NoJob == [drive |-> 0, cyl |-> 0, side |-> 0, write |-> FALSE, length |-> 0,
          wordsync |-> TRUE, whole |-> TRUE]

\* The driver asks for a place on a disk and writes at most the track it has prepared.
Job == [drive : Drives, cyl : Cylinder, side : {0, 1}, write : BOOLEAN,
        length : Nat \ {0}, wordsync : BOOLEAN, whole : BOOLEAN]

ASSUME JobsAssumption == /\ Jobs \subseteq Job
                         /\ \A j \in Jobs : j.write => j.length <= TrackLength

NewController ==
  [selected |-> {}, side |-> 0, motorBit |-> FALSE, stepBit |-> FALSE, started |-> FALSE,
   state |-> "Off", enable |-> FALSE, length |-> 0, sync |-> FALSE, blk |-> FALSE,
   buffer |-> << >>]
-----------------------------------------------------------------------------
(* CIA-B port B *)

\* The motor latch follows the motor bit when the drive becomes selected.
Latch(d, on) ==
  LET e == [d EXCEPT !.shift = (@ + 1) % 32, !.motor = on]
  IN  CASE ~d.motor /\ on -> [e EXCEPT !.spin = SpinUp, !.ready = FALSE]
        [] d.motor /\ ~on -> [e EXCEPT !.shift = 0, !.ready = FALSE, !.spin = 0]
        [] OTHER -> e

WrongStepKeepsTrack(d, outward) ==
  [d EXCEPT !.cyl = IF outward THEN (IF @ = 0 THEN 0 ELSE @ - 1)
                    ELSE IF @ < LastCylinder THEN @ + 1 ELSE @,
            !.changed = @ /\ ~d.present]

\* outward: towards cylinder 0.
Step(d, outward) ==
  [d EXCEPT !.cyl = IF outward THEN (IF @ = 0 THEN 0 ELSE @ - 1)
                    ELSE IF @ < LastCylinder THEN @ + 1 ELSE @,
            !.track = << >>,
            !.changed = @ /\ ~d.present]

\* disk_select: the drives that become selected latch the motor bit, old or new; a
\* rising step bit moves the heads of the drives that were selected before.
SelectedDrives(selected, motorBit, outward, stepBit) ==
  [n \in Drives |->
     LET d == IF n \in selected \ fdc.selected THEN Latch(drives[n], fdc.motorBit \/ motorBit)
                                               ELSE drives[n]
     IN  IF stepBit /\ ~fdc.stepBit /\ n \in fdc.selected THEN Step(d, outward) ELSE d]

DiskSelect(selected, motorBit, side, outward, stepBit) ==
  /\ drives' = SelectedDrives(selected, motorBit, outward, stepBit)
  /\ fdc' = [fdc EXCEPT !.selected = selected, !.side = side, !.motorBit = motorBit,
                        !.stepBit = stepBit]

FirstSelected == CHOOSE n \in fdc.selected : \A m \in fdc.selected : n <= m

\* The ready bit of the status byte: without the motor it shows the drive's identity.
Ready == /\ fdc.selected # {}
         /\ LET d == drives[FirstSelected]
            IN  IF d.motor THEN d.ready ELSE d.id

\* tick_scanline
Spin(d) ==
  IF d.spin = 0 \/ ~d.present THEN d
  ELSE [d EXCEPT !.spin = @ - 1, !.ready = @ \/ (d.spin = 1 /\ d.motor)]
-----------------------------------------------------------------------------
(* DMA *)

\* deliver_floppy_interrupts, after the words of a scanline.
Deliver(c) ==
  /\ fdc' = [c EXCEPT !.sync = FALSE, !.blk = FALSE]
  /\ intreq' = intreq \cup (IF c.sync THEN {"DSKSYNC"} ELSE {})
                       \cup (IF c.blk THEN {"DSKBLK"} ELSE {})

WithDisk == {n \in fdc.selected : drives[n].present}

WrongEmptyDriveSilent(c, start, write, length, wordsync) ==
  LET e == [c EXCEPT !.started = start]
  IN  CASE start /\ c.started /\ WithDisk = {} -> [e EXCEPT !.state = "Off"]
        [] start /\ c.started /\ WithDisk # {} /\ write ->
             [e EXCEPT !.state = "Write", !.length = length, !.buffer = << >>]
        [] start /\ c.started /\ WithDisk # {} /\ ~write ->
             [e EXCEPT !.state = "Read", !.length = length, !.enable = ~wordsync]
        [] ~start -> [e EXCEPT !.state = "Off", !.enable = FALSE]
        [] OTHER -> e

\* A write of DSKLEN: the second one in a row with bit 15 starts the transfer.
WriteDskLen(c, start, write, length, wordsync) ==
  LET e == [c EXCEPT !.started = start]
  IN  CASE start /\ c.started /\ WithDisk = {} ->
             [e EXCEPT !.state = "Off", !.sync = TRUE, !.blk = TRUE]
        [] start /\ c.started /\ WithDisk # {} /\ write ->
             [e EXCEPT !.state = "Write", !.length = length, !.buffer = << >>]
        [] start /\ c.started /\ WithDisk # {} /\ ~write ->
             [e EXCEPT !.state = "Read", !.length = length, !.enable = ~wordsync]
        [] ~start -> [e EXCEPT !.state = "Off", !.enable = FALSE]
        [] OTHER -> e

Active == CHOOSE n \in WithDisk : \A m \in WithDisk : n <= m

WrongDecodedUnchecked(words) ==
  {i \in 2 .. Len(words) : /\ words[i].kind = "sector" /\ words[i - 1] = Sync
                           /\ words[i].sector \in Sector}

\* The sectors a written buffer carries whole, the last of equal ones winning.
Decoded(words) ==
  {i \in 2 .. Len(words) : /\ words[i].kind = "sector" /\ words[i - 1] = Sync
                           /\ words[i].whole /\ words[i].sector \in Sector}

WrongDecodeClean(d, side, words) ==
  IF Decoded(words) = {} THEN d
  ELSE [d EXCEPT !.image = [p \in Place |->
            LET hits == {i \in Decoded(words) : p = <<d.cyl, side, words[i].sector>>}
            IN  IF hits = {} THEN @[p] ELSE words[CHOOSE i \in hits : \A j \in hits : j <= i].data],
          !.track = << >>]

\* write_decoded_track: it takes the sector number from the header, but the cylinder
\* from the drive and the side from the controller.
DecodeTrack(d, side, words) ==
  IF Decoded(words) = {} THEN d
  ELSE [d EXCEPT !.image = [p \in Place |->
            LET hits == {i \in Decoded(words) : p = <<d.cyl, side, words[i].sector>>}
            IN  IF hits = {} THEN @[p] ELSE words[CHOOSE i \in hits : \A j \in hits : j <= i].data],
          !.dirty = TRUE, !.track = << >>]

\* One word from chip RAM; after the last one the track is decoded.
WriteWord ==
  /\ fdc.state = "Write"
  /\ IF WithDisk = {}
     THEN /\ Deliver([fdc EXCEPT !.state = "Off", !.blk = TRUE])
          /\ UNCHANGED <<drives, ram>>
     ELSE /\ fdc.length > 0
          /\ LET words == Append(fdc.buffer, Head(ram))
                 done  == fdc.length = 1
             IN  /\ Deliver([fdc EXCEPT !.buffer = words, !.length = @ - 1, !.blk = @ \/ done,
                                        !.state = IF done THEN "Off" ELSE @])
                 /\ drives' = IF done
                              THEN [drives EXCEPT ![Active] = DecodeTrack(@, fdc.side, words)]
                              ELSE drives
          /\ ram' = Tail(ram)

\* The track the drive reads: the cached one, or it is encoded now.
Cached(d) == IF d.track = << >> THEN EncodeTrack(d.image, d.cyl, fdc.side) ELSE d.track

\* One word of the turning track; the transfer waits for the sync word if it must.
ReadWord ==
  /\ fdc.state = "Read" /\ WithDisk # {}
  /\ LET d      == drives[Active]
         track  == Cached(d)
         word   == track[(d.pos % Len(track)) + 1]
         found  == ~fdc.enable /\ word = Sync
         passes == (fdc.enable \/ found) /\ fdc.length > 0
         done   == passes /\ fdc.length = 1
     IN  /\ drives' = [drives EXCEPT ![Active].track = track,
                                     ![Active].pos = (@ + 1) % Len(track)]
         /\ ram' = IF passes THEN Append(ram, word) ELSE ram
         /\ Deliver([fdc EXCEPT !.enable = (@ \/ found) /\ ~done, !.sync = @ \/ found,
                                !.length = IF passes THEN @ - 1 ELSE @,
                                !.blk = @ \/ done,
                                !.state = IF done THEN "Off" ELSE @])
-----------------------------------------------------------------------------
(* The machine and the host *)

Init ==
  /\ drives = [n \in Drives |-> NewDrive(n = 0)] /\ fdc = NewController
  /\ intreq = {} /\ ram = << >>
  /\ pc = "idle" /\ job = NoJob /\ jobs = 0
  /\ loaded = [n \in Drives |-> 0] /\ changes = 0
  /\ host = [k \in Disks |-> [p \in Place |-> 1000 * k + 100 * p[1] + 10 * p[2] + p[3]]]
  /\ expected = [n \in Drives |-> Empty]
  /\ overwritten = [n \in Drives |-> FALSE] /\ sides = [n \in Drives |-> {}]

\* Which sides a drive has read where its head is: a step to another cylinder and a
\* change of the image begin anew, and a head that turns on has read a word.
Remember ==
  sides' = [n \in Drives |->
              (IF drives'[n].cyl = drives[n].cyl /\ drives'[n].image = drives[n].image
               THEN sides[n] ELSE {})
              \cup IF drives'[n].pos = drives[n].pos THEN {} ELSE {fdc.side}]

\* The sectors a request overwrites: those that come whole and with a good checksum.
Overwritten(j) ==
  {<<j.cyl, j.side, s>> : s \in {t \in Sector : j.whole /\ 2 * t + 3 <= j.length}}

DmaCycle ==
  /\ WriteWord \/ ReadWord
  /\ expected' = IF fdc.state = "Write" /\ fdc.length = 1 /\ WithDisk # {}
                 THEN [expected EXCEPT ![job.drive] =
                         [p \in Place |-> IF p \in Overwritten(job) THEN jobs ELSE @[p]]]
                 ELSE expected
  /\ UNCHANGED driver /\ UNCHANGED shelf

\* tick_scanline, and the interrupts DSKLEN raised itself.
EndScanline ==
  /\ drives' = [n \in Drives |-> Spin(drives[n])]
  /\ Deliver(fdc)
  /\ UNCHANGED <<ram, expected>> /\ UNCHANGED driver /\ UNCHANGED shelf

\* The host puts a disk into a drive, between two frames; its file may be in another
\* drive as well.
Insert(n, k) ==
  /\ changes < MaxChanges /\ changes' = changes + 1
  /\ drives' = [drives EXCEPT ![n] = InsertDisk(@, host[k])]
  /\ loaded' = [loaded EXCEPT ![n] = k]
  /\ overwritten' = [overwritten EXCEPT ![n] = FALSE]
  /\ expected' = [expected EXCEPT ![n] = host[k]]
  /\ UNCHANGED <<fdc, intreq, ram, host>> /\ UNCHANGED driver

\* The host ejects a disk: it forgets the file, and the disk stays in the drive.
Eject(n) ==
  /\ loaded[n] # 0 /\ changes < MaxChanges /\ changes' = changes + 1
  /\ loaded' = [loaded EXCEPT ![n] = 0]
  /\ UNCHANGED <<drives, fdc, intreq, ram, host, overwritten, expected>>
  /\ UNCHANGED driver

\* The host writes the disk of a drive back to its file.  It does so at the end of a
\* session, drive by drive, and the write of each may fail; here it may come early.
Flush(n) ==
  /\ drives[n].dirty /\ loaded[n] # 0
  /\ host' = [host EXCEPT ![loaded[n]] = drives[n].image]
  /\ drives' = [drives EXCEPT ![n].dirty = FALSE]
  /\ overwritten' = [m \in Drives |-> m # n /\ (overwritten[m] \/ loaded[m] = loaded[n])]
  /\ UNCHANGED <<fdc, intreq, ram, loaded, changes, expected>> /\ UNCHANGED driver
-----------------------------------------------------------------------------
(* The driver *)

\* What it sends: a whole track of new data, with the header of its place.
Outgoing == TrackWords(2 * job.cyl + job.side, [s \in Sector |-> jobs], job.whole)

Choose ==
  /\ pc = "idle" /\ jobs < MaxJobs /\ jobs' = jobs + 1
  /\ job' \in Jobs
  /\ pc' = "select"
  /\ UNCHANGED <<drives, fdc, intreq, ram, expected>> /\ UNCHANGED shelf

\* No drive, with the motor bit on; then the drive.  The step line rests high.
Select ==
  /\ pc = "select"
  /\ DiskSelect(IF fdc.motorBit THEN {job.drive} ELSE {}, TRUE, job.side, FALSE, TRUE)
  /\ pc' = IF fdc.motorBit THEN "spin" ELSE "select"
  /\ UNCHANGED <<intreq, ram, expected, job, jobs>> /\ UNCHANGED shelf

\* An empty drive never gets ready: the driver stops waiting for it.
WaitReady ==
  /\ pc = "spin" /\ (Ready \/ ~drives[job.drive].present) /\ pc' = "seek"
  /\ UNCHANGED <<drives, fdc, intreq, ram, expected, job, jobs>> /\ UNCHANGED shelf

\* A step is a pulse: the line goes low and high again.
Seek ==
  /\ pc = "seek"
  /\ LET at == drives[job.drive].cyl
     IN  IF at = job.cyl /\ fdc.stepBit
         THEN pc' = "start" /\ UNCHANGED <<drives, fdc>>
         ELSE pc' = pc /\ DiskSelect({job.drive}, TRUE, job.side, at > job.cyl, ~fdc.stepBit)
  /\ UNCHANGED <<intreq, ram, expected, job, jobs>> /\ UNCHANGED shelf

Start ==
  /\ pc = "start" /\ pc' = "wait" /\ intreq' = {}
  /\ ram' = IF job.write THEN Outgoing ELSE << >>
  /\ fdc' = WriteDskLen(WriteDskLen(fdc, TRUE, job.write, job.length, job.wordsync),
                        TRUE, job.write, job.length, job.wordsync)
  /\ UNCHANGED <<drives, expected, job, jobs>> /\ UNCHANGED shelf

\* The block interrupt: DSKLEN off, no drive selected, the motor off.
Finish ==
  /\ pc = "wait" /\ "DSKBLK" \in intreq /\ pc' = "idle"
  /\ drives' = SelectedDrives({}, FALSE, FALSE, TRUE)
  /\ fdc' = [WriteDskLen(fdc, FALSE, FALSE, 0, TRUE)
               EXCEPT !.selected = {}, !.motorBit = FALSE, !.stepBit = TRUE]
  /\ intreq' = intreq \ {"DSKBLK"} /\ ram' = << >>
  /\ UNCHANGED <<expected, job, jobs>> /\ UNCHANGED shelf

Driver == Select \/ WaitReady \/ Seek \/ Start \/ Finish

Host == \E n \in Drives : (\E k \in Disks : Insert(n, k)) \/ Eject(n) \/ Flush(n)

Next == (DmaCycle \/ EndScanline \/ Choose \/ Driver \/ Host) /\ Remember

\* Scanlines and their words come by themselves; the driver runs.
Spec == Init /\ [][Next]_vars
        /\ WF_vars(DmaCycle /\ Remember) /\ WF_vars(EndScanline /\ Remember)
        /\ WF_vars(Driver /\ Remember)
-----------------------------------------------------------------------------
(* Properties *)

\* The word a read brings into memory from drive n; track says which words it may be.
Serves(n, track(_)) ==
  (ram' # ram /\ fdc.state = "Read" /\ WithDisk # {} /\ n = Active) =>
    track(Last(ram'))

\* No word comes from a stale cache: each is under the head of the disk that is in the
\* selected drive now, on the cylinder the head is on, as last written, and of a side
\* that was read since the head came there and the disk last changed - the selected side,
\* if the driver keeps to one (disk_dma_cycle and the track it caches).
TrackFresh ==
  [][\A n \in Drives :
       LET d == drives[n]
           Fresh(word) == \E s \in sides'[n] :
                            word = EncodeTrack(d.image, d.cyl, s)[d.pos + 1]
       IN  Serves(n, Fresh)]_vars

\* Each word is of the selected side: a cached track goes with the next "track change"
\* (floppy.rs:284), and the other side of the cylinder is another track.
TrackServed ==
  [][\A n \in Drives :
       LET d == drives[n]
           Selected(word) == word = EncodeTrack(d.image, d.cyl, fdc.side)[d.pos + 1]
       IN  Serves(n, Selected)]_vars

\* Each disk holds what the driver's finished writes put where it asked for, and
\* nothing else: no write reaches another place or another drive, and one that comes
\* torn or with a bad checksum changes nothing (write_decoded_track).
WritesLand == \A n \in Drives : drives[n].image = expected[n]

\* A disk that differs from its file is flagged for writing back, unless another drive
\* with a disk from the same file has written its own over it: then the last one wins.
UnsavedFlagged ==
  \A n \in Drives :
    loaded[n] # 0 /\ drives[n].image # host[loaded[n]] => drives[n].dirty \/ overwritten[n]

\* A transfer that was started ends with the block interrupt, with the sync word on
\* or off, in a drive with or without a disk, whatever disks the host inserts.
TransfersEnd == pc = "wait" ~> pc = "idle"
=============================================================================
