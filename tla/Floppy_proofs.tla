---------------------------- MODULE Floppy_proofs ----------------------------
(***************************************************************************)
(* Theorems about Floppy, for every number of drives, disks and sectors: each  *)
(* drive's image is the inserted disk with the finished writes where they were *)
(* for, no read brings a word of another disk, another cylinder or an older    *)
(* image, and an image that differs from the host's file is flagged for        *)
(* writing back, whatever disks the host inserts and ejects in between.       *)
(***************************************************************************)
EXTENDS Floppy, TLAPS

\* The fields of a drive; disk 0 stands for no disk.
Fields == {"present", "image", "track", "cyl", "motor", "pos", "id", "shift", "spin",
           "ready", "changed", "dirty"}

Whole(d) == d = [f \in Fields |-> d[f]] /\ d.dirty \in BOOLEAN

\* From d to e the image is either untouched, with its flag, or flagged.
Tracked(d, e) == /\ Whole(e)
                 /\ e.dirty = TRUE \/ (e.image = d.image /\ e.dirty = d.dirty)

\* The inductive invariant.
Inv == /\ drives = [n \in Drives |-> drives[n]] /\ \A n \in Drives : Whole(drives[n])
       /\ loaded \in [Drives -> Disks \cup {0}]
       /\ host = [k \in Disks |-> host[k]]
       /\ overwritten = [n \in Drives |-> overwritten[n]]
       /\ UnsavedFlagged

\* What every step but a flush and a disk change does to the drives.
AllTracked == /\ drives' = [n \in Drives |-> drives'[n]]
              /\ \A n \in Drives : Tracked(drives[n], drives'[n])
-----------------------------------------------------------------------------
(* The drives *)

\* A drive without a disk has nothing to save.
LEMMA NewDriveWhole ==
  ASSUME NEW id  PROVE Whole(NewDrive(id))
  BY DEF NewDrive, Whole, Fields

\* Selection, motor and step leave the image alone (disk_select).
LEMMA MechanicsTrack ==
  ASSUME NEW d, Whole(d), NEW on, NEW outward
  PROVE  Tracked(d, Latch(d, on)) /\ Tracked(d, Step(d, outward)) /\ Tracked(d, Spin(d))
<1>1. Tracked(d, Latch(d, on))
  <2> DEFINE e == [d EXCEPT !.shift = (@ + 1) % 32, !.motor = on]
             Same(x) == Whole(x) /\ x.image = d.image /\ x.dirty = d.dirty
  <2>1. Same(e)  BY DEF Whole, Fields
  <2>2. ASSUME NEW x, Same(x)
        PROVE  /\ Same([x EXCEPT !.spin = SpinUp, !.ready = FALSE])
               /\ Same([x EXCEPT !.shift = 0, !.ready = FALSE, !.spin = 0])
    BY <2>2 DEF Whole, Fields
  <2>3. Latch(d, on) \in {e, [e EXCEPT !.spin = SpinUp, !.ready = FALSE],
                             [e EXCEPT !.shift = 0, !.ready = FALSE, !.spin = 0]}
    BY DEF Latch
  <2> HIDE DEF e
  <2>4. Same(Latch(d, on))  BY <2>1, <2>2, <2>3
  <2> QED  BY <2>4 DEF Tracked
<1>2. Tracked(d, Step(d, outward))  BY DEF Step, Tracked, Whole, Fields
<1>3. Tracked(d, Spin(d))  BY DEF Spin, Tracked, Whole, Fields
<1> QED  BY <1>1, <1>2, <1>3

\* A written track flags the image if it carries a sector at all (write_decoded_track).
LEMMA DecodeTracks ==
  ASSUME NEW d, Whole(d), NEW side, NEW words
  PROVE  Tracked(d, DecodeTrack(d, side, words))
<1>1. ASSUME NEW image
      PROVE  Tracked(d, [d EXCEPT !.image = image, !.dirty = TRUE, !.track = << >>])
  BY DEF Tracked, Whole, Fields
<1>2. CASE Decoded(words) = {}
  BY <1>2 DEF DecodeTrack, Tracked
<1>3. CASE Decoded(words) # {}
  <2> DEFINE image == [p \in Place |->
            LET hits == {i \in Decoded(words) : p = <<d.cyl, side, words[i].sector>>}
            IN  IF hits = {} THEN d.image[p]
                ELSE words[CHOOSE i \in hits : \A j \in hits : j <= i].data]
  <2>1. DecodeTrack(d, side, words) = [d EXCEPT !.image = image, !.dirty = TRUE,
                                                !.track = << >>]
    BY <1>3 DEF DecodeTrack
  <2> HIDE DEF image
  <2> QED  BY <2>1, <1>1
<1> QED  BY <1>2, <1>3

\* disk_select for all drives at once.
LEMMA SelectTracks ==
  ASSUME Inv, NEW selected, NEW motorBit, NEW outward, NEW stepBit,
         drives' = SelectedDrives(selected, motorBit, outward, stepBit)
  PROVE  AllTracked
<1>1. ASSUME NEW n \in Drives  PROVE Tracked(drives[n], drives'[n])
  <2> DEFINE latched == Latch(drives[n], fdc.motorBit \/ motorBit)
             d == IF n \in selected \ fdc.selected THEN latched ELSE drives[n]
  <2>1. Whole(drives[n]) /\ Tracked(drives[n], drives[n])
    BY <1>1 DEF Inv, Tracked
  <2>2. Tracked(drives[n], latched)  BY <2>1, MechanicsTrack
  <2> HIDE DEF latched
  <2>3. Tracked(drives[n], d)  BY <2>1, <2>2
  <2>4. drives'[n] = IF stepBit /\ ~fdc.stepBit /\ n \in fdc.selected
                     THEN Step(d, outward) ELSE d
    BY DEF SelectedDrives, latched
  <2> HIDE DEF d
  <2>5. Tracked(d, Step(d, outward))  BY <2>3, MechanicsTrack DEF Tracked
  <2> QED  BY <2>3, <2>4, <2>5 DEF Tracked
<1>2. drives' = [n \in Drives |-> drives'[n]]  BY DEF SelectedDrives
<1> QED  BY <1>1, <1>2 DEF AllTracked
-----------------------------------------------------------------------------
(* The system *)

\* The disks come from the host's files: nothing is unsaved.
LEMMA InitInv == Init => Inv
<1> SUFFICES ASSUME Init  PROVE Inv
  OBVIOUS
<1>1. /\ drives = [n \in Drives |-> drives[n]]
      /\ \A n \in Drives : Whole(drives[n])
  BY NewDriveWhole DEF Init
<1>2. \A n \in Drives : loaded[n] = 0  BY DEF Init
<1>3. /\ loaded \in [Drives -> Disks \cup {0}] /\ host = [k \in Disks |-> host[k]]
      /\ overwritten = [n \in Drives |-> overwritten[n]]
  BY DEF Init
<1> QED  BY <1>1, <1>2, <1>3 DEF Inv, UnsavedFlagged

\* A step that tracks every drive and leaves the host alone keeps the invariant.
LEMMA TrackingKeepsInv ==
  ASSUME Inv, AllTracked, UNCHANGED <<loaded, host, overwritten>>
  PROVE  Inv'
<1>1. \A n \in Drives : Whole(drives'[n])  BY DEF AllTracked, Tracked
<1>2. ASSUME NEW n \in Drives, loaded[n] # 0, drives'[n].image # host[loaded[n]]
      PROVE  drives'[n].dirty \/ overwritten[n]
  <2>1. CASE drives'[n].dirty = TRUE
    BY <2>1
  <2>2. CASE drives'[n].image = drives[n].image /\ drives'[n].dirty = drives[n].dirty
    BY <1>2, <2>2 DEF Inv, UnsavedFlagged
  <2> QED  BY <2>1, <2>2 DEF AllTracked, Tracked
<1>3. UnsavedFlagged'  BY <1>2 DEF UnsavedFlagged
<1> QED  BY <1>1, <1>3 DEF Inv, AllTracked

\* A step that touches neither drives nor files keeps the invariant.
LEMMA IdleKeepsInv ==
  ASSUME Inv, UNCHANGED <<drives, loaded, host, overwritten>>
  PROVE  Inv'
<1>1. AllTracked  BY DEF AllTracked, Inv, Tracked
<1> QED  BY <1>1, TrackingKeepsInv

\* A transfer flags what it writes, and a read leaves the images alone.
LEMMA DmaInv ==
  ASSUME Inv, DmaCycle
  PROVE  Inv'
<1>1. CASE WriteWord
  <2>1. CASE UNCHANGED drives
    BY <1>1, <2>1, IdleKeepsInv DEF DmaCycle, shelf
  <2>2. CASE \E words : drives' = [drives EXCEPT ![Active] = DecodeTrack(@, fdc.side, words)]
    <3>1. PICK words : drives' = [drives EXCEPT ![Active] = DecodeTrack(@, fdc.side, words)]
      BY <2>2
    <3> DEFINE a == Active
    <3>2. drives' = [drives EXCEPT ![a] = DecodeTrack(drives[a], fdc.side, words)]
      BY <3>1
    <3> HIDE DEF a
    <3>3. ASSUME NEW n \in Drives  PROVE Tracked(drives[n], drives'[n])
      <4>1. Whole(drives[n]) /\ Tracked(drives[n], drives[n])
        BY <3>3 DEF Inv, Tracked
      <4>2. Tracked(drives[n], DecodeTrack(drives[n], fdc.side, words))
        BY <4>1, DecodeTracks
      <4>3. drives'[n] = IF n = a THEN DecodeTrack(drives[n], fdc.side, words) ELSE drives[n]
        BY <3>2 DEF Inv
      <4> QED  BY <4>1, <4>2, <4>3
    <3>4. drives' = [n \in Drives |-> drives'[n]]  BY <3>2 DEF Inv
    <3>5. AllTracked  BY <3>3, <3>4 DEF AllTracked
    <3> QED  BY <3>5, TrackingKeepsInv DEF DmaCycle, shelf
  <2>3. UNCHANGED drives
        \/ \E words : drives' = [drives EXCEPT ![Active] = DecodeTrack(@, fdc.side, words)]
    BY <1>1 DEF WriteWord
  <2> QED  BY <2>1, <2>2, <2>3
<1>2. CASE ReadWord
  <2>1. PICK a, track, pos :
          drives' = [drives EXCEPT ![a] = [drives[a] EXCEPT !.track = track, !.pos = pos]]
    <3> DEFINE a     == Active
               track == Cached(drives[a])
               pos   == (drives[a].pos + 1) % Len(track)
    <3>1. drives' = [drives EXCEPT ![a].track = track, ![a].pos = pos]
      BY <1>2 DEF ReadWord
    <3> HIDE DEF a, track, pos
    <3>2. drives' = [drives EXCEPT ![a] = [drives[a] EXCEPT !.track = track, !.pos = pos]]
      BY <3>1 DEF Inv
    <3> QED  BY <3>2
  <2>2. ASSUME NEW n \in Drives  PROVE Tracked(drives[n], drives'[n])
    <3>1. Whole(drives[n])  BY <2>2 DEF Inv
    <3>2. Tracked(drives[n], drives[n]) /\
          Tracked(drives[n], [drives[n] EXCEPT !.track = track, !.pos = pos])
      BY <3>1 DEF Tracked, Whole, Fields
    <3>3. drives'[n] = IF n = a THEN [drives[n] EXCEPT !.track = track, !.pos = pos]
                       ELSE drives[n]
      BY <2>1 DEF Inv
    <3> QED  BY <3>2, <3>3
  <2>3. drives' = [n \in Drives |-> drives'[n]]  BY <2>1 DEF Inv
  <2>4. AllTracked  BY <2>2, <2>3 DEF AllTracked
  <2> QED  BY <2>4, TrackingKeepsInv DEF DmaCycle, shelf
<1> QED  BY <1>1, <1>2 DEF DmaCycle

\* A disk comes clean from the host into its drive.
LEMMA InsertInv ==
  ASSUME Inv, NEW n \in Drives, NEW k \in Disks, Insert(n, k)
  PROVE  Inv'
<1>1. /\ drives' = [drives EXCEPT ![n] = InsertDisk(drives[n], host[k])]
      /\ loaded' = [loaded EXCEPT ![n] = k]
      /\ overwritten' = [overwritten EXCEPT ![n] = FALSE]
      /\ host' = host
  BY DEF Insert
<1>2. /\ Whole(InsertDisk(drives[n], host[k]))
      /\ InsertDisk(drives[n], host[k]).image = host[k]
  BY DEF Inv, InsertDisk, Whole, Fields
<1>3. \A m \in Drives : /\ drives'[m] = IF m = n THEN InsertDisk(drives[n], host[k])
                                        ELSE drives[m]
                        /\ loaded'[m] = IF m = n THEN k ELSE loaded[m]
                        /\ m # n => overwritten'[m] = overwritten[m]
  BY <1>1 DEF Inv
<1>4. /\ drives' = [m \in Drives |-> drives'[m]]
      /\ \A m \in Drives : Whole(drives'[m])
  BY <1>1, <1>2, <1>3 DEF Inv
<1>5. /\ loaded' \in [Drives -> Disks \cup {0}]
      /\ overwritten' = [m \in Drives |-> overwritten'[m]]
  BY <1>1 DEF Inv
<1>6. UnsavedFlagged'  BY <1>1, <1>2, <1>3 DEF Inv, UnsavedFlagged
<1>7. host' = [j \in Disks |-> host'[j]]  BY <1>1 DEF Inv
<1> QED  BY <1>4, <1>5, <1>6, <1>7 DEF Inv

\* An ejected disk has no file any more.
LEMMA EjectInv ==
  ASSUME Inv, NEW n \in Drives, Eject(n)
  PROVE  Inv'
<1>1. loaded' = [loaded EXCEPT ![n] = 0] /\ UNCHANGED <<drives, host, overwritten>>
  BY DEF Eject
<1>2. \A m \in Drives : loaded'[m] = IF m = n THEN 0 ELSE loaded[m]
  BY <1>1 DEF Inv
<1>3. UnsavedFlagged'  BY <1>1, <1>2 DEF Inv, UnsavedFlagged
<1> QED  BY <1>1, <1>3 DEF Inv

\* A flush makes the file equal to the image; the drives whose file it overwrites are
\* marked, and no other file changes.
LEMMA FlushInv ==
  ASSUME Inv, NEW n \in Drives, Flush(n)
  PROVE  Inv'
<1> DEFINE clean == [drives[n] EXCEPT !.dirty = FALSE]
<1>1. /\ drives' = [drives EXCEPT ![n] = clean]
      /\ host' = [host EXCEPT ![loaded[n]] = drives[n].image]
      /\ loaded' = loaded /\ loaded[n] # 0
      /\ overwritten' = [m \in Drives |-> m # n /\ (overwritten[m] \/ loaded[m] = loaded[n])]
  BY DEF Flush, Inv
<1>2. Whole(clean) /\ clean.image = drives[n].image  BY DEF Inv, Whole, Fields
<1> HIDE DEF clean
<1>3. \A m \in Drives : drives'[m] = IF m = n THEN clean ELSE drives[m]
  BY <1>1 DEF Inv
<1>4. loaded[n] \in Disks /\ host'[loaded[n]] = drives[n].image
  BY <1>1 DEF Inv
<1>5. ASSUME NEW m \in Drives, loaded[m] # loaded[n], loaded[m] # 0
      PROVE  host'[loaded[m]] = host[loaded[m]]
  <2>1. loaded[m] \in Disks  BY <1>5 DEF Inv
  <2> QED  BY <1>1, <1>5, <2>1 DEF Inv
<1>6. ASSUME NEW m \in Drives, loaded'[m] # 0, drives'[m].image # host'[loaded'[m]]
      PROVE  drives'[m].dirty \/ overwritten'[m]
  <2>1. m # n  BY <1>1, <1>2, <1>3, <1>4, <1>6
  <2>2. CASE loaded[m] = loaded[n]  BY <1>1, <2>1, <2>2
  <2>3. CASE loaded[m] # loaded[n]
    <3>1. drives[m].dirty \/ overwritten[m]
      BY <1>1, <1>3, <1>5, <1>6, <2>1, <2>3 DEF Inv, UnsavedFlagged
    <3>2. drives'[m] = drives[m]  BY <1>3, <2>1
    <3>3. overwritten[m] => overwritten'[m]  BY <1>1, <2>1
    <3> QED  BY <3>1, <3>2, <3>3
  <2> QED  BY <2>2, <2>3
<1>7. /\ drives' = [m \in Drives |-> drives'[m]]
      /\ \A m \in Drives : Whole(drives'[m])
  BY <1>1, <1>2, <1>3 DEF Inv
<1>8. /\ loaded' \in [Drives -> Disks \cup {0}] /\ host' = [j \in Disks |-> host'[j]]
      /\ overwritten' = [m \in Drives |-> overwritten'[m]]
  BY <1>1 DEF Inv
<1> QED  BY <1>6, <1>7, <1>8 DEF Inv, UnsavedFlagged

\* Every step of the guest and of the host keeps the invariant.
LEMMA NextInv == Inv /\ [Next]_vars => Inv'
<1> SUFFICES ASSUME Inv, [Next]_vars  PROVE Inv'
  OBVIOUS
<1>1. CASE DmaCycle  BY <1>1, DmaInv
<1>2. CASE EndScanline
  <2>1. drives' = [n \in Drives |-> Spin(drives[n])]  BY <1>2 DEF EndScanline
  <2>2. ASSUME NEW n \in Drives  PROVE Tracked(drives[n], Spin(drives[n]))
    BY MechanicsTrack DEF Inv
  <2>3. AllTracked  BY <2>1, <2>2 DEF AllTracked
  <2> QED  BY <1>2, <2>3, TrackingKeepsInv DEF EndScanline, shelf
<1>3. CASE Choose  BY <1>3, IdleKeepsInv DEF Choose, shelf
<1>4. CASE Select
  <2>1. AllTracked  BY <1>4, SelectTracks DEF Select, DiskSelect
  <2> QED  BY <1>4, <2>1, TrackingKeepsInv DEF Select, shelf
<1>5. CASE WaitReady  BY <1>5, IdleKeepsInv DEF WaitReady, shelf
<1>6. CASE Seek
  <2>1. UNCHANGED <<loaded, host, overwritten>>  BY <1>6 DEF Seek, shelf
  <2>2. CASE UNCHANGED drives  BY <2>1, <2>2, IdleKeepsInv
  <2>3. CASE \E outward : drives' = SelectedDrives({job.drive}, TRUE, outward, ~fdc.stepBit)
    <3>1. AllTracked  BY <2>3, SelectTracks
    <3> QED  BY <2>1, <3>1, TrackingKeepsInv
  <2>4. UNCHANGED drives
        \/ \E outward : drives' = SelectedDrives({job.drive}, TRUE, outward, ~fdc.stepBit)
    BY <1>6 DEF Seek, DiskSelect
  <2> QED  BY <2>2, <2>3, <2>4
<1>7. CASE Start  BY <1>7, IdleKeepsInv DEF Start, shelf
<1>8. CASE Finish
  <2>1. AllTracked  BY <1>8, SelectTracks DEF Finish
  <2> QED  BY <1>8, <2>1, TrackingKeepsInv DEF Finish, shelf
<1>9. CASE \E n \in Drives, k \in Disks : Insert(n, k)  BY <1>9, InsertInv
<1>10. CASE \E n \in Drives : Eject(n)  BY <1>10, EjectInv
<1>11. CASE \E n \in Drives : Flush(n)  BY <1>11, FlushInv
<1>12. CASE UNCHANGED vars  BY <1>12, IdleKeepsInv DEF vars
<1> QED
  BY <1>1, <1>2, <1>3, <1>4, <1>5, <1>6, <1>7, <1>8, <1>9, <1>10, <1>11, <1>12
  DEF Next, Driver, Host

\* A disk that differs from its file is flagged for writing back, unless another drive
\* wrote a disk from the same file over it: whatever the guest does with motor, heads and
\* DMA, and whatever the host inserts, ejects and writes back meanwhile, no written track
\* of an inserted disk is mistaken for saved (write_decoded_track, insert_disk,
\* floppy_dirty).
THEOREM UnsavedAlwaysFlagged == Spec => []UnsavedFlagged
<1>1. Inv => UnsavedFlagged  BY DEF Inv
<1> QED  BY InitInv, NextInv, <1>1, PTL DEF Spec
-----------------------------------------------------------------------------
(* Where writes land, and what reads bring *)

ControllerFields == {"selected", "side", "motorBit", "stepBit", "started", "state", "enable",
                     "length", "sync", "blk", "buffer"}

\* Images and what is expected of them are functions of the places of a disk.
Placed == /\ fdc = [f \in ControllerFields |-> fdc[f]]
          /\ expected = [n \in Drives |-> expected[n]]
          /\ \A n \in Drives : drives[n].image = [p \in Place |-> drives[n].image[p]]
          /\ \A k \in Disks : host[k] = [p \in Place |-> host[k][p]]

\* Where the driver is with its job, and what that means for the drives.
DriverInv ==
  /\ pc \in {"idle", "select", "spin", "seek", "start", "wait"}
  /\ pc # "idle" => job \in Jobs
  /\ pc \in {"idle", "select"} => fdc.selected = {}
  /\ pc \in {"spin", "seek", "start", "wait"} =>
       fdc.selected = {job.drive} /\ fdc.side = job.side
  /\ pc \in {"start", "wait"} => drives[job.drive].cyl = job.cyl /\ fdc.stepBit

\* A transfer belongs to the job: what a write has taken from memory is the first part
\* of the track the driver prepared, and the rest is still in memory.
TransferInv ==
  /\ fdc.state \in {"Off", "Read", "Write"}
  /\ fdc.state # "Off" => pc = "wait" /\ drives[job.drive].present
  /\ fdc.state = "Read" => ~job.write
  /\ fdc.state = "Write" =>
       /\ job.write /\ fdc.length \in 1 .. job.length
       /\ fdc.buffer = SubSeq(Outgoing, 1, job.length - fdc.length)
       /\ ram = SubSeq(Outgoing, job.length - fdc.length + 1, TrackLength)

LandInv == Placed /\ DriverInv /\ TransferInv /\ WritesLand

\* What the mechanics do to a drive: nothing to its disk, and the cached track is
\* dropped whenever the heads move.
Moved(d, e) == /\ e.image = d.image /\ e.present = d.present /\ e.pos = d.pos
               /\ e.track = << >> \/ (e.track = d.track /\ e.cyl = d.cyl)
-----------------------------------------------------------------------------
(* Tracks and their words *)

LEMMA TrackWordsFacts ==
  ASSUME NEW track, NEW data, NEW whole
  PROVE  /\ TrackLength \in Nat /\ TrackLength >= 3
         /\ \E S : TrackWords(track, data, whole) \in Seq(S)
         /\ Len(TrackWords(track, data, whole)) = TrackLength
         /\ \A i \in 1 .. TrackLength : TrackWords(track, data, whole)[i] =
              IF i = 1 THEN Gap ELSE IF i % 2 = 0 THEN Sync
              ELSE SectorWord(track, (i - 3) \div 2, data[(i - 3) \div 2], whole)
<1> DEFINE w == TrackWords(track, data, whole)
           S == {w[i] : i \in 1 .. TrackLength}
<1>1. TrackLength \in Nat /\ TrackLength >= 3
  BY FloppyAssumption DEF TrackLength
<1>2. \A i \in 1 .. TrackLength : w[i] =
              IF i = 1 THEN Gap ELSE IF i % 2 = 0 THEN Sync
              ELSE SectorWord(track, (i - 3) \div 2, data[(i - 3) \div 2], whole)
  BY <1>1 DEF TrackWords
<1>3. \A i \in 1 .. TrackLength : w[i] \in S  OBVIOUS
<1>4. w = [i \in 1 .. TrackLength |-> w[i]]  BY DEF TrackWords
<1> HIDE DEF w, S
<1>5. w \in [1 .. TrackLength -> S]  BY <1>3, <1>4
<1>6. w \in Seq(S) /\ Len(w) = TrackLength  BY <1>1, <1>5
<1> QED  BY <1>1, <1>2, <1>6 DEF w, S

\* The mechanics, one drive at a time.
LEMMA MechanicsMove ==
  ASSUME NEW d, Whole(d), NEW on, NEW outward
  PROVE  /\ Moved(d, Latch(d, on)) /\ Latch(d, on).cyl = d.cyl
         /\ Moved(d, Step(d, outward))
         /\ Moved(d, Spin(d)) /\ Spin(d).cyl = d.cyl
<1>1. Moved(d, Latch(d, on)) /\ Latch(d, on).cyl = d.cyl
  BY DEF Latch, Moved, Whole, Fields
<1>2. Moved(d, Step(d, outward))  BY DEF Step, Moved, Whole, Fields
<1>3. Moved(d, Spin(d)) /\ Spin(d).cyl = d.cyl
  BY DEF Spin, Moved, Whole, Fields
<1> QED  BY <1>1, <1>2, <1>3

\* disk_select moves heads only on a rising step bit, and only those of drives that
\* were selected before.
LEMMA SelectMoves ==
  ASSUME Inv, NEW selected, NEW motorBit, NEW outward, NEW stepBit,
         drives' = SelectedDrives(selected, motorBit, outward, stepBit)
  PROVE  \A n \in Drives :
           /\ Moved(drives[n], drives'[n])
           /\ fdc.stepBit \/ ~stepBit \/ n \notin fdc.selected
                => drives'[n].cyl = drives[n].cyl
<1> SUFFICES ASSUME NEW n \in Drives
             PROVE  /\ Moved(drives[n], drives'[n])
                    /\ fdc.stepBit \/ ~stepBit \/ n \notin fdc.selected
                         => drives'[n].cyl = drives[n].cyl
  OBVIOUS
<1> DEFINE latched == Latch(drives[n], fdc.motorBit \/ motorBit)
           d == IF n \in selected \ fdc.selected THEN latched ELSE drives[n]
<1>1. Whole(drives[n]) /\ Moved(drives[n], drives[n])  BY DEF Inv, Moved
<1>2. Moved(drives[n], latched) /\ latched.cyl = drives[n].cyl /\ Whole(latched)
  BY <1>1, MechanicsMove, MechanicsTrack DEF Tracked
<1> HIDE DEF latched
<1>3. Moved(drives[n], d) /\ d.cyl = drives[n].cyl /\ Whole(d)  BY <1>1, <1>2
<1>4. drives'[n] = IF stepBit /\ ~fdc.stepBit /\ n \in fdc.selected
                   THEN Step(d, outward) ELSE d
  BY DEF SelectedDrives, latched
<1> HIDE DEF d
<1>5. Moved(d, Step(d, outward))  BY <1>3, MechanicsMove
<1> QED  BY <1>3, <1>4, <1>5 DEF Moved

\* Where the words of the sectors are: sector k has word 2 * k + 3.
LEMMA OddWords ==
  ASSUME NEW i \in Nat, i > 1, i % 2 # 0
  PROVE  i >= 3 /\ (i - 1) % 2 = 0 /\ i - 1 # 1 /\ i % 2 = 1
         /\ (i - 3) \div 2 \in Nat /\ i = 2 * ((i - 3) \div 2) + 3
OBVIOUS

LEMMA SectorWords ==
  ASSUME NEW k \in Nat
  PROVE  (2 * k + 3) % 2 = 1 /\ (2 * k + 3 - 3) \div 2 = k
OBVIOUS

\* What the driver has prepared.
LEMMA OutgoingFacts ==
  /\ TrackLength \in Nat /\ TrackLength = 2 * Sectors + 1 /\ TrackLength >= 3
  /\ Len(Outgoing) = TrackLength
  /\ \E S : Outgoing \in Seq(S)
  /\ \A i \in 1 .. TrackLength : Outgoing[i] =
       IF i = 1 THEN Gap ELSE IF i % 2 = 0 THEN Sync
       ELSE SectorWord(2 * job.cyl + job.side, (i - 3) \div 2, jobs, job.whole)
<1> DEFINE data == [s \in Sector |-> jobs]
           track == 2 * job.cyl + job.side
<1>1. Outgoing = TrackWords(track, data, job.whole)  BY DEF Outgoing
<1>2. TrackLength \in Nat /\ TrackLength = 2 * Sectors + 1 /\ TrackLength >= 3
  BY FloppyAssumption DEF TrackLength
<1>3. ASSUME NEW i \in 1 .. TrackLength, i # 1, i % 2 # 0  PROVE data[(i - 3) \div 2] = jobs
  <2>1. i \in Nat /\ i > 1  BY <1>2, <1>3
  <2>2. (i - 3) \div 2 \in Nat /\ i = 2 * ((i - 3) \div 2) + 3
    BY <1>3, <2>1, OddWords
  <2>3. (i - 3) \div 2 \in Sector
    BY <1>2, <2>2, FloppyAssumption DEF Sector
  <2> QED  BY <2>3
<1> HIDE DEF data, track
<1>4. /\ Len(Outgoing) = TrackLength
      /\ \E S : Outgoing \in Seq(S)
      /\ \A i \in 1 .. TrackLength : Outgoing[i] =
           IF i = 1 THEN Gap ELSE IF i % 2 = 0 THEN Sync
           ELSE SectorWord(track, (i - 3) \div 2, data[(i - 3) \div 2], job.whole)
  BY <1>1, TrackWordsFacts
<1>5. ASSUME NEW i \in 1 .. TrackLength
      PROVE  Outgoing[i] = IF i = 1 THEN Gap ELSE IF i % 2 = 0 THEN Sync
                           ELSE SectorWord(track, (i - 3) \div 2, jobs, job.whole)
  BY <1>3, <1>4
<1> QED  BY <1>2, <1>4, <1>5 DEF track

\* The words of a first part of the track the driver prepared.
Prepared(words, n) ==
  /\ Len(words) = n
  /\ \A i \in 1 .. n : words[i] =
       IF i = 1 THEN Gap ELSE IF i % 2 = 0 THEN Sync
       ELSE SectorWord(2 * job.cyl + job.side, (i - 3) \div 2, jobs, job.whole)

LEMMA OutgoingPrepared ==
  ASSUME NEW n \in 1 .. TrackLength
  PROVE  Prepared(SubSeq(Outgoing, 1, n), n)
<1> DEFINE o == Outgoing
<1>1. Len(o) = TrackLength /\ TrackLength \in Nat  BY OutgoingFacts
<1>2. PICK S : o \in Seq(S)  BY OutgoingFacts
<1> HIDE DEF o
<1>3. /\ Len(SubSeq(o, 1, n)) = n
      /\ \A i \in 1 .. n : SubSeq(o, 1, n)[i] = o[i] /\ i \in 1 .. TrackLength
  BY <1>1, <1>2
<1> QED  BY <1>3, OutgoingFacts DEF o, Prepared

\* It is decoded into exactly the sectors that came whole: each gets the new data, the
\* others keep theirs (write_decoded_track).
LEMMA PreparedDecoded ==
  ASSUME job \in Jobs, job.write,
         NEW d, Whole(d), d.cyl = job.cyl, d.image = [p \in Place |-> d.image[p]],
         NEW words, Prepared(words, job.length)
  PROVE  DecodeTrack(d, job.side, words).image =
           [p \in Place |-> IF p \in Overwritten(job) THEN jobs ELSE d.image[p]]
<1> DEFINE L == job.length
<1>1. /\ L \in 1 .. TrackLength /\ TrackLength \in Nat
      /\ job.whole \in BOOLEAN /\ Sectors \in Nat /\ TrackLength = 2 * Sectors + 1
  BY JobsAssumption, FloppyAssumption, OutgoingFacts DEF Job
<1>2. Len(words) = L
  BY DEF Prepared
<1>3. \A i \in 1 .. L : words[i] =
        IF i = 1 THEN Gap ELSE IF i % 2 = 0 THEN Sync
        ELSE SectorWord(2 * job.cyl + job.side, (i - 3) \div 2, jobs, job.whole)
  BY DEF Prepared
<1>4. Decoded(words) = {i \in 2 .. L : i % 2 = 1 /\ job.whole}
  <2> SUFFICES ASSUME NEW i \in 2 .. L
               PROVE  (/\ words[i].kind = "sector" /\ words[i - 1] = Sync
                       /\ words[i].whole /\ words[i].sector \in Sector)
                      <=> (i % 2 = 1 /\ job.whole)
    BY <1>2 DEF Decoded
  <2>1. i \in 1 .. L /\ i - 1 \in 1 .. L  BY <1>1
  <2>2. CASE i % 2 = 0
    <3>1. i # 1 /\ i % 2 # 1  BY <2>2
    <3>2. words[i] = Sync  BY <1>1, <1>3, <2>1, <2>2, <3>1
    <3>3. words[i].kind # "sector"  BY <3>2 DEF Sync
    <3> QED  BY <3>1, <3>3
  <2>3. CASE i % 2 # 0
    <3>1. i % 2 = 1 /\ (i - 1) % 2 = 0 /\ i - 1 # 0 /\ i # 1 /\ i - 1 # 1
      BY <1>1, <2>3, OddWords
    <3>2. words[i - 1] = Sync  BY <1>3, <2>1, <3>1
    <3>3. words[i] = SectorWord(2 * job.cyl + job.side, (i - 3) \div 2, jobs, job.whole)
      BY <1>1, <1>3, <2>1, <3>1
    <3>4. (i - 3) \div 2 \in Sector
      <4>1. i \in Nat /\ i > 1  BY <1>1
      <4>2. (i - 3) \div 2 \in Nat /\ i = 2 * ((i - 3) \div 2) + 3
        BY <2>3, <4>1, OddWords
      <4> QED  BY <1>1, <4>2 DEF Sector
    <3> QED  BY <3>1, <3>2, <3>3, <3>4 DEF SectorWord
  <2> QED  BY <2>2, <2>3
<1> DEFINE hits(p) == {i \in Decoded(words) : p = <<d.cyl, job.side, words[i].sector>>}
           value(p) == IF hits(p) = {} THEN d.image[p]
                       ELSE words[CHOOSE i \in hits(p) : \A j \in hits(p) : j <= i].data
           image == [p \in Place |-> value(p)]
<1>5. \A i \in Decoded(words) : /\ words[i].sector = (i - 3) \div 2
                                /\ words[i].data = jobs
                                /\ i \in 2 .. L /\ i % 2 = 1
  <2> SUFFICES ASSUME NEW i \in Decoded(words)
               PROVE  /\ words[i].sector = (i - 3) \div 2 /\ words[i].data = jobs
                      /\ i \in 2 .. L /\ i % 2 = 1
    OBVIOUS
  <2>1. i \in 1 .. L /\ i # 1 /\ i % 2 # 0 /\ i \in 2 .. L /\ i % 2 = 1  BY <1>1, <1>4
  <2>2. words[i] = SectorWord(2 * job.cyl + job.side, (i - 3) \div 2, jobs, job.whole)
    BY <1>1, <1>3, <2>1
  <2> QED  BY <2>1, <2>2 DEF SectorWord
<1>6. ASSUME NEW p \in Place
      PROVE  image[p] = IF p \in Overwritten(job) THEN jobs ELSE d.image[p]
  <2>1. CASE p \in Overwritten(job)
    <3>1. PICK s \in Sector : /\ job.whole /\ 2 * s + 3 <= L
                              /\ p = <<job.cyl, job.side, s>>
      BY <2>1 DEF Overwritten
    <3>2. s \in Nat  BY <1>1 DEF Sector
    <3>3. 2 * s + 3 \in Decoded(words)
      BY <1>1, <1>4, <3>1, <3>2, SectorWords
    <3>4. words[2 * s + 3].sector = s
      <4> DEFINE i == 2 * s + 3
      <4>1. i \in Decoded(words) /\ (i - 3) \div 2 = s  BY <3>2, <3>3, SectorWords
      <4> HIDE DEF i
      <4>2. words[i].sector = s  BY <1>5, <4>1
      <4> QED  BY <4>2 DEF i
    <3>5. 2 * s + 3 \in hits(p)
      BY <3>1, <3>3, <3>4
    <3>6. \A i \in hits(p) : i = 2 * s + 3
      <4> SUFFICES ASSUME NEW i \in hits(p)  PROVE i = 2 * s + 3
        OBVIOUS
      <4>1. words[i].sector = s  BY <3>1
      <4>2. (i - 3) \div 2 = s /\ i \in 2 .. L /\ i % 2 = 1  BY <1>5, <4>1
      <4> QED  BY <1>1, <3>2, <4>2, OddWords
    <3>7. hits(p) = {2 * s + 3}  BY <3>5, <3>6
    <3> HIDE DEF hits
    <3>8. (CHOOSE i \in hits(p) : \A j \in hits(p) : j <= i) = 2 * s + 3
      BY <3>2, <3>7
    <3>9. image[p] = words[2 * s + 3].data  BY <3>7, <3>8
    <3> QED  BY <1>5, <2>1, <3>3, <3>9
  <2>2. CASE p \notin Overwritten(job)
    <3>1. hits(p) = {}
      <4> SUFFICES ASSUME NEW i \in hits(p)  PROVE FALSE
        OBVIOUS
      <4>1. /\ i \in Decoded(words)
            /\ p = <<job.cyl, job.side, (i - 3) \div 2>> /\ i \in 2 .. L /\ i % 2 = 1
        BY <1>5
      <4>2. job.whole  BY <1>4, <4>1
      <4>3. /\ (i - 3) \div 2 \in Sector
            /\ 2 * ((i - 3) \div 2) + 3 <= L
        BY <1>1, <4>1, OddWords DEF Sector
      <4> QED  BY <2>2, <4>1, <4>2, <4>3 DEF Overwritten
    <3> QED  BY <2>2, <3>1
  <2> QED  BY <2>1, <2>2
<1>7. CASE Decoded(words) = {}
  <2>1. \A p \in Place : image[p] = d.image[p]  BY <1>7
  <2>2. DecodeTrack(d, job.side, words) = d  BY <1>7 DEF DecodeTrack
  <2> HIDE DEF image
  <2> QED  BY <1>6, <2>1, <2>2
<1>8. CASE Decoded(words) # {}
  <2>1. DecodeTrack(d, job.side, words) =
          [d EXCEPT !.image = image, !.dirty = TRUE, !.track = << >>]
    BY <1>8, Zenon DEF DecodeTrack
  <2> HIDE DEF value
  <2>2. image = [p \in Place |-> image[p]]  OBVIOUS
  <2> HIDE DEF image
  <2>3. DecodeTrack(d, job.side, words).image = image
    BY <2>1 DEF Whole, Fields
  <2> QED  BY <1>6, <2>2, <2>3
<1> QED  BY <1>7, <1>8
-----------------------------------------------------------------------------
(* WritesLand *)

\* The next word of the prepared track moves from memory into the buffer.
LEMMA NextWord ==
  ASSUME NEW S, NEW o \in Seq(S), NEW k \in Nat, k < Len(o)
  PROVE  /\ Append(SubSeq(o, 1, k), Head(SubSeq(o, k + 1, Len(o)))) = SubSeq(o, 1, k + 1)
         /\ Tail(SubSeq(o, k + 1, Len(o))) = SubSeq(o, k + 2, Len(o))
<1>1. /\ Len(SubSeq(o, k + 1, Len(o))) = Len(o) - k
      /\ Head(SubSeq(o, k + 1, Len(o))) = o[k + 1]
  OBVIOUS
<1>2. Append(SubSeq(o, 1, k), o[k + 1]) = SubSeq(o, 1, k + 1)
  OBVIOUS
<1>3. Tail(SubSeq(o, k + 1, Len(o))) = SubSeq(o, k + 2, Len(o))
  OBVIOUS
<1> QED  BY <1>1, <1>2, <1>3

\* The drive a transfer works on.
LEMMA ActiveDrive ==
  ASSUME NEW n \in Drives, fdc.selected = {n}, drives[n].present
  PROVE  WithDisk = {n} /\ Active = n
<1>1. WithDisk = {n}  BY DEF WithDisk
<1>2. n \in Nat  BY FloppyAssumption
<1> QED  BY <1>1, <1>2 DEF Active

LEMMA JobFacts ==
  ASSUME job \in Jobs
  PROVE  /\ job.drive \in Drives /\ job.length \in Nat \ {0}
         /\ job.write => job.length <= TrackLength
         /\ job = [drive |-> job.drive, cyl |-> job.cyl, side |-> job.side,
                   write |-> job.write, length |-> job.length,
                   wordsync |-> job.wordsync, whole |-> job.whole]
BY JobsAssumption DEF Job

LEMMA InitLand == Init => LandInv
<1> SUFFICES ASSUME Init  PROVE LandInv
  OBVIOUS
<1>1. \A n \in Drives : drives[n].image = Empty
  BY DEF Init, NewDrive
<1>2. Empty = [p \in Place |-> Empty[p]]  BY DEF Empty
<1>3. /\ fdc = [f \in ControllerFields |-> fdc[f]]
      /\ fdc.selected = {} /\ fdc.state = "Off"
  BY DEF Init, NewController, ControllerFields
<1>4. \A k \in Disks : host[k] = [p \in Place |-> host[k][p]]
  BY DEF Init
<1>5. expected = [n \in Drives |-> expected[n]] /\ \A n \in Drives : expected[n] = Empty
  BY DEF Init
<1>6. pc = "idle"  BY DEF Init
<1>7. Placed /\ WritesLand  BY <1>1, <1>2, <1>3, <1>4, <1>5 DEF Placed, WritesLand
<1>8. DriverInv /\ TransferInv  BY <1>3, <1>6 DEF DriverInv, TransferInv
<1> QED  BY <1>7, <1>8 DEF LandInv

\* A step that changes no image, and of the controller only what the invariant does not
\* mention, keeps the invariant while the driver stays where it is.
LEMMA MovingKeepsLand ==
  ASSUME LandInv, \A n \in Drives : Moved(drives[n], drives'[n]),
         UNCHANGED <<expected, host>>, fdc' = [f \in ControllerFields |-> fdc'[f]]
  PROVE  Placed' /\ WritesLand'
<1>1. \A n \in Drives : drives'[n].image = drives[n].image  BY DEF Moved
<1>2. WritesLand'  BY <1>1 DEF LandInv, WritesLand
<1>3. Placed'  BY <1>1 DEF LandInv, Placed
<1> QED  BY <1>2, <1>3

LEMMA WriteWordLand ==
  ASSUME Inv, LandInv, DmaCycle, WriteWord
  PROVE  LandInv'
<1> DEFINE k == job.length - fdc.length
           words == Append(fdc.buffer, Head(ram))
           done == fdc.length = 1
<1>1. /\ pc = "wait" /\ job \in Jobs /\ job.write /\ fdc.state = "Write"
      /\ fdc.length \in 1 .. job.length
      /\ fdc.buffer = SubSeq(Outgoing, 1, k)
      /\ ram = SubSeq(Outgoing, k + 1, TrackLength)
      /\ fdc.selected = {job.drive} /\ fdc.side = job.side
      /\ drives[job.drive].present /\ drives[job.drive].cyl = job.cyl /\ fdc.stepBit
  BY DEF LandInv, DriverInv, TransferInv, WriteWord
<1>2. /\ job.drive \in Drives /\ job.length \in Nat \ {0} /\ job.length <= TrackLength
      /\ k \in Nat /\ k < TrackLength /\ job.length \in 1 .. TrackLength
  BY <1>1, JobFacts, OutgoingFacts
<1>3. WithDisk = {job.drive} /\ Active = job.drive
  BY <1>1, <1>2, ActiveDrive
<1>4. /\ words = SubSeq(Outgoing, 1, k + 1)
      /\ Tail(ram) = SubSeq(Outgoing, k + 2, TrackLength)
  <2>1. PICK S : Outgoing \in Seq(S)  BY OutgoingFacts
  <2>2. Len(Outgoing) = TrackLength  BY OutgoingFacts
  <2> DEFINE o == Outgoing
  <2> HIDE DEF o
  <2>3. o \in Seq(S) /\ Len(o) = TrackLength  BY <2>1, <2>2 DEF o
  <2>4. /\ Append(SubSeq(o, 1, k), Head(SubSeq(o, k + 1, Len(o)))) = SubSeq(o, 1, k + 1)
        /\ Tail(SubSeq(o, k + 1, Len(o))) = SubSeq(o, k + 2, Len(o))
    BY <1>2, <2>3, NextWord
  <2> QED  BY <1>1, <2>3, <2>4 DEF o
<1>5. /\ fdc' = [fdc EXCEPT !.buffer = words, !.length = fdc.length - 1,
                            !.blk = FALSE, !.sync = FALSE,
                            !.state = IF done THEN "Off" ELSE fdc.state]
      /\ ram' = Tail(ram)
      /\ drives' = IF done
                   THEN [drives EXCEPT ![job.drive] = DecodeTrack(drives[job.drive], fdc.side, words)]
                   ELSE drives
      /\ expected' = IF done
                     THEN [expected EXCEPT ![job.drive] =
                             [p \in Place |-> IF p \in Overwritten(job) THEN jobs
                                              ELSE expected[job.drive][p]]]
                     ELSE expected
      /\ UNCHANGED <<pc, job, jobs, host>>
  <2>1. WithDisk # {}  BY <1>3
  <2>2. /\ ram' = Tail(ram)
        /\ drives' = IF done
                     THEN [drives EXCEPT ![Active] = DecodeTrack(@, fdc.side, words)]
                     ELSE drives
        /\ Deliver([fdc EXCEPT !.buffer = words, !.length = @ - 1, !.blk = @ \/ done,
                               !.state = IF done THEN "Off" ELSE @])
    BY <2>1 DEF WriteWord
  <2>3. expected' = IF done
                    THEN [expected EXCEPT ![job.drive] =
                            [p \in Place |-> IF p \in Overwritten(job) THEN jobs ELSE @[p]]]
                    ELSE expected
    BY <1>1, <2>1 DEF DmaCycle
  <2>4. UNCHANGED <<pc, job, jobs, host>>  BY DEF DmaCycle, driver, shelf
  <2> HIDE DEF words, done
  <2>5. fdc' = [fdc EXCEPT !.buffer = words, !.length = fdc.length - 1,
                           !.blk = FALSE, !.sync = FALSE,
                           !.state = IF done THEN "Off" ELSE fdc.state]
    BY <2>2 DEF Deliver, LandInv, Placed, ControllerFields
  <2>6. drives' = IF done
                  THEN [drives EXCEPT ![job.drive] = DecodeTrack(drives[job.drive], fdc.side, words)]
                  ELSE drives
    BY <1>2, <1>3, <2>2 DEF Inv
  <2>7. expected' = IF done
                    THEN [expected EXCEPT ![job.drive] =
                            [p \in Place |-> IF p \in Overwritten(job) THEN jobs
                                             ELSE expected[job.drive][p]]]
                    ELSE expected
    BY <1>2, <2>3 DEF LandInv, Placed
  <2> QED  BY <2>2, <2>4, <2>5, <2>6, <2>7
<1> HIDE DEF words
<1>6. /\ fdc' = [f \in ControllerFields |-> fdc'[f]]
      /\ fdc'.selected = fdc.selected /\ fdc'.side = fdc.side /\ fdc'.stepBit = fdc.stepBit
      /\ fdc'.buffer = words /\ fdc'.length = fdc.length - 1
      /\ fdc'.state = IF done THEN "Off" ELSE "Write"
  BY <1>1, <1>5 DEF LandInv, Placed, ControllerFields
<1>7. CASE done
  <2> DEFINE d == drives[job.drive]
             e == DecodeTrack(d, job.side, words)
  <2>0. k + 1 = job.length  BY <1>1, <1>2, <1>7
  <2>1. Prepared(words, job.length)
    BY <1>2, <1>4, <2>0, OutgoingPrepared
  <2>2. e.image = [p \in Place |-> IF p \in Overwritten(job) THEN jobs ELSE d.image[p]]
    <3>1. Whole(d) /\ d.cyl = job.cyl /\ d.image = [p \in Place |-> d.image[p]]
      BY <1>1, <1>2 DEF Inv, LandInv, Placed
    <3> HIDE DEF d
    <3> QED  BY <1>1, <2>1, <3>1, PreparedDecoded
  <2>3. e.cyl = d.cyl
    <3>1. Whole(d)  BY <1>2 DEF Inv
    <3>2. \A image : [d EXCEPT !.image = image, !.dirty = TRUE, !.track = << >>].cyl = d.cyl
      BY <3>1 DEF Whole, Fields
    <3> HIDE DEF d
    <3>3. e = d \/ \E image : e = [d EXCEPT !.image = image, !.dirty = TRUE, !.track = << >>]
      BY DEF DecodeTrack
    <3> QED  BY <3>2, <3>3
  <2> HIDE DEF e
  <2>4. drives' = [drives EXCEPT ![job.drive] = e]  BY <1>1, <1>5, <1>7 DEF e
  <2>5. \A n \in Drives : drives'[n] = IF n = job.drive THEN e ELSE drives[n]
    BY <1>2, <2>4 DEF Inv
  <2>6. \A n \in Drives : expected'[n] =
          IF n = job.drive
          THEN [p \in Place |-> IF p \in Overwritten(job) THEN jobs ELSE d.image[p]]
          ELSE expected[n]
    BY <1>2, <1>5, <1>7 DEF LandInv, Placed, WritesLand
  <2>7. WritesLand'  BY <2>2, <2>5, <2>6 DEF LandInv, WritesLand
  <2>8. Placed'
    <3>1. expected' = [n \in Drives |-> expected'[n]]
      BY <1>2, <1>5, <1>7 DEF LandInv, Placed
    <3>2. \A n \in Drives : drives'[n].image = [p \in Place |-> drives'[n].image[p]]
      BY <2>2, <2>5 DEF LandInv, Placed
    <3> QED  BY <1>5, <1>6, <3>1, <3>2 DEF LandInv, Placed
  <2>9. DriverInv'
    <3>1. drives'[job.drive].cyl = job.cyl  BY <1>1, <1>2, <2>3, <2>5
    <3> QED  BY <1>1, <1>5, <1>6, <3>1 DEF DriverInv
  <2>10. TransferInv'  BY <1>6, <1>7 DEF TransferInv
  <2> QED  BY <2>7, <2>8, <2>9, <2>10 DEF LandInv
<1>8. CASE ~done
  <2>1. WritesLand' /\ Placed'
    BY <1>5, <1>6, <1>8, ZenonT(30) DEF LandInv, WritesLand, Placed
  <2>2. DriverInv'  BY <1>1, <1>5, <1>6, <1>8 DEF DriverInv
  <2>3. fdc'.length \in 1 .. job.length /\ job.length - fdc'.length = k + 1
    BY <1>1, <1>2, <1>6, <1>8
  <2>4. Outgoing' = Outgoing  BY <1>5 DEF Outgoing
  <2>5. fdc'.state = "Write" /\ pc' = "wait" /\ drives'[job.drive].present
    BY <1>1, <1>5, <1>6, <1>8
  <2>6. fdc'.buffer = SubSeq(Outgoing, 1, job.length - fdc'.length)
    BY <1>4, <1>6, <2>3
  <2>7. job.length - fdc'.length + 1 = k + 2  BY <1>2, <2>3
  <2>8. ram' = SubSeq(Outgoing, job.length - fdc'.length + 1, TrackLength)
    BY <1>4, <1>5, <2>7
  <2>9. job' = job  BY <1>5
  <2> HIDE DEF k
  <2>10. TransferInv'
    BY <1>1, <2>3, <2>4, <2>5, <2>6, <2>8, <2>9 DEF TransferInv
  <2> QED  BY <2>1, <2>2, <2>10 DEF LandInv
<1> QED  BY <1>7, <1>8

\* A read changes no image and leaves the driver waiting.
LEMMA ReadWordLand ==
  ASSUME Inv, LandInv, DmaCycle, ReadWord
  PROVE  LandInv'
<1>1. /\ pc = "wait" /\ job \in Jobs /\ ~job.write /\ fdc.state = "Read"
      /\ fdc.selected = {job.drive} /\ drives[job.drive].present
      /\ fdc.selected = {job.drive} /\ fdc.side = job.side
      /\ drives[job.drive].cyl = job.cyl /\ fdc.stepBit
  BY DEF LandInv, DriverInv, TransferInv, ReadWord
<1>2. job.drive \in Drives  BY <1>1, JobFacts
<1>3. Active = job.drive  BY <1>1, <1>2, ActiveDrive
<1>4. PICK track, pos :
        drives' = [drives EXCEPT ![Active].track = track, ![Active].pos = pos]
  BY DEF ReadWord
<1>5. drives' = [drives EXCEPT ![job.drive] =
                   [drives[job.drive] EXCEPT !.track = track, !.pos = pos]]
  BY <1>2, <1>3, <1>4 DEF Inv
<1>6. \A n \in Drives : /\ drives'[n].image = drives[n].image
                        /\ drives'[n].present = drives[n].present
                        /\ drives'[n].cyl = drives[n].cyl
  BY <1>5 DEF Inv, Whole, Fields
<1>7. PICK found, passes, done :
        Deliver([fdc EXCEPT !.enable = (@ \/ found) /\ ~done, !.sync = @ \/ found,
                            !.length = IF passes THEN @ - 1 ELSE @, !.blk = @ \/ done,
                            !.state = IF done THEN "Off" ELSE @])
  BY Zenon DEF ReadWord
<1>8. /\ fdc' = [f \in ControllerFields |-> fdc'[f]]
      /\ fdc'.selected = fdc.selected /\ fdc'.side = fdc.side /\ fdc'.stepBit = fdc.stepBit
      /\ fdc'.state \in {"Off", "Read"}
  BY <1>1, <1>7 DEF Deliver, LandInv, Placed, ControllerFields
<1>9. UNCHANGED <<pc, job, jobs, host>> /\ expected' = expected
  BY <1>1 DEF DmaCycle, driver, shelf
<1>10. Placed' /\ WritesLand'
  BY <1>6, <1>8, <1>9 DEF LandInv, Placed, WritesLand
<1>11. DriverInv' /\ TransferInv'
  BY <1>1, <1>2, <1>6, <1>8, <1>9 DEF DriverInv, TransferInv
<1> QED  BY <1>10, <1>11 DEF LandInv

\* Disk changes and write-backs by the host.
LEMMA InsertLand ==
  ASSUME Inv, LandInv, NEW n \in Drives, NEW k \in Disks, Insert(n, k)
  PROVE  LandInv'
<1>1. /\ drives' = [drives EXCEPT ![n] = InsertDisk(drives[n], host[k])]
      /\ expected' = [expected EXCEPT ![n] = host[k]]
      /\ UNCHANGED <<fdc, ram, host, pc, job, jobs>>
  BY DEF Insert, driver
<1> DEFINE e == InsertDisk(drives[n], host[k])
<1>2. e.image = host[k] /\ e.present /\ e.cyl = drives[n].cyl
  BY DEF Inv, Whole, Fields, InsertDisk
<1> HIDE DEF e
<1>3. \A m \in Drives : /\ drives'[m] = IF m = n THEN e ELSE drives[m]
                        /\ expected'[m] = IF m = n THEN host[k] ELSE expected[m]
  BY <1>1 DEF Inv, LandInv, Placed, e
<1>4. expected' = [m \in Drives |-> expected'[m]]  BY <1>1 DEF LandInv, Placed
<1>5. \A m \in Drives : drives'[m].image = [p \in Place |-> drives'[m].image[p]]
  <2>1. host[k] = [p \in Place |-> host[k][p]]  BY DEF LandInv, Placed
  <2> QED  BY <1>2, <1>3, <2>1 DEF LandInv, Placed
<1>6. Placed'  BY <1>1, <1>4, <1>5 DEF LandInv, Placed
<1>7. WritesLand'  BY <1>2, <1>3 DEF LandInv, WritesLand
<1>8. DriverInv'
  <2>1. job \in Jobs => drives'[job.drive].cyl = drives[job.drive].cyl
    BY <1>2, <1>3, JobFacts
  <2> QED  BY <1>1, <2>1 DEF LandInv, DriverInv
<1>9. TransferInv'
  <2>1. Outgoing' = Outgoing  BY <1>1 DEF Outgoing
  <2>2. fdc.state # "Off" => drives'[job.drive].present
    BY <1>2, <1>3, JobFacts DEF LandInv, DriverInv, TransferInv
  <2> QED  BY <1>1, <2>1, <2>2 DEF LandInv, TransferInv
<1> QED  BY <1>6, <1>7, <1>8, <1>9 DEF LandInv

LEMMA FlushLand ==
  ASSUME Inv, LandInv, NEW n \in Drives, Flush(n)
  PROVE  LandInv'
<1>1. /\ drives' = [drives EXCEPT ![n].dirty = FALSE]
      /\ host' = [host EXCEPT ![loaded[n]] = drives[n].image]
      /\ UNCHANGED <<fdc, ram, expected, pc, job, jobs>>
  BY DEF Flush, driver
<1>2. \A m \in Drives : /\ drives'[m].image = drives[m].image
                        /\ drives'[m].present = drives[m].present
                        /\ drives'[m].cyl = drives[m].cyl
  <2> DEFINE e == [drives[n] EXCEPT !.dirty = FALSE]
  <2>1. e.image = drives[n].image /\ e.present = drives[n].present /\ e.cyl = drives[n].cyl
    BY DEF Inv, Whole, Fields
  <2>2. drives' = [drives EXCEPT ![n] = e]  BY <1>1
  <2> HIDE DEF e
  <2> QED  BY <2>1, <2>2 DEF Inv
<1>3. \A k \in Disks : host'[k] = [p \in Place |-> host'[k][p]]
  <2>1. \A k \in Disks : host'[k] = IF k = loaded[n] THEN drives[n].image ELSE host[k]
    BY <1>1 DEF Inv
  <2> QED  BY <2>1 DEF LandInv, Placed
<1>4. Placed' /\ WritesLand'
  <2>1. WritesLand'  BY <1>1, <1>2 DEF LandInv, WritesLand
  <2>2. \A m \in Drives : drives'[m].image = [p \in Place |-> drives'[m].image[p]]
    BY <1>2 DEF LandInv, Placed
  <2>3. fdc' = [f \in ControllerFields |-> fdc'[f]] /\ expected' = [m \in Drives |-> expected'[m]]
    BY <1>1 DEF LandInv, Placed
  <2> QED  BY <1>3, <2>1, <2>2, <2>3 DEF Placed
<1>5. DriverInv'
  <2>1. job \in Jobs => drives'[job.drive].cyl = drives[job.drive].cyl
    BY <1>2, JobFacts
  <2> QED  BY <1>1, <2>1 DEF LandInv, DriverInv
<1>6. TransferInv'
  <2>1. Outgoing' = Outgoing  BY <1>1 DEF Outgoing
  <2>2. fdc.state # "Off" => drives'[job.drive].present
    BY <1>2, JobFacts DEF LandInv, DriverInv, TransferInv
  <2> QED  BY <1>1, <2>1, <2>2 DEF LandInv, TransferInv
<1> QED  BY <1>4, <1>5, <1>6 DEF LandInv

LEMMA ScanlineLand ==
  ASSUME Inv, LandInv, EndScanline
  PROVE  LandInv'
<1>1. \A n \in Drives : Moved(drives[n], drives'[n]) /\ drives'[n].cyl = drives[n].cyl
  <2>1. \A n \in Drives : drives'[n] = Spin(drives[n]) /\ Whole(drives[n])
    BY DEF EndScanline, Inv
  <2> QED  BY <2>1, MechanicsMove
<1>2. /\ fdc' = [fdc EXCEPT !.sync = FALSE, !.blk = FALSE]
      /\ UNCHANGED <<ram, expected, host, pc, job, jobs>>
  BY DEF EndScanline, Deliver, driver, shelf
<1>3. /\ fdc' = [f \in ControllerFields |-> fdc'[f]]
      /\ fdc'.selected = fdc.selected /\ fdc'.side = fdc.side /\ fdc'.stepBit = fdc.stepBit
      /\ fdc'.state = fdc.state /\ fdc'.buffer = fdc.buffer /\ fdc'.length = fdc.length
  BY <1>2 DEF LandInv, Placed, ControllerFields
<1>4. Placed' /\ WritesLand'  BY <1>1, <1>2, <1>3, MovingKeepsLand
<1>5. job \in Jobs => /\ drives'[job.drive].cyl = drives[job.drive].cyl
                      /\ drives'[job.drive].present = drives[job.drive].present
  BY <1>1, JobFacts DEF Moved
<1>6. DriverInv'  BY <1>2, <1>3, <1>5 DEF LandInv, DriverInv
<1>7. Outgoing' = Outgoing  BY <1>2 DEF Outgoing
<1>8. TransferInv'  BY <1>2, <1>3, <1>5, <1>7 DEF LandInv, DriverInv, TransferInv
<1> QED  BY <1>4, <1>6, <1>8 DEF LandInv

\* While no transfer runs, the driver's steps keep the invariant if they leave it where
\* it says it is.
LEMMA SelectLand ==
  ASSUME Inv, LandInv, Select \/ Seek \/ Finish
  PROVE  LandInv'
<1>1. /\ pc # "idle" /\ job \in Jobs /\ job.drive \in Drives
      /\ UNCHANGED <<job, jobs, expected, host>>
  BY JobFacts DEF LandInv, DriverInv, Select, Seek, Finish, shelf
<1>2. CASE Select
  <2> DEFINE selected == IF fdc.motorBit THEN {job.drive} ELSE {}
  <2>1. /\ pc = "select" /\ fdc.selected = {} /\ fdc.state = "Off"
        /\ drives' = SelectedDrives(selected, TRUE, FALSE, TRUE)
        /\ fdc' = [fdc EXCEPT !.selected = selected, !.side = job.side, !.motorBit = TRUE,
                              !.stepBit = TRUE]
        /\ pc' = IF fdc.motorBit THEN "spin" ELSE "select"
    BY <1>2 DEF Select, DiskSelect, LandInv, DriverInv, TransferInv
  <2>2. \A n \in Drives : Moved(drives[n], drives'[n])  BY <2>1, SelectMoves
  <2>3. /\ fdc' = [f \in ControllerFields |-> fdc'[f]]
        /\ fdc'.selected = selected /\ fdc'.side = job.side /\ fdc'.state = "Off"
    BY <2>1 DEF LandInv, Placed, ControllerFields
  <2>4. Placed' /\ WritesLand'  BY <1>1, <2>2, <2>3, MovingKeepsLand
  <2>5. DriverInv' /\ TransferInv'  BY <1>1, <2>1, <2>3 DEF DriverInv, TransferInv
  <2> QED  BY <2>4, <2>5 DEF LandInv
<1>3. CASE Seek
  <2> DEFINE at == drives[job.drive].cyl
  <2>1. pc = "seek" /\ fdc.selected = {job.drive} /\ fdc.side = job.side /\ fdc.state = "Off"
    BY <1>3 DEF Seek, LandInv, DriverInv, TransferInv
  <2>2. CASE at = job.cyl /\ fdc.stepBit
    <3>1. pc' = "start" /\ UNCHANGED <<drives, fdc>>  BY <1>3, <2>2 DEF Seek
    <3> QED  BY <1>1, <2>1, <2>2, <3>1
             DEF LandInv, Placed, DriverInv, TransferInv, WritesLand
  <2>3. CASE ~(at = job.cyl /\ fdc.stepBit)
    <3>1. /\ pc' = "seek"
          /\ drives' = SelectedDrives({job.drive}, TRUE, at > job.cyl, ~fdc.stepBit)
          /\ fdc' = [fdc EXCEPT !.selected = {job.drive}, !.side = job.side,
                                !.motorBit = TRUE, !.stepBit = ~fdc.stepBit]
      BY <1>3, <2>1, <2>3 DEF Seek, DiskSelect
    <3>2. \A n \in Drives : Moved(drives[n], drives'[n])  BY <3>1, SelectMoves
    <3>3. /\ fdc' = [f \in ControllerFields |-> fdc'[f]]
          /\ fdc'.selected = {job.drive} /\ fdc'.side = job.side /\ fdc'.state = "Off"
      BY <2>1, <3>1 DEF LandInv, Placed, ControllerFields
    <3>4. Placed' /\ WritesLand'  BY <1>1, <3>2, <3>3, MovingKeepsLand
    <3>5. DriverInv' /\ TransferInv'  BY <1>1, <3>1, <3>3 DEF DriverInv, TransferInv
    <3> QED  BY <3>4, <3>5 DEF LandInv
  <2> QED  BY <2>2, <2>3
<1>4. CASE Finish
  <2>1. /\ pc' = "idle"
        /\ drives' = SelectedDrives({}, FALSE, FALSE, TRUE)
        /\ fdc' = [WriteDskLen(fdc, FALSE, FALSE, 0, TRUE)
                     EXCEPT !.selected = {}, !.motorBit = FALSE, !.stepBit = TRUE]
    BY <1>4 DEF Finish
  <2>2. \A n \in Drives : Moved(drives[n], drives'[n])  BY <2>1, SelectMoves
  <2>3. WriteDskLen(fdc, FALSE, FALSE, 0, TRUE) =
          [fdc EXCEPT !.started = FALSE, !.state = "Off", !.enable = FALSE]
    BY DEF WriteDskLen, LandInv, Placed, ControllerFields
  <2>4. /\ fdc' = [f \in ControllerFields |-> fdc'[f]]
        /\ fdc'.selected = {} /\ fdc'.state = "Off"
    BY <2>1, <2>3 DEF LandInv, Placed, ControllerFields
  <2>5. Placed' /\ WritesLand'  BY <1>1, <2>2, <2>4, MovingKeepsLand
  <2>6. DriverInv' /\ TransferInv'  BY <2>1, <2>4 DEF DriverInv, TransferInv
  <2> QED  BY <2>5, <2>6 DEF LandInv
<1> QED  BY <1>2, <1>3, <1>4

\* The double write of DSKLEN starts the job's transfer, or none without a disk.
LEMMA StartLand ==
  ASSUME Inv, LandInv, Start
  PROVE  LandInv'
<1>1. /\ pc = "start" /\ pc' = "wait" /\ job \in Jobs /\ job.drive \in Drives
      /\ fdc.selected = {job.drive} /\ fdc.side = job.side /\ fdc.state = "Off"
      /\ drives[job.drive].cyl = job.cyl /\ fdc.stepBit
      /\ UNCHANGED <<job, jobs, expected, host, drives>>
  BY JobFacts DEF LandInv, DriverInv, TransferInv, Start, shelf
<1> DEFINE once == WriteDskLen(fdc, TRUE, job.write, job.length, job.wordsync)
<1>2. /\ once = [f \in ControllerFields |-> once[f]] /\ once.started
      /\ once.selected = fdc.selected /\ once.side = fdc.side /\ once.stepBit = fdc.stepBit
      /\ WithDisk = {} => once.state = "Off"
  BY <1>1 DEF WriteDskLen, LandInv, Placed, ControllerFields
<1>3. /\ fdc' = WriteDskLen(once, TRUE, job.write, job.length, job.wordsync)
      /\ ram' = IF job.write THEN Outgoing ELSE << >>
  BY DEF Start
<1> HIDE DEF once
<1>4. /\ fdc' = [f \in ControllerFields |-> fdc'[f]]
      /\ fdc'.selected = fdc.selected /\ fdc'.side = fdc.side /\ fdc'.stepBit = fdc.stepBit
      /\ \/ WithDisk = {} /\ fdc'.state = "Off"
         \/ WithDisk # {} /\ ~job.write /\ fdc'.state = "Read"
         \/ /\ WithDisk # {} /\ job.write /\ fdc'.state = "Write"
            /\ fdc'.length = job.length /\ fdc'.buffer = << >>
  <2>1. CASE WithDisk = {}
    BY <1>2, <1>3, <2>1 DEF WriteDskLen, ControllerFields
  <2>2. CASE WithDisk # {} /\ job.write
    BY <1>2, <1>3, <2>2 DEF WriteDskLen, ControllerFields
  <2>3. CASE WithDisk # {} /\ ~job.write
    BY <1>2, <1>3, <2>3 DEF WriteDskLen, ControllerFields
  <2> QED  BY <2>1, <2>2, <2>3
<1>5. Placed' /\ WritesLand'  BY <1>1, <1>4 DEF LandInv, Placed, WritesLand
<1>6. DriverInv'  BY <1>1, <1>4 DEF DriverInv
<1>7. TransferInv'
  <2>1. WithDisk # {} => drives[job.drive].present  BY <1>1 DEF WithDisk
  <2>2. CASE fdc'.state # "Write"  BY <1>1, <1>4, <2>1, <2>2 DEF TransferInv
  <2>3. CASE fdc'.state = "Write"
    <3>1. job.write /\ fdc'.length = job.length /\ fdc'.buffer = << >> /\ ram' = Outgoing
      BY <1>3, <1>4, <2>3
    <3>2. job.length \in Nat /\ job.length >= 1 /\ job.length - job.length = 0
      BY <1>1, JobFacts
    <3>3. /\ SubSeq(Outgoing, 1, 0) = << >>
          /\ SubSeq(Outgoing, 1, TrackLength) = Outgoing
      <4>1. PICK S : Outgoing \in Seq(S)  BY OutgoingFacts
      <4>2. Len(Outgoing) = TrackLength  BY OutgoingFacts
      <4> DEFINE o == Outgoing
      <4>3. o \in Seq(S) /\ Len(o) = TrackLength  BY <4>1, <4>2
      <4> HIDE DEF o
      <4>4. SubSeq(o, 1, 0) = << >> /\ SubSeq(o, 1, Len(o)) = o  BY <4>3
      <4> QED  BY <4>3, <4>4 DEF o
    <3>4. Outgoing' = Outgoing  BY <1>1 DEF Outgoing
    <3>5. /\ fdc'.length \in 1 .. job.length
          /\ fdc'.buffer = SubSeq(Outgoing, 1, job.length - fdc'.length)
          /\ ram' = SubSeq(Outgoing, job.length - fdc'.length + 1, TrackLength)
      BY <3>1, <3>2, <3>3
    <3>6. drives'[job.drive].present  BY <1>1, <1>4, <2>1, <2>3
    <3> QED  BY <1>1, <2>3, <3>1, <3>4, <3>5, <3>6 DEF TransferInv
  <2> QED  BY <2>2, <2>3
<1> QED  BY <1>5, <1>6, <1>7 DEF LandInv

\* Every step of the guest and of the host keeps it.
LEMMA NextLand == Inv /\ LandInv /\ [Next]_vars => LandInv'
<1> SUFFICES ASSUME Inv, LandInv, [Next]_vars  PROVE LandInv'
  OBVIOUS
<1>1. CASE DmaCycle  BY <1>1, WriteWordLand, ReadWordLand DEF DmaCycle
<1>2. CASE EndScanline  BY <1>2, ScanlineLand
<1>3. CASE Choose
  <2>1. /\ pc = "idle" /\ pc' = "select" /\ job' \in Jobs
        /\ UNCHANGED <<drives, fdc, expected, host>>
    BY <1>3 DEF Choose, shelf
  <2> QED  BY <2>1 DEF LandInv, Placed, DriverInv, TransferInv, WritesLand
<1>4. CASE Select \/ Seek \/ Finish  BY <1>4, SelectLand
<1>5. CASE WaitReady
  <2>1. /\ pc = "spin" /\ pc' = "seek"
        /\ UNCHANGED <<drives, fdc, expected, host, job>>
    BY <1>5 DEF WaitReady, shelf
  <2> QED  BY <2>1 DEF LandInv, Placed, DriverInv, TransferInv, WritesLand
<1>6. CASE Start  BY <1>6, StartLand
<1>7. CASE \E n \in Drives, k \in Disks : Insert(n, k)  BY <1>7, InsertLand
<1>8. CASE \E n \in Drives : Flush(n)  BY <1>8, FlushLand
<1>9. CASE UNCHANGED vars \/ \E n \in Drives : Eject(n)
  <2>1. UNCHANGED <<drives, fdc, ram, host, expected>> /\ UNCHANGED driver
    BY <1>9 DEF vars, Eject, driver
  <2>2. Outgoing' = Outgoing  BY <2>1 DEF driver, Outgoing
  <2> QED  BY <2>1, <2>2 DEF driver, LandInv, Placed, DriverInv, TransferInv, WritesLand
<1> QED
  BY <1>1, <1>2, <1>3, <1>4, <1>5, <1>6, <1>7, <1>8, <1>9 DEF Next, Driver, Host

\* Whatever the driver asks for and whatever disks the host changes meanwhile, each
\* drive's image is the inserted disk with the finished writes at the places they were
\* for: no write reaches another cylinder, side or drive, and one that comes torn or with
\* a bad checksum changes nothing (disk_select, disk_dma_cycle, write_decoded_track).
THEOREM WritesAlwaysLand == Spec => []WritesLand
<1>1. LandInv => WritesLand  BY DEF LandInv
<1> QED  BY InitInv, NextInv, InitLand, NextLand, <1>1, PTL DEF Spec
-----------------------------------------------------------------------------
(* TrackFresh *)

\* A cached track is one of the cylinder the head is on, of the image as it is, and of a
\* side that was read since both are what they are.
CacheInv ==
  /\ sides = [n \in Drives |-> sides[n]]
  /\ \A n \in Drives :
       LET d == drives[n]
       IN  /\ d.pos \in 0 .. TrackLength - 1
           /\ d.track = << >> \/ \E s \in sides[n] : d.track = EncodeTrack(d.image, d.cyl, s)

\* What a step may do to a drive that does not turn on: drop the track, or leave it, the
\* head and the image alone.
Rested(d, e) ==
  /\ e.pos = d.pos
  /\ e.track = << >> \/ (e.track = d.track /\ e.cyl = d.cyl /\ e.image = d.image)

LEMMA EncodedLength ==
  ASSUME NEW image, NEW cyl, NEW side
  PROVE  Len(EncodeTrack(image, cyl, side)) = TrackLength /\ TrackLength \in Nat \ {0}
<1> DEFINE data == [s \in Sector |-> image[<<cyl, side, s>>]]
           track == 2 * cyl + side
<1>1. EncodeTrack(image, cyl, side) = TrackWords(track, data, TRUE)  BY DEF EncodeTrack
<1> HIDE DEF data, track
<1>2. Len(TrackWords(track, data, TRUE)) = TrackLength  BY TrackWordsFacts
<1>3. TrackLength \in Nat \ {0}  BY FloppyAssumption DEF TrackLength
<1> QED  BY <1>1, <1>2, <1>3

\* The track a drive has under its head at a read: the cached one or the one encoded now.
LEMMA CachedFacts ==
  ASSUME CacheInv, NEW n \in Drives
  PROVE  LET d == drives[n]
         IN  /\ \E s \in sides[n] \cup {fdc.side} : Cached(d) = EncodeTrack(d.image, d.cyl, s)
             /\ Len(Cached(d)) = TrackLength
<1> DEFINE d == drives[n]
<1>1. d.track = << >> \/ \E s \in sides[n] : d.track = EncodeTrack(d.image, d.cyl, s)
  BY DEF CacheInv
<1> HIDE DEF d
<1>2. PICK s \in sides[n] \cup {fdc.side} : Cached(d) = EncodeTrack(d.image, d.cyl, s)
  BY <1>1 DEF Cached
<1>3. Len(Cached(d)) = TrackLength  BY <1>2, EncodedLength
<1> QED  BY <1>2, <1>3 DEF d

\* The drive a read takes its words from.
LEMMA ReadDrive ==
  ASSUME LandInv, ReadWord
  PROVE  Active \in Drives
<1>1. job \in Jobs /\ fdc.selected = {job.drive} /\ drives[job.drive].present
  BY DEF LandInv, DriverInv, TransferInv, ReadWord
<1> QED  BY <1>1, JobFacts, ActiveDrive

LEMMA InitCache == Init => CacheInv
<1> SUFFICES ASSUME Init  PROVE CacheInv
  OBVIOUS
<1>1. \A n \in Drives : drives[n].track = << >> /\ drives[n].pos = 0
  BY DEF Init, NewDrive
<1>2. TrackLength \in Nat \ {0}  BY EncodedLength
<1>3. sides = [n \in Drives |-> sides[n]]  BY DEF Init
<1> QED  BY <1>1, <1>2, <1>3 DEF CacheInv

\* Drives at rest keep what is known of their tracks.
LEMMA RestKeepsCache ==
  ASSUME CacheInv, Remember, \A n \in Drives : Rested(drives[n], drives'[n])
  PROVE  CacheInv'
<1>1. ASSUME NEW n \in Drives, drives'[n].track # << >>
      PROVE  sides'[n] = sides[n]
  BY <1>1 DEF Remember, Rested
<1>2. sides' = [n \in Drives |-> sides'[n]]  BY DEF Remember
<1> QED  BY <1>1, <1>2 DEF CacheInv, Rested

\* A read caches the track it reads from and turns the disk on by one word.
LEMMA ReadCache ==
  ASSUME Inv, LandInv, CacheInv, ReadWord, Remember
  PROVE  CacheInv'
<1> DEFINE a     == Active
           d     == drives[a]
           track == Cached(d)
           pos   == (d.pos + 1) % Len(track)
<1>1. a \in Drives  BY ReadDrive
<1>2. drives' = [drives EXCEPT ![a].track = track, ![a].pos = pos]  BY DEF ReadWord
<1> HIDE DEF a
<1>3. /\ \E s \in sides[a] \cup {fdc.side} : track = EncodeTrack(d.image, d.cyl, s)
      /\ Len(track) = TrackLength
  BY <1>1, CachedFacts
<1>4. d.pos \in 0 .. TrackLength - 1  BY <1>1 DEF CacheInv
<1>5. TrackLength \in Nat /\ TrackLength >= 3  BY TrackWordsFacts
<1>6. pos \in 0 .. TrackLength - 1 /\ pos # d.pos
  <2>1. CASE d.pos = TrackLength - 1  BY <1>3, <1>5, <2>1
  <2>2. CASE d.pos < TrackLength - 1  BY <1>3, <1>4, <1>5, <2>2
  <2> QED  BY <1>4, <1>5, <2>1, <2>2
<1> HIDE DEF track, pos
<1>7. \A n \in Drives : drives'[n] = IF n = a THEN [d EXCEPT !.track = track, !.pos = pos]
                                     ELSE drives[n]
  BY <1>1, <1>2 DEF Inv
<1>8. /\ drives'[a].track = track /\ drives'[a].pos = pos
      /\ drives'[a].image = d.image /\ drives'[a].cyl = d.cyl
  BY <1>1, <1>7 DEF Inv, Whole, Fields
<1>9. sides'[a] = sides[a] \cup {fdc.side}
  BY <1>1, <1>6, <1>8 DEF Remember
<1>10. \A n \in Drives : n # a => sides'[n] = sides[n]
  BY <1>7 DEF Remember
<1>11. sides' = [n \in Drives |-> sides'[n]]  BY DEF Remember
<1>12. ASSUME NEW n \in Drives
       PROVE  LET e == drives'[n]
              IN  /\ e.pos \in 0 .. TrackLength - 1
                  /\ \/ e.track = << >>
                     \/ \E s \in sides'[n] : e.track = EncodeTrack(e.image, e.cyl, s)
  <2>1. CASE n = a  BY <1>3, <1>6, <1>8, <1>9, <2>1
  <2>2. CASE n # a  BY <1>7, <1>10, <2>2 DEF CacheInv
  <2> QED  BY <2>1, <2>2
<1> QED  BY <1>11, <1>12 DEF CacheInv

\* A decoded track is dropped from the cache.
LEMMA WriteRests ==
  ASSUME Inv, WriteWord
  PROVE  \A n \in Drives : Rested(drives[n], drives'[n])
<1>1. \/ drives' = drives
      \/ \E words : drives' = [drives EXCEPT ![Active] = DecodeTrack(@, fdc.side, words)]
  BY DEF WriteWord
<1>2. CASE drives' = drives  BY <1>2 DEF Rested
<1>3. CASE \E words : drives' = [drives EXCEPT ![Active] = DecodeTrack(@, fdc.side, words)]
  <2>1. PICK words : drives' = [drives EXCEPT ![Active] = DecodeTrack(@, fdc.side, words)]
    BY <1>3
  <2>2. ASSUME NEW d, Whole(d)  PROVE Rested(d, DecodeTrack(d, fdc.side, words))
    <3>1. \/ DecodeTrack(d, fdc.side, words) = d
          \/ \E image : DecodeTrack(d, fdc.side, words) =
                          [d EXCEPT !.image = image, !.dirty = TRUE, !.track = << >>]
      BY DEF DecodeTrack
    <3>2. ASSUME NEW image
          PROVE  Rested(d, [d EXCEPT !.image = image, !.dirty = TRUE, !.track = << >>])
      BY <2>2 DEF Whole, Fields, Rested
    <3>3. Rested(d, d)  BY DEF Rested
    <3> DEFINE e == DecodeTrack(d, fdc.side, words)
    <3>4. \/ e = d
          \/ \E image : e = [d EXCEPT !.image = image, !.dirty = TRUE, !.track = << >>]
      BY <3>1
    <3> HIDE DEF e
    <3>5. Rested(d, e)
      <4>1. CASE e = d  BY <3>3, <4>1
      <4>2. CASE \E image : e = [d EXCEPT !.image = image, !.dirty = TRUE, !.track = << >>]
        BY <3>2, <4>2
      <4> QED  BY <3>4, <4>1, <4>2
    <3> QED  BY <3>5 DEF e
  <2> DEFINE a == Active
             e == DecodeTrack(drives[a], fdc.side, words)
  <2>3. drives' = [drives EXCEPT ![a] = e]  BY <2>1
  <2> HIDE DEF a
  <2>4. a \in Drives => Rested(drives[a], e)  BY <2>2 DEF Inv
  <2> HIDE DEF e
  <2> QED  BY <2>3, <2>4 DEF Inv, Rested
<1> QED  BY <1>1, <1>2, <1>3

\* An inserted disk has no cached track; a flush and an ejection leave it.
LEMMA HostRests ==
  ASSUME Inv, Host
  PROVE  \A n \in Drives : Rested(drives[n], drives'[n])
<1>0. \A n \in Drives : Whole(drives[n])  BY DEF Inv
<1>1. CASE \E n \in Drives, k \in Disks : Insert(n, k)
  <2>1. PICK n \in Drives, k \in Disks : Insert(n, k)  BY <1>1
  <2> DEFINE e == InsertDisk(drives[n], host[k])
  <2>2. drives' = [drives EXCEPT ![n] = e]  BY <2>1 DEF Insert
  <2>3. Rested(drives[n], e)  BY <1>0 DEF InsertDisk, Whole, Fields, Rested
  <2> HIDE DEF e
  <2> QED  BY <2>2, <2>3 DEF Inv, Rested
<1>2. CASE \E n \in Drives : Eject(n)  BY <1>2 DEF Eject, Rested
<1>3. CASE \E n \in Drives : Flush(n)
  <2>1. PICK n \in Drives : Flush(n)  BY <1>3
  <2> DEFINE e == [drives[n] EXCEPT !.dirty = FALSE]
  <2>2. drives' = [drives EXCEPT ![n] = e]  BY <2>1 DEF Flush
  <2>3. Rested(drives[n], e)  BY <1>0 DEF Whole, Fields, Rested
  <2> HIDE DEF e
  <2> QED  BY <2>2, <2>3 DEF Inv, Rested
<1> QED  BY <1>1, <1>2, <1>3 DEF Host

LEMMA NextCache == Inv /\ LandInv /\ CacheInv /\ Next => CacheInv'
<1> SUFFICES ASSUME Inv, LandInv, CacheInv, Next  PROVE CacheInv'
  OBVIOUS
<1>0. Remember /\ \A n \in Drives : Whole(drives[n])  BY DEF Inv, Next
<1>1. CASE ReadWord  BY <1>0, <1>1, ReadCache
<1>2. CASE \A n \in Drives : Rested(drives[n], drives'[n])  BY <1>0, <1>2, RestKeepsCache
<1>3. CASE \A n \in Drives : Moved(drives[n], drives'[n])
  <2>1. \A n \in Drives : Rested(drives[n], drives'[n])  BY <1>3 DEF Moved, Rested
  <2> QED  BY <1>2, <2>1
<1>4. CASE WriteWord  BY <1>2, <1>4, WriteRests
<1>5. CASE EndScanline  BY <1>0, <1>3, <1>5, MechanicsMove DEF EndScanline
<1>6. CASE UNCHANGED drives  BY <1>2, <1>6 DEF Rested
<1>7. CASE Select  BY <1>3, <1>7, SelectMoves DEF Select, DiskSelect
<1>8. CASE Seek
  <2>1. CASE drives[job.drive].cyl = job.cyl /\ fdc.stepBit
    BY <1>6, <1>8, <2>1 DEF Seek
  <2>2. CASE ~(drives[job.drive].cyl = job.cyl /\ fdc.stepBit)
    BY <1>3, <1>8, <2>2, SelectMoves DEF Seek, DiskSelect
  <2> QED  BY <2>1, <2>2
<1>9. CASE Finish  BY <1>3, <1>9, SelectMoves DEF Finish
<1>10. CASE Host  BY <1>2, <1>10, HostRests
<1>11. CASE Choose \/ WaitReady \/ Start
  BY <1>6, <1>11 DEF Choose, WaitReady, Start
<1> QED
  BY <1>1, <1>4, <1>5, <1>7, <1>8, <1>9, <1>10, <1>11 DEF Next, Driver, DmaCycle

\* The block interrupt is raised once, when the transfer of the waiting driver is over.
BlockInv ==
  /\ fdc.blk \in BOOLEAN
  /\ fdc.blk \/ "DSKBLK" \in intreq => pc = "wait" /\ fdc.state = "Off"
  /\ ~(fdc.blk /\ "DSKBLK" \in intreq)

LEMMA NextBlock == Inv /\ LandInv /\ BlockInv /\ [Next]_vars => BlockInv'
<1> SUFFICES ASSUME Inv, LandInv, BlockInv, [Next]_vars  PROVE BlockInv'
  OBVIOUS
<1>0. fdc = [f \in ControllerFields |-> fdc[f]]  BY DEF LandInv, Placed
<1>1. CASE DmaCycle
  <2>1. fdc.state # "Off" /\ pc = "wait" /\ UNCHANGED pc
    BY <1>1 DEF DmaCycle, WriteWord, ReadWord, LandInv, TransferInv, driver
  <2>2. ~fdc.blk /\ "DSKBLK" \notin intreq  BY <2>1 DEF BlockInv
  <2>3. \E c : Deliver(c) /\ c = [f \in ControllerFields |-> c[f]]
                          /\ c.blk \in BOOLEAN /\ (c.blk => c.state = "Off")
    <3>1. CASE WriteWord
      <4>1. CASE WithDisk = {}
        <5> DEFINE c == [fdc EXCEPT !.state = "Off", !.blk = TRUE]
        <5>1. Deliver(c)  BY <3>1, <4>1 DEF WriteWord
        <5>2. c = [f \in ControllerFields |-> c[f]] /\ c.blk \in BOOLEAN /\ c.state = "Off"
          BY <1>0 DEF ControllerFields
        <5> HIDE DEF c
        <5> QED  BY <5>1, <5>2
      <4>2. CASE WithDisk # {}
        <5>1. \E words, done : Deliver([fdc EXCEPT !.buffer = words, !.length = @ - 1,
                                          !.blk = @ \/ done, !.state = IF done THEN "Off" ELSE @])
                               /\ done \in BOOLEAN
          <6> DEFINE words == Append(fdc.buffer, Head(ram))
                     done  == fdc.length = 1
          <6>1. Deliver([fdc EXCEPT !.buffer = words, !.length = @ - 1,
                                    !.blk = @ \/ done, !.state = IF done THEN "Off" ELSE @])
            BY <3>1, <4>2 DEF WriteWord
          <6>2. done \in BOOLEAN  OBVIOUS
          <6> HIDE DEF words, done
          <6> QED  BY <6>1, <6>2
        <5>2. PICK words, done : Deliver([fdc EXCEPT !.buffer = words, !.length = @ - 1,
                                          !.blk = @ \/ done, !.state = IF done THEN "Off" ELSE @])
                               /\ done \in BOOLEAN
          BY <5>1
        <5> DEFINE c == [fdc EXCEPT !.buffer = words, !.length = @ - 1,
                                    !.blk = @ \/ done, !.state = IF done THEN "Off" ELSE @]
        <5>3. c = [f \in ControllerFields |-> c[f]] /\ c.blk \in BOOLEAN /\ (c.blk => c.state = "Off")
          BY <1>0, <2>2, <5>2 DEF ControllerFields, BlockInv
        <5>4. Deliver(c)  BY <5>2
        <5> HIDE DEF c
        <5> QED  BY <5>3, <5>4
      <4> QED  BY <4>1, <4>2
    <3>2. CASE ReadWord
      <4>1. \E found, passes, done :
              Deliver([fdc EXCEPT !.enable = (@ \/ found) /\ ~done, !.sync = @ \/ found,
                                  !.length = IF passes THEN @ - 1 ELSE @, !.blk = @ \/ done,
                                  !.state = IF done THEN "Off" ELSE @])
              /\ done \in BOOLEAN
        <5> DEFINE d      == drives[Active]
                   track  == Cached(d)
                   word   == track[(d.pos % Len(track)) + 1]
                   found  == ~fdc.enable /\ word = Sync
                   passes == (fdc.enable \/ found) /\ fdc.length > 0
                   done   == passes /\ fdc.length = 1
        <5>1. Deliver([fdc EXCEPT !.enable = (@ \/ found) /\ ~done, !.sync = @ \/ found,
                                  !.length = IF passes THEN @ - 1 ELSE @, !.blk = @ \/ done,
                                  !.state = IF done THEN "Off" ELSE @])
          BY <3>2, Zenon DEF ReadWord
        <5>2. done \in BOOLEAN  OBVIOUS
        <5> HIDE DEF found, passes, done
        <5> QED  BY <5>1, <5>2, ZenonT(30)
      <4>2. PICK found, passes, done :
              Deliver([fdc EXCEPT !.enable = (@ \/ found) /\ ~done, !.sync = @ \/ found,
                                  !.length = IF passes THEN @ - 1 ELSE @, !.blk = @ \/ done,
                                  !.state = IF done THEN "Off" ELSE @])
              /\ done \in BOOLEAN
        BY <4>1
      <4> DEFINE c == [fdc EXCEPT !.enable = (@ \/ found) /\ ~done, !.sync = @ \/ found,
                                  !.length = IF passes THEN @ - 1 ELSE @, !.blk = @ \/ done,
                                  !.state = IF done THEN "Off" ELSE @]
      <4>3. c = [f \in ControllerFields |-> c[f]] /\ c.blk \in BOOLEAN /\ (c.blk => c.state = "Off")
        BY <1>0, <2>2, <4>2 DEF ControllerFields, BlockInv
      <4>4. Deliver(c)  BY <4>2
      <4> HIDE DEF c
      <4> QED  BY <4>3, <4>4
    <3> QED  BY <1>1, <3>1, <3>2 DEF DmaCycle
  <2>4. PICK c : Deliver(c) /\ c = [f \in ControllerFields |-> c[f]]
                            /\ c.blk \in BOOLEAN /\ (c.blk => c.state = "Off")
    BY <2>3
  <2>5. fdc'.blk = FALSE /\ fdc'.state = c.state
    BY <2>4 DEF Deliver, ControllerFields
  <2>6. "DSKBLK" \in intreq' => c.blk  BY <2>2, <2>4 DEF Deliver
  <2> QED  BY <2>1, <2>4, <2>5, <2>6 DEF BlockInv
<1>2. CASE EndScanline
  <2>1. fdc'.blk = FALSE /\ fdc'.state = fdc.state /\ pc' = pc
        /\ ("DSKBLK" \in intreq' => fdc.blk \/ "DSKBLK" \in intreq)
    BY <1>0, <1>2 DEF EndScanline, Deliver, ControllerFields, driver
  <2> QED  BY <2>1 DEF BlockInv
<1>3. CASE Choose  BY <1>3 DEF Choose, BlockInv
<1>4. CASE Select \/ Seek
  <2>1. fdc'.blk = fdc.blk /\ intreq' = intreq /\ pc # "wait"
    BY <1>0, <1>4 DEF Select, Seek, DiskSelect, ControllerFields
  <2> QED  BY <2>1 DEF BlockInv
<1>5. CASE WaitReady  BY <1>5 DEF WaitReady, BlockInv
<1>6. CASE Start
  <2>1. ~fdc.blk /\ pc' = "wait" /\ intreq' = {}  BY <1>6 DEF Start, BlockInv
  <2> DEFINE once == WriteDskLen(fdc, TRUE, job.write, job.length, job.wordsync)
  <2>2. once = [f \in ControllerFields |-> once[f]] /\ once.started /\ once.blk \in BOOLEAN
        /\ (once.blk => WithDisk = {})
    BY <1>0, <2>1 DEF WriteDskLen, ControllerFields, BlockInv
  <2>3. fdc' = WriteDskLen(once, TRUE, job.write, job.length, job.wordsync)
    BY <1>6 DEF Start
  <2> HIDE DEF once
  <2>4. fdc'.blk \in BOOLEAN /\ (fdc'.blk => fdc'.state = "Off")
    <3>1. CASE WithDisk = {}
      BY <2>2, <2>3, <3>1 DEF WriteDskLen, ControllerFields
    <3>2. CASE WithDisk # {} /\ job.write
      BY <2>2, <2>3, <3>2 DEF WriteDskLen, ControllerFields
    <3>3. CASE WithDisk # {} /\ ~job.write
      BY <2>2, <2>3, <3>3 DEF WriteDskLen, ControllerFields
    <3> QED  BY <3>1, <3>2, <3>3
  <2> QED  BY <2>1, <2>4 DEF BlockInv
<1>7. CASE Finish
  <2>1. ~fdc.blk /\ fdc.blk \in BOOLEAN /\ "DSKBLK" \notin intreq'
    BY <1>7 DEF Finish, BlockInv
  <2>2. fdc'.blk = fdc.blk
    BY <1>0, <1>7 DEF Finish, WriteDskLen, ControllerFields
  <2> QED  BY <2>1, <2>2 DEF BlockInv
<1>8. CASE \E n \in Drives, k \in Disks : Insert(n, k)
  BY <1>8 DEF Insert, driver, BlockInv
<1>9. CASE \E n \in Drives : Eject(n) \/ Flush(n)
  BY <1>9 DEF Eject, Flush, driver, BlockInv
<1>10. CASE UNCHANGED vars  BY <1>10 DEF vars, BlockInv
<1> QED
  BY <1>1, <1>2, <1>3, <1>4, <1>5, <1>6, <1>7, <1>8, <1>9, <1>10 DEF Next, Driver, Host

\* Only a read brings words into memory while the controller reads, and the word is the
\* one under the head of a track of that cylinder.
LEMMA ReadServes ==
  ASSUME Inv, LandInv, CacheInv, BlockInv, [Next]_vars, NEW n \in Drives,
         ram' # ram, fdc.state = "Read", WithDisk # {}, n = Active
  PROVE  LET d == drives[n]
         IN  \E s \in sides'[n] : Last(ram') = EncodeTrack(d.image, d.cyl, s)[d.pos + 1]
<1>1. pc = "wait"  BY DEF LandInv, TransferInv
<1>2. CASE DmaCycle /\ Remember
  <2>1. ReadWord  BY <1>2 DEF DmaCycle, WriteWord
  <2> DEFINE d     == drives[n]
             track == Cached(d)
             pos   == (d.pos + 1) % Len(track)
             word  == track[(d.pos % Len(track)) + 1]
  <2>2. ram' = Append(ram, word)  BY <2>1 DEF ReadWord
  <2>3. Len(track) = TrackLength /\ TrackLength \in Nat /\ TrackLength >= 3
    BY CachedFacts, TrackWordsFacts
  <2>4. PICK s \in sides[n] \cup {fdc.side} : track = EncodeTrack(d.image, d.cyl, s)
    BY CachedFacts
  <2>5. d.pos \in 0 .. TrackLength - 1  BY DEF CacheInv
  <2>6. d.pos % Len(track) = d.pos  BY <2>3, <2>5
  <2>7. pos # d.pos
    <3>1. CASE d.pos = TrackLength - 1  BY <2>3, <3>1
    <3>2. CASE d.pos < TrackLength - 1  BY <2>3, <2>5, <3>2
    <3> QED  BY <2>3, <2>5, <3>1, <3>2
  <2>8. drives' = [drives EXCEPT ![n].track = track, ![n].pos = pos]
    BY <2>1 DEF ReadWord
  <2> HIDE DEF track
  <2>9. word = EncodeTrack(d.image, d.cyl, s)[d.pos + 1]  BY <2>4, <2>6
  <2> HIDE DEF word, pos
  <2>10. /\ drives'[n].pos = pos
         /\ drives'[n].image = d.image /\ drives'[n].cyl = d.cyl
    <3>1. drives'[n] = [d EXCEPT !.track = track, !.pos = pos]  BY <2>8 DEF Inv
    <3> QED  BY <3>1 DEF Inv, Whole, Fields
  <2>11. sides'[n] = sides[n] \cup {fdc.side}
    BY <1>2, <2>7, <2>10 DEF Remember
  <2>12. Last(Append(ram, word)) = word
    BY DEF Last
  <2> QED  BY <2>2, <2>4, <2>9, <2>11, <2>12
<1>3. CASE Finish  BY <1>3 DEF Finish, BlockInv
<1> QED
  BY <1>1, <1>2, <1>3
  DEF Next, Driver, Host, EndScanline, Choose, Select, WaitReady, Seek, Start, Insert, Eject,
      Flush, vars

\* Every word a read brings into memory is under the head of the drive, of the disk that
\* is in it and as last written, on the cylinder the head is on, and of a side read since:
\* never one of a track cached before a step to another cylinder, before a write or before
\* a disk change (disk_dma_cycle, disk_select, write_decoded_track, insert_disk).  Of the
\* side alone the code does not take care: TrackServed, which asks for the selected one,
\* is false of it.
THEOREM TracksAreFresh == Spec => TrackFresh
<1>1. CacheInv /\ UNCHANGED vars => CacheInv'  BY DEF CacheInv, vars
<1>2. Inv /\ LandInv /\ CacheInv /\ [Next]_vars => CacheInv'  BY <1>1, NextCache
<1>3. Inv /\ LandInv /\ CacheInv /\ BlockInv /\ [Next]_vars =>
        [\A n \in Drives :
           LET d == drives[n]
               Fresh(word) == \E s \in sides'[n] :
                                word = EncodeTrack(d.image, d.cyl, s)[d.pos + 1]
           IN  Serves(n, Fresh)]_vars
  BY ReadServes DEF Serves
<1>4. Init => BlockInv  BY DEF Init, NewController, BlockInv
<1> QED
  BY InitInv, NextInv, InitLand, NextLand, InitCache, NextBlock, <1>2, <1>3, <1>4, PTL
  DEF Spec, TrackFresh
=============================================================================
