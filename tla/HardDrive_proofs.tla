-------------------------- MODULE HardDrive_proofs --------------------------
(***************************************************************************)
(* Theorems about HardDrive, for every image, geometry and set of requests.  *)
(*   UnsavedAlwaysDirty     no byte the guest has written is ever thought to *)
(*                          be on the host when it is not                    *)
(*   DrqIsTruthful          the drive asks for data exactly while there is   *)
(*                          some left to move                                *)
(*   DriveImplementsVolume  the drive is a Volume: requests take effect      *)
(*                          whole, at their end, or not at all               *)
(* The first needs Inv alone.  The others rest on Protocol, which says that   *)
(* drive and driver count the same bytes of the same sectors.                *)
(***************************************************************************)
EXTENDS HardDrive, TLAPS

Fields == {"status", "error", "nsector", "sector", "cyl", "head", "lba", "slave", "nIEN",
           "SRST", "command", "buffer", "index", "direction", "disk", "present", "dirty",
           "irq", "heads", "track"}

\* d is a drive with an image in it; what its registers hold does not matter.
Mounted(d) == /\ d = [f \in Fields |-> d[f]]
              /\ d.present = TRUE /\ d.dirty \in BOOLEAN

\* From d to e the image is either untouched, with its flag, or flagged.
Tracked(d, e) == /\ Mounted(e)
                 /\ e.dirty = TRUE \/ (e.disk = d.disk /\ e.dirty = d.dirty)

\* The inductive invariant.  UnsavedIsDirty alone is not inductive: a commit flags the
\* image only when one is present.
Inv == Mounted(ata) /\ UnsavedIsDirty
-----------------------------------------------------------------------------
(* The registers *)

\* A drive just made, with an image and a geometry.
MadeWith(image, heads, track) ==
  [NewController EXCEPT !.disk = image, !.present = TRUE, !.dirty = FALSE,
                        !.heads = heads, !.track = track]

\* InsertDisk leaves a drive with the geometry it found (insert_disk).
LEMMA InsertDiskMakes ==
  ASSUME NEW headers, NEW image
  PROVE  InsertDisk(NewController, image, headers)
           = MadeWith(image, GeometryOf(headers, Len(image)).heads,
                             GeometryOf(headers, Len(image)).track)
  BY DEF InsertDisk, MadeWith

\* A drive made so is mounted, idle and out of any transfer.
LEMMA MadeMounted ==
  ASSUME NEW image, NEW heads, NEW track
  PROVE  LET d == MadeWith(image, heads, track)
         IN  /\ Mounted(d) /\ d.disk = image /\ d.heads = heads /\ d.track = track
             /\ d.status = {"DRDY", "DSC"} /\ d.direction = "None"
             /\ d.SRST = NewController.SRST
<1> DEFINE n == NewController
<1>1. /\ n = [f \in Fields |-> n[f]]
      /\ n.status = {"DRDY", "DSC"} /\ n.direction = "None"
  BY DEF NewController, Fields
<1> DEFINE d == MadeWith(image, heads, track)
<1>2. d = [n EXCEPT !.disk = image, !.present = TRUE, !.dirty = FALSE,
                    !.heads = heads, !.track = track]
  BY DEF MadeWith
<1> HIDE DEF n, d
<1>3. /\ Mounted(d) /\ d.disk = image /\ d.heads = heads /\ d.track = track
      /\ d.status = {"DRDY", "DSC"} /\ d.direction = "None"
      /\ d.SRST = n.SRST
  BY <1>1, <1>2 DEF Mounted, Fields
<1> QED  BY <1>3 DEF d, n

\* Whatever the blocks of an image claim, the geometry taken from them fits the drive's
\* registers and is not zero (detect_rdb_geometry, rdb_geometry_supported): the casts
\* of insert_disk lose nothing, and current_lba never multiplies by zero.
THEOREM GeometryFits ==
  ASSUME NEW headers \in [0 .. RdbScanBlocks - 1 -> RdbHeader], NEW size
  PROVE  /\ GeometryOf(headers, size).heads \in Nat \ {0}
         /\ GeometryOf(headers, size).heads <= 255
         /\ GeometryOf(headers, size).track \in Nat \ {0}
         /\ GeometryOf(headers, size).track <= 65535
<1> DEFINE found(b) == b < size \div SectorBytes /\ headers[b].identified
           first(b) == found(b) /\ \A c \in 0 .. b - 1 : ~found(c)
           usable == {b \in 0 .. RdbScanBlocks - 1 :
                        first(b) /\ Usable(headers[b], b * SectorBytes, size)}
<1>1. CASE usable = {}
  <2>1. GeometryOf(headers, size) = FallbackGeometry  BY <1>1 DEF GeometryOf
  <2> QED  BY <2>1 DEF FallbackGeometry
<1>2. CASE usable # {}
  <2>1. PICK b \in usable :
          GeometryOf(headers, size) = [heads |-> headers[b].heads, track |-> headers[b].sectors]
    BY <1>2 DEF GeometryOf
  <2>2. b \in 0 .. RdbScanBlocks - 1 /\ Usable(headers[b], b * SectorBytes, size)
    BY <2>1
  <2> HIDE DEF usable
  <2>3. headers[b].heads \in Nat /\ headers[b].sectors \in Nat
    BY <2>2 DEF RdbHeader
  <2>4. /\ headers[b].heads # 0 /\ headers[b].heads <= 255
        /\ headers[b].sectors # 0 /\ headers[b].sectors <= 65535
    BY <2>2 DEF Usable
  <2> QED  BY <2>1, <2>3, <2>4
<1> QED  BY <1>1, <1>2

\* A software reset, and its end, leave the image alone (write_control).
LEMMA ControlTracks ==
  ASSUME NEW d, Mounted(d), NEW srst \in BOOLEAN, NEW nien \in BOOLEAN
  PROVE  Tracked(d, WriteControl(d, srst, nien))
  BY ZenonT(30) DEF WriteControl, Tracked, Mounted, Fields

\* So do the select register and the rest of the taskfile, one after the other.
LEMMA TaskfileTracks ==
  ASSUME NEW d, Mounted(d), NEW head, NEW lba, NEW slave, NEW n, NEW sector, NEW cyl
  PROVE  Tracked(d, WriteTaskfile(WriteSelect(d, head, lba, slave), n, sector, cyl))
<1> DEFINE s == WriteSelect(d, head, lba, slave)
<1>1. Mounted(s) /\ s.disk = d.disk /\ s.dirty = d.dirty
  BY DEF WriteSelect, Mounted, Fields
<1>2. ASSUME NEW x, Mounted(x)  PROVE Tracked(x, WriteTaskfile(x, n, sector, cyl))
  BY <1>2 DEF WriteTaskfile, Tracked, Mounted, Fields
<1> QED  BY <1>1, <1>2 DEF Tracked

\* So does every command, whatever it starts: write_command only prepares a transfer.
LEMMA CommandTracks ==
  ASSUME NEW d, Mounted(d), NEW cmd
  PROVE  Tracked(d, WriteCommand(d, cmd))
<1> DEFINE e == [d EXCEPT !.command = cmd, !.status = @ \ {"ERR"}, !.error = 1]
           Same(x) == Mounted(x) /\ x.disk = d.disk /\ x.dirty = d.dirty
<1>1. Same(d) /\ Same(e)  BY DEF Mounted, Fields
<1>2. ASSUME NEW x, Same(x), NEW direction, NEW bytes
      PROVE  /\ Same(StartTransfer(x, direction, bytes))
             /\ Same([StartTransfer(x, direction, bytes) EXCEPT !.irq = TRUE])
  <2>1. Same(StartTransfer(x, direction, bytes))
    BY <1>2 DEF StartTransfer, Mounted, Fields
  <2>2. ASSUME NEW y, Same(y)  PROVE Same([y EXCEPT !.irq = TRUE])
    BY <2>2 DEF Mounted, Fields
  <2> QED  BY <2>1, <2>2
<1>3. Same(Finish(e))  BY <1>1, ZenonT(30) DEF Finish, Mounted, Fields
<1>4. Same([Finish(e) EXCEPT !.heads = d.head + 1, !.track = d.nsector])
  BY <1>3 DEF Mounted, Fields
<1>5. Same([Finish(e) EXCEPT !.nsector = 1, !.sector = 1, !.cyl = 0])
  BY <1>3 DEF Mounted, Fields
<1>6. Same([Finish(e) EXCEPT !.sector = 1, !.cyl = 0])  BY <1>3 DEF Mounted, Fields
<1>7. Same([Finish(e) EXCEPT !.status = @ \cup {"ERR"}, !.error = 4])
  BY <1>3 DEF Mounted, Fields
<1> HIDE DEF e, Same
<1>8. Same(WriteCommand(d, cmd))
  BY <1>1, <1>2, <1>3, <1>4, <1>5, <1>6, <1>7 DEF WriteCommand, e
<1> QED  BY <1>8 DEF Same, Tracked
-----------------------------------------------------------------------------
(* The data port *)

\* Reading data leaves the image alone (read_data_word, read_data_byte).
LEMMA ReadTracks ==
  ASSUME NEW d, Mounted(d), NEW n
  PROVE  Tracked(d, AfterRead(d, n)) /\ Tracked(d, ReadDataByte(d))
<1>1. ASSUME NEW m  PROVE Tracked(d, AfterRead(d, m))
  BY DEF AfterRead, Tracked, Mounted, Fields
<1>2. Tracked(d, d)  BY DEF Tracked
<1> QED  BY <1>1, <1>2 DEF ReadDataByte

\* Writing data flags the image with the byte that completes the transfer, and that
\* byte only changes it (write_data_word, write_data_byte).
LEMMA WriteTracks ==
  ASSUME NEW d, Mounted(d)
  PROVE  /\ \A bytes : Tracked(d, AfterWrite(d, bytes))
         /\ \A byte : Tracked(d, WriteDataByte(d, byte))
<1>1. Tracked(d, d)  BY DEF Tracked
<1>2. ASSUME NEW bytes  PROVE Tracked(d, AfterWrite(d, bytes))
  <2> DEFINE next == d.index + Len(bytes)
             e    == [d EXCEPT !.buffer = Filled(d, bytes), !.index = next]
  <2>1. Mounted(e) /\ e.disk = d.disk /\ e.dirty = d.dirty  BY DEF Mounted, Fields
  <2>2. Mounted(Commit(e)) /\ Commit(e).dirty = TRUE
    BY <2>1, ZenonT(30) DEF Commit, Mounted, Fields
  <2>3. LET f == [e EXCEPT !.irq = @ \/ Boundary(next)]
        IN  Mounted(f) /\ f.disk = d.disk /\ f.dirty = d.dirty
    BY <2>1 DEF Mounted, Fields
  <2>4. AfterWrite(d, bytes) \in {d, Commit(e), [e EXCEPT !.irq = @ \/ Boundary(next)]}
    BY DEF AfterWrite
  <2> HIDE DEF e, next
  <2> QED  BY <1>1, <2>2, <2>3, <2>4 DEF Tracked
<1> QED  BY <1>1, <1>2 DEF WriteDataByte
-----------------------------------------------------------------------------
(* The system *)

\* The driver's next request is one of its jobs, written to the master's registers.
LEMMA SetUpWrites ==
  ASSUME SetUp
  PROVE  \E j \in Jobs : \E head, lba, n, sector, cyl :
           job' = j /\ ata' = WriteTaskfile(WriteSelect(ata, head, lba, FALSE), n, sector, cyl)
<1>1. PICK j \in Jobs : job' = j /\ ata' = Addressing(j)
  BY DEF SetUp
<1>2. \E n, sector, cyl : ata' = WriteTaskfile(Selected(j), n, sector, cyl)
  BY <1>1 DEF Addressing
<1>3. \E head, lba : Selected(j) = WriteSelect(ata, head, lba, FALSE)
  BY DEF Selected
<1> QED  BY <1>1, <1>2, <1>3

\* The image is mounted from the host's file: nothing is unsaved.
LEMMA InitInv == Init => Inv
<1> SUFFICES ASSUME Init  PROVE Inv
  OBVIOUS
<1>1. PICK headers \in Headers : ata = InsertDisk(NewController, Image, headers)
  BY DEF Init
<1>2. Mounted(ata) /\ ata.disk = Image
  <2> DEFINE g == GeometryOf(headers, Len(Image))
  <2>1. ata = MadeWith(Image, g.heads, g.track)  BY <1>1, InsertDiskMakes
  <2> HIDE DEF g
  <2> QED  BY <2>1, MadeMounted
<1>3. host = Image  BY DEF Init
<1> QED  BY <1>2, <1>3 DEF Inv, UnsavedIsDirty

\* A step that keeps the host's image and tracks the drive's keeps the invariant.
LEMMA TrackingKeepsInv ==
  ASSUME Inv, Tracked(ata, ata'), host' = host
  PROVE  Inv'
  BY DEF Inv, UnsavedIsDirty, Tracked, Mounted

\* Every step of the guest and of the host keeps the invariant.
LEMMA NextInv == Inv /\ [Next]_vars => Inv'
<1> SUFFICES ASSUME Inv, [Next]_vars  PROVE Inv'
  OBVIOUS
<1>a. Mounted(ata)  BY DEF Inv
<1>b. Tracked(ata, ata)  BY <1>a DEF Tracked
<1>c. ASSUME NEW r, r = [ata EXCEPT !.irq = FALSE]  PROVE Tracked(ata, r)
  BY <1>a, <1>c DEF Tracked, Mounted, Fields
<1>1. CASE SetUp
  <2>1. PICK head, lba, n, sector, cyl :
          ata' = WriteTaskfile(WriteSelect(ata, head, lba, FALSE), n, sector, cyl)
    BY <1>1, SetUpWrites
  <2>2. Tracked(ata, ata')  BY <1>a, <2>1, TaskfileTracks
  <2> QED  BY <1>1, <2>2, TrackingKeepsInv DEF SetUp
<1>2. CASE IssueCommand
  BY <1>2, <1>a, CommandTracks, TrackingKeepsInv DEF IssueCommand
<1>3. CASE Poll
  BY <1>3, <1>b, TrackingKeepsInv DEF Poll
<1>4. CASE ReadData
  BY <1>4, <1>a, ReadTracks, TrackingKeepsInv DEF ReadData
<1>5. CASE WriteData
  BY <1>5, <1>a, WriteTracks, TrackingKeepsInv DEF WriteData
<1>6. CASE Interrupted
  BY <1>6, <1>b, <1>c, TrackingKeepsInv DEF Interrupted, ReadStatus
<1>7. CASE LeaveHandler
  BY <1>7, <1>b, TrackingKeepsInv DEF LeaveHandler
<1>8. CASE GiveUp
  <2> DEFINE d == WriteControl(ata, TRUE, FALSE)
  <2>1. Tracked(ata, d)  BY <1>a, ControlTracks
  <2>2. Tracked(d, WriteControl(d, FALSE, FALSE))  BY <2>1, ControlTracks DEF Tracked
  <2>3. Tracked(ata, WriteControl(d, FALSE, FALSE))  BY <2>1, <2>2 DEF Tracked
  <2>4. Tracked(ata, WriteCommand(ata, "set features"))  BY <1>a, CommandTracks
  <2> QED  BY <1>8, <2>3, <2>4, TrackingKeepsInv DEF GiveUp
<1>9. CASE ProbeSlave
  <2> DEFINE p == WriteTaskfile(WriteSelect(ata, 0, FALSE, TRUE), 2, 2, 2)
  <2>1. Tracked(ata, p)  BY <1>a, TaskfileTracks
  <2>2. ata' = WriteCommand(p, "identify")  BY <1>9 DEF ProbeSlave
  <2> HIDE DEF p
  <2>3. Tracked(p, WriteCommand(p, "identify"))  BY <2>1, CommandTracks DEF Tracked
  <2>4. Tracked(ata, ata')  BY <2>1, <2>2, <2>3 DEF Tracked
  <2> QED  BY <1>9, <2>4, TrackingKeepsInv DEF ProbeSlave
<1>10. CASE Flush
  <2>1. Mounted(ata') /\ ata'.disk = ata.disk  BY <1>a, <1>10 DEF Flush, Mounted, Fields
  <2> QED  BY <1>10, <2>1 DEF Flush, Inv, UnsavedIsDirty
<1>11. CASE UNCHANGED vars
  BY <1>11, <1>b, TrackingKeepsInv DEF vars
<1> QED
  BY <1>1, <1>2, <1>3, <1>4, <1>5, <1>6, <1>7, <1>8, <1>9, <1>10, <1>11 DEF Next, Progress

\* A change of the image is flagged until the host has it: whatever the driver does
\* with its transfers, at every moment an image that differs from the host's is one
\* the host is going to write back (write_data_word, hdf_dirty).
THEOREM UnsavedAlwaysDirty == Spec => []UnsavedIsDirty
<1>1. Inv => UnsavedIsDirty  BY DEF Inv
<1> QED  BY InitInv, NextInv, <1>1, PTL DEF Spec
-----------------------------------------------------------------------------
(* Arithmetic *)

\* The quotient of a sum whose remainder is known.
LEMMA Division ==
  ASSUME NEW n \in Nat, NEW t \in Nat \ {0}
  PROVE  n \div t \in Nat /\ n % t \in 0 .. t - 1 /\ n = t * (n \div t) + (n % t)
<1>1. n \div t \in Nat /\ n % t \in 0 .. t - 1  OBVIOUS
<1>2. n = t * (n \div t) + (n % t)  BY SMTT(30)
<1> QED  BY <1>1, <1>2

\* And its remainder.
LEMMA Remainder ==
  ASSUME NEW q \in Nat, NEW t \in Nat \ {0}, NEW r \in 0 .. t - 1
  PROVE  (t * q + r) % t = r
  OBVIOUS

\* Cylinder, head and sector, as the driver computes them, lead the drive back to the
\* sector they were computed from (current_lba).
LEMMA CylinderHeadSector ==
  ASSUME NEW n \in Nat, NEW h \in Nat \ {0}, NEW t \in Nat \ {0}
  PROVE  ((n \div (h * t)) * h + ((n % (h * t)) \div t)) * t + (n % t) = n
<1> DEFINE s == h * t
           q == n \div s
           r == n % s
           a == r \div t
           b == r % t
<1>1. s \in Nat \ {0}  OBVIOUS
<1>2. q \in Nat /\ r \in Nat /\ n = s * q + r
  <2> HIDE DEF s
  <2> QED  BY <1>1, Division
<1>3. a \in Nat /\ b \in 0 .. t - 1 /\ r = t * a + b
  <2> HIDE DEF r
  <2> QED  BY <1>2, Division
<1> HIDE DEF q, r, a, b
<1>4. n = t * (q * h + a) + b
  <2>1. s * q = t * (q * h)  BY <1>2
  <2>2. t * (q * h) + t * a = t * (q * h + a)  BY <1>2, <1>3
  <2> HIDE DEF s
  <2> QED  BY <1>1, <1>2, <1>3, <2>1, <2>2
<1>5. n % t = b
  <2>1. q * h + a \in Nat  BY <1>2, <1>3
  <2> QED  BY <1>3, <1>4, <2>1, Remainder
<1>6. (q * h + a) * t + (n % t) = n  BY <1>2, <1>3, <1>4, <1>5
<1> QED  BY <1>6 DEF q, a, r, s

SectorsOf(j) == IF j.count = 0 THEN SectorsOfZero ELSE j.count

TotalOf(j) == IF j.op = "identify" THEN SectorBytes ELSE SectorsOf(j) * SectorBytes

\* Total is a function of the request alone.
LEMMA TotalIs == Total = TotalOf(job) /\ Total' = TotalOf(job')
  BY DEF Total, TotalOf, SectorsOf

\* A transfer is a positive, even number of bytes: whole sectors.
LEMMA TotalFacts ==
  ASSUME NEW j \in Jobs
  PROVE  TotalOf(j) \in Nat \ {0} /\ TotalOf(j) % 2 = 0 /\ Boundary(TotalOf(j))
<1>1. SectorsOf(j) \in Nat \ {0}
  BY AtaAssumption, HardDriveAssumption DEF SectorsOf
<1>2. ASSUME NEW c \in Nat \ {0}
      PROVE  c * SectorBytes \in Nat \ {0} /\ (c * SectorBytes) % 2 = 0
             /\ (c * SectorBytes) % SectorBytes = 0
  <2> DEFINE h == SectorBytes \div 2
  <2>1. h \in Nat /\ SectorBytes = 2 * h  BY AtaAssumption
  <2> HIDE DEF h
  <2>2. c * SectorBytes = 2 * (c * h) /\ c * h \in Nat  BY <2>1, AtaAssumption
  <2>3. (c * SectorBytes) % 2 = 0  BY <2>2
  <2>4. c * SectorBytes \in Nat \ {0} /\ (c * SectorBytes) % SectorBytes = 0
    BY AtaAssumption
  <2> QED  BY <2>3, <2>4
<1>3. CASE j.op = "identify"
  BY <1>3, AtaAssumption DEF TotalOf, Boundary
<1>4. CASE j.op # "identify"
  <2>1. TotalOf(j) = SectorsOf(j) * SectorBytes  BY <1>4 DEF TotalOf
  <2> QED  BY <1>1, <1>2, <2>1 DEF Boundary
<1> QED  BY <1>3, <1>4
-----------------------------------------------------------------------------
(* What the driver's accesses do to the drive, register by register *)

\* The registers a transfer leaves alone, and the image.
SameRegisters(d, e) ==
  /\ e.slave = d.slave /\ e.SRST = d.SRST /\ e.heads = d.heads /\ e.track = d.track
  /\ e.nsector = d.nsector /\ e.sector = d.sector /\ e.cyl = d.cyl /\ e.head = d.head
  /\ e.lba = d.lba /\ e.disk = d.disk

\* Drives with the same address registers and geometry find the same sector.
LEMMA SameAddress ==
  ASSUME NEW d, NEW e, SameRegisters(d, e)
  PROVE  CurrentLba(e) = CurrentLba(d) /\ Count(e) = Count(d)
  BY DEF SameRegisters, CurrentLba, Count

\* A reset by the driver stops the transfer and clears DRQ.
LEMMA ResetDrive ==
  ASSUME NEW d, Mounted(d), d.SRST = FALSE
  PROVE  LET e == WriteControl(WriteControl(d, TRUE, FALSE), FALSE, FALSE)
         IN  /\ Mounted(e) /\ e.direction = "None" /\ "DRQ" \notin e.status
             /\ e.SRST = FALSE /\ e.slave = d.slave /\ e.disk = d.disk
             /\ e.heads = d.heads /\ e.track = d.track
<1> DEFINE r == WriteControl(d, TRUE, FALSE)
<1>1. /\ Mounted(r) /\ r.direction = "None" /\ r.SRST = TRUE /\ r.slave = d.slave
      /\ r.disk = d.disk /\ r.heads = d.heads /\ r.track = d.track
  BY ZenonT(30) DEF WriteControl, Mounted, Fields
<1> HIDE DEF r
<1>2. LET e == WriteControl(r, FALSE, FALSE)
      IN  /\ Mounted(e) /\ e.direction = r.direction /\ e.status = {"DRDY", "DSC"}
          /\ e.SRST = FALSE /\ e.slave = r.slave /\ e.disk = r.disk
          /\ e.heads = r.heads /\ e.track = r.track
  BY <1>1 DEF WriteControl, Mounted, Fields
<1> QED  BY <1>1, <1>2 DEF r

Taskfile(d, e, head, lba, n, sector, cyl) ==
  /\ Mounted(e) /\ e.slave = FALSE /\ e.head = head /\ e.lba = lba
  /\ e.nsector = n /\ e.sector = sector /\ e.cyl = cyl
  /\ e.direction = d.direction /\ e.status = d.status /\ e.SRST = d.SRST
  /\ e.heads = d.heads /\ e.track = d.track /\ e.disk = d.disk

\* Selecting the master and writing its taskfile.
LEMMA SetTaskfile ==
  ASSUME NEW d, Mounted(d), NEW head, NEW lba, NEW n, NEW sector, NEW cyl
  PROVE  Taskfile(d, WriteTaskfile(WriteSelect(d, head, lba, FALSE), n, sector, cyl),
                  head, lba, n, sector, cyl)
<1> DEFINE s == WriteSelect(d, head, lba, FALSE)
<1>1. /\ Mounted(s) /\ s.slave = FALSE /\ s.head = head /\ s.lba = lba
      /\ s.direction = d.direction /\ s.status = d.status /\ s.SRST = d.SRST
      /\ s.heads = d.heads /\ s.track = d.track /\ s.disk = d.disk
  BY DEF WriteSelect, Mounted, Fields
<1> HIDE DEF s
<1>2. LET e == WriteTaskfile(s, n, sector, cyl)
      IN  /\ Mounted(e) /\ e.slave = FALSE /\ e.head = s.head /\ e.lba = s.lba
          /\ e.nsector = n /\ e.sector = sector /\ e.cyl = cyl
          /\ e.direction = s.direction /\ e.status = s.status /\ e.SRST = s.SRST
          /\ e.heads = s.heads /\ e.track = s.track /\ e.disk = s.disk
  BY <1>1 DEF WriteTaskfile, Mounted, Fields
<1> QED  BY <1>1, <1>2 DEF s, Taskfile

\* Probing the slave only selects it.
LEMMA ProbeDrive ==
  ASSUME NEW d, Mounted(d)
  PROVE  LET e == WriteCommand(WriteTaskfile(WriteSelect(d, 0, FALSE, TRUE), 2, 2, 2),
                               "identify")
         IN  /\ Mounted(e) /\ e.slave = TRUE
             /\ e.direction = d.direction /\ e.status = d.status /\ e.SRST = d.SRST
             /\ e.heads = d.heads /\ e.track = d.track /\ e.disk = d.disk
<1> DEFINE s == WriteSelect(d, 0, FALSE, TRUE)
<1>1. /\ Mounted(s) /\ s.slave = TRUE
      /\ s.direction = d.direction /\ s.status = d.status /\ s.SRST = d.SRST
      /\ s.heads = d.heads /\ s.track = d.track /\ s.disk = d.disk
  BY DEF WriteSelect, Mounted, Fields
<1> HIDE DEF s
<1>2. WriteTaskfile(s, 2, 2, 2) = s  BY <1>1 DEF WriteTaskfile
<1>3. WriteCommand(s, "identify") = s  BY <1>1 DEF WriteCommand, ReadCommands, WriteCommands
<1> QED  BY <1>1, <1>2, <1>3 DEF s

Prepared(d, e, cmd, direction, bytes) ==
  /\ Mounted(e) /\ SameRegisters(d, e)
  /\ e.command = cmd /\ e.direction = direction /\ "DRQ" \in e.status
  /\ e.index = 0 /\ e.buffer = bytes

\* A command with data prepares its whole transfer.
LEMMA StartCommand ==
  ASSUME NEW d, Mounted(d), d.slave = FALSE, NEW cmd \in Moves
  PROVE  Prepared(d, WriteCommand(d, cmd), cmd,
                  IF cmd \in WriteCommands THEN "Write" ELSE "Read",
                  IF cmd \in WriteCommands THEN Zeros(Count(d) * SectorBytes)
                  ELSE IF cmd = "identify" THEN IdentifyData
                  ELSE Extent(d.disk, CurrentLba(d), Count(d)))
<1> DEFINE e == [d EXCEPT !.command = cmd, !.status = @ \ {"ERR"}, !.error = 1]
<1>1. Mounted(e) /\ SameRegisters(d, e) /\ e.command = cmd
  BY DEF Mounted, Fields, SameRegisters
<1>2. ASSUME NEW x, Mounted(x), NEW direction, NEW bytes
      PROVE  LET y == StartTransfer(x, direction, bytes)
                 z == [y EXCEPT !.irq = TRUE]
             IN  /\ Prepared(x, y, x.command, direction, bytes)
                 /\ Prepared(x, z, x.command, direction, bytes)
  <2> DEFINE y == StartTransfer(x, direction, bytes)
  <2>1. Prepared(x, y, x.command, direction, bytes)
    BY <1>2 DEF StartTransfer, Mounted, Fields, Prepared, SameRegisters
  <2> HIDE DEF y
  <2>2. Prepared(x, [y EXCEPT !.irq = TRUE], x.command, direction, bytes)
    BY <2>1 DEF Mounted, Fields, Prepared, SameRegisters
  <2> QED  BY <2>1, <2>2 DEF y
<1> HIDE DEF e
<1>3. ASSUME NEW y, NEW direction, NEW bytes, Prepared(e, y, e.command, direction, bytes)
      PROVE  Prepared(d, y, cmd, direction, bytes)
  BY <1>1, <1>3 DEF Prepared, SameRegisters
<1>4. CASE cmd \in WriteCommands
  <2>1. WriteCommand(d, cmd) = StartTransfer(e, "Write", Zeros(Count(d) * SectorBytes))
    BY <1>4 DEF WriteCommand, e, WriteCommands, ReadCommands
  <2> QED  BY <1>1, <1>2, <1>3, <1>4, <2>1
<1>5. CASE cmd = "identify"
  <2>1. WriteCommand(d, cmd) = [StartTransfer(e, "Read", IdentifyData) EXCEPT !.irq = TRUE]
    BY <1>5 DEF WriteCommand, e, WriteCommands, ReadCommands
  <2>2. cmd \notin WriteCommands  BY <1>5 DEF WriteCommands
  <2> QED  BY <1>1, <1>2, <1>3, <1>5, <2>1, <2>2
<1>6. CASE cmd \in ReadCommands
  <2>1. WriteCommand(d, cmd) =
          [StartTransfer(e, "Read", Extent(d.disk, CurrentLba(d), Count(d)))
             EXCEPT !.irq = TRUE]
    BY <1>6 DEF WriteCommand, e, WriteCommands, ReadCommands
  <2>2. cmd \notin WriteCommands /\ cmd # "identify"
    BY <1>6 DEF WriteCommands, ReadCommands
  <2> QED  BY <1>1, <1>2, <1>3, <1>6, <2>1, <2>2
<1> QED  BY <1>4, <1>5, <1>6 DEF Moves

Finished(d, e, cmd) ==
  /\ Mounted(e) /\ e.direction = "None"
  /\ "DRQ" \in e.status <=> "DRQ" \in d.status
  /\ e.SRST = d.SRST /\ e.slave = FALSE /\ e.disk = d.disk
  /\ e.heads = IF cmd = "initialize parameters" THEN d.head + 1 ELSE d.heads
  /\ e.track = IF cmd = "initialize parameters" THEN d.nsector ELSE d.track

\* A command without data ends any transfer, but leaves DRQ as it was; only one of
\* them changes the geometry.
LEMMA FinishCommand ==
  ASSUME NEW d, Mounted(d), d.slave = FALSE, NEW cmd, cmd \notin Moves
  PROVE  Finished(d, WriteCommand(d, cmd), cmd)
<1> DEFINE e == [d EXCEPT !.command = cmd, !.status = @ \ {"ERR"}, !.error = 1]
           f == Finish(e)
           Ended(x) == /\ Mounted(x) /\ x.direction = "None"
                       /\ ("DRQ" \in x.status <=> "DRQ" \in d.status)
                       /\ x.SRST = d.SRST /\ x.slave = FALSE /\ x.disk = d.disk
           Kept(x) == Ended(x) /\ x.heads = d.heads /\ x.track = d.track
<1>1. Mounted(e) /\ SameRegisters(d, e) /\ ("DRQ" \in e.status <=> "DRQ" \in d.status)
  BY DEF Mounted, Fields, SameRegisters
<1> HIDE DEF e
<1>2. Kept(f)  BY <1>1 DEF Finish, Mounted, Fields, SameRegisters
<1> HIDE DEF f
<1>3. LET x == [f EXCEPT !.heads = d.head + 1, !.track = d.nsector]
      IN  Ended(x) /\ x.heads = d.head + 1 /\ x.track = d.nsector
  BY <1>2 DEF Mounted, Fields
<1>4. Kept([f EXCEPT !.nsector = 1, !.sector = 1, !.cyl = 0])  BY <1>2 DEF Mounted, Fields
<1>5. Kept([f EXCEPT !.sector = 1, !.cyl = 0])  BY <1>2 DEF Mounted, Fields
<1>6. Kept([f EXCEPT !.status = @ \cup {"ERR"}, !.error = 4])  BY <1>2 DEF Mounted, Fields
<1>7. CASE cmd = "initialize parameters"
  <2>1. WriteCommand(d, cmd) = [f EXCEPT !.heads = d.head + 1, !.track = d.nsector]
    BY <1>7 DEF WriteCommand, e, f, WriteCommands, ReadCommands
  <2> QED  BY <1>3, <1>7, <2>1 DEF Finished
<1>8. CASE cmd # "initialize parameters"
  <2>1. WriteCommand(d, cmd) \in {f, [f EXCEPT !.nsector = 1, !.sector = 1, !.cyl = 0],
                                  [f EXCEPT !.sector = 1, !.cyl = 0],
                                  [f EXCEPT !.status = @ \cup {"ERR"}, !.error = 4]}
    BY <1>8 DEF WriteCommand, Moves, e, f
  <2>2. Kept(WriteCommand(d, cmd))  BY <1>2, <1>4, <1>5, <1>6, <2>1
  <2> QED  BY <1>8, <2>2 DEF Finished
<1> QED  BY <1>7, <1>8

\* From d to e the index has advanced by n, and a transfer that is then complete is over.
Advanced(d, e, n) ==
  /\ Mounted(e) /\ e.index = d.index + n /\ e.command = d.command
  /\ e.slave = d.slave /\ e.SRST = d.SRST /\ e.heads = d.heads /\ e.track = d.track
  /\ IF d.index + n >= Len(d.buffer)
     THEN e.direction = "None" /\ "DRQ" \notin e.status
     ELSE e.direction = d.direction /\ e.status = d.status

\* Reading moves the index and nothing else.
LEMMA ReadPort ==
  ASSUME NEW d, Mounted(d), d.slave = FALSE, d.direction = "Read", d.buffer # << >>
  PROVE  /\ Advanced(d, AfterRead(d, 2), 2) /\ Advanced(d, ReadDataByte(d), 1)
         /\ AfterRead(d, 2).buffer = d.buffer /\ ReadDataByte(d).buffer = d.buffer
         /\ SameRegisters(d, AfterRead(d, 2)) /\ SameRegisters(d, ReadDataByte(d))
<1>1. ASSUME NEW n \in {1, 2}
      PROVE  LET e == AfterRead(d, n)
             IN  Advanced(d, e, n) /\ e.buffer = d.buffer /\ SameRegisters(d, e)
  BY DEF AfterRead, Advanced, Mounted, Fields, SameRegisters
<1>2. ReadDataByte(d) = AfterRead(d, 1)  BY DEF ReadDataByte, Mounted
<1> QED  BY <1>1, <1>2

WrittenBy(d, e, bytes) ==
  /\ Advanced(d, e, Len(bytes)) /\ e.buffer = Filled(d, bytes)
  /\ e.nsector = d.nsector /\ e.sector = d.sector /\ e.cyl = d.cyl
  /\ e.head = d.head /\ e.lba = d.lba
  /\ e.disk = IF d.index + Len(bytes) >= Len(d.buffer)
              THEN Store(d.disk, CurrentLba(d), Filled(d, bytes)) ELSE d.disk

\* Writing fills the buffer at the index; the access that completes it stores the
\* buffer where the taskfile points.
LEMMA WritePort ==
  ASSUME NEW d, Mounted(d), d.slave = FALSE, d.direction = "Write", d.buffer # << >>,
         NEW bytes
  PROVE  WrittenBy(d, AfterWrite(d, bytes), bytes)
<1> DEFINE next == d.index + Len(bytes)
           e    == [d EXCEPT !.buffer = Filled(d, bytes), !.index = next]
<1>1. /\ Mounted(e) /\ SameRegisters(d, e) /\ e.buffer = Filled(d, bytes)
      /\ e.index = next /\ e.command = d.command /\ e.direction = d.direction
      /\ e.status = d.status
  BY DEF Mounted, Fields, SameRegisters
<1> HIDE DEF e
<1>2. CurrentLba(e) = CurrentLba(d)  BY <1>1, SameAddress
<1>3. LET c == Commit(e)
      IN  /\ Mounted(c) /\ c.direction = "None" /\ "DRQ" \notin c.status
          /\ c.disk = Store(e.disk, CurrentLba(e), e.buffer)
          /\ c.buffer = e.buffer /\ c.index = e.index /\ c.command = e.command
          /\ c.slave = e.slave /\ c.SRST = e.SRST /\ c.heads = e.heads /\ c.track = e.track
          /\ c.nsector = e.nsector /\ c.sector = e.sector /\ c.cyl = e.cyl
          /\ c.head = e.head /\ c.lba = e.lba
  BY <1>1 DEF Commit, Mounted, Fields
<1>4. LET f == [e EXCEPT !.irq = @ \/ Boundary(next)]
      IN  /\ Mounted(f) /\ SameRegisters(e, f) /\ f.buffer = e.buffer /\ f.index = e.index
          /\ f.command = e.command /\ f.direction = e.direction /\ f.status = e.status
  BY <1>1 DEF Mounted, Fields, SameRegisters
<1>5. AfterWrite(d, bytes) = IF next >= Len(d.buffer)
                             THEN Commit(e) ELSE [e EXCEPT !.irq = @ \/ Boundary(next)]
  <2>1. Len(Filled(d, bytes)) = Len(d.buffer) \/ Filled(d, bytes) = d.buffer
    BY DEF Filled
  <2> QED  BY <2>1, <1>1 DEF AfterWrite, e
<1>6. CASE next >= Len(d.buffer)
  BY <1>1, <1>2, <1>3, <1>5, <1>6 DEF Advanced, SameRegisters, WrittenBy
<1>7. CASE ~(next >= Len(d.buffer))
  BY <1>1, <1>4, <1>5, <1>7 DEF Advanced, SameRegisters, WrittenBy
<1> QED  BY <1>6, <1>7

SentSoFar(b, size, n) ==
  b = [i \in 1 .. size |-> b[i]] /\ \A i \in 1 .. n : b[i] = Sent(i)

\* One or two bytes that come after the first n.
SentNext(bytes, n) ==
  Len(bytes) \in {1, 2} /\ \A k \in 1 .. Len(bytes) : bytes[k] = Sent(n + k)

\* After n bytes and these the buffer is what the driver has sent so far.
LEMMA FilledSent ==
  ASSUME NEW d, d.index \in Nat, NEW size \in Nat, NEW bytes,
         SentSoFar(d.buffer, size, d.index), SentNext(bytes, d.index),
         d.index + Len(bytes) <= size
  PROVE  SentSoFar(Filled(d, bytes), size, d.index + Len(bytes))
<1> USE DEF SentSoFar, SentNext
<1> DEFINE l == Len(bytes)
           n == d.index
<1>1. Len(d.buffer) = size
  <2> DEFINE f == d.buffer
  <2> HIDE DEF f
  <2>1. f = [i \in 1 .. size |-> f[i]]  BY DEF f
  <2>2. Len([i \in 1 .. size |-> f[i]]) = size  OBVIOUS
  <2> QED  BY <2>1, <2>2 DEF f
<1>2. Filled(d, bytes) = [i \in 1 .. size |->
          IF i \in n + 1 .. n + l THEN bytes[i - n] ELSE d.buffer[i]]
  BY <1>1 DEF Filled
<1>3. ASSUME NEW i \in 1 .. n + l  PROVE Filled(d, bytes)[i] = Sent(i)
  <2>1. i \in 1 .. size  OBVIOUS
  <2>2. CASE i \in 1 .. n
    BY <1>2, <2>1, <2>2
  <2>3. CASE i \in n + 1 .. n + l
    <3>1. i - n \in 1 .. l /\ n + (i - n) = i  BY <2>3
    <3>2. Filled(d, bytes)[i] = bytes[i - n]  BY <1>2, <2>1, <2>3
    <3> QED  BY <3>1, <3>2
  <2> QED  BY <2>2, <2>3
<1> QED  BY <1>2, <1>3 DEF SentSoFar
-----------------------------------------------------------------------------
(* The protocol between the driver and the drive *)

\* The request the driver is about still has bytes to move.
Moving == job.op \in Moves /\ moved < Total

\* The drive has moved as many bytes as the driver, of the right sectors.
InTransfer ==
  /\ ata.direction = IF IsWrite THEN "Write" ELSE "Read"
  /\ ata.command = job.op /\ ata.index = moved
  /\ ata.buffer = [i \in 1 .. Total |-> ata.buffer[i]]
  /\ IsWrite => \A i \in 1 .. moved : ata.buffer[i] = Sent(i)
  /\ job.op \in ReadCommands =>
       /\ ata.buffer = Extent(ata.disk, job.lba, SectorsOf(job))
       /\ got = [i \in 1 .. moved |-> ata.buffer[i]]

GeometryKnown ==
  /\ ata.heads = geometry.heads /\ ata.track = geometry.track
  /\ geometry.heads \in Nat \ {0} /\ geometry.track \in Nat \ {0}

DriverOK ==
  /\ pc \in {"idle", "command", "poll", "data", "wait", "handler"}
  /\ jobs \in 0 .. MaxJobs /\ abort \in {"reset", "command"}
  /\ pc # "idle" => /\ job \in Jobs /\ jobs # 0 /\ moved \in 0 .. Total
                    /\ job.wide = TRUE => moved % 2 = 0

Addressed ==
  /\ pc # "idle" => /\ ata.slave = FALSE
                    /\ job \in SectorJobs => CurrentLba(ata) = job.lba
  /\ pc = "command" => /\ ata.nsector = job.count
                       /\ job.op = "initialize parameters" => ata.head = job.lba - 1

InStep ==
  /\ pc \in {"idle", "command"} => ata.direction = "None"
  /\ pc = "command" => moved = 0 /\ got = << >>
  /\ pc = "poll" => IsWrite
  /\ pc \in {"poll", "data"} => Moving
  /\ pc \in {"poll", "data", "wait", "handler"} =>
       IF Moving THEN InTransfer ELSE ata.direction = "None"

DrqTold == abort = "reset" => ("DRQ" \in ata.status <=> ata.direction # "None")

\* The inductive invariant of the protocol.
Protocol == /\ Mounted(ata) /\ ata.SRST = FALSE
            /\ GeometryKnown /\ DriverOK /\ Addressed /\ InStep /\ DrqTold

\* The bound on the driver's requests, as HardDriveAssumption has it.
LEMMA BoundIsNat == MaxJobs \in Nat
  BY HardDriveAssumption

\* The drive starts idle, with the geometry of the image and no transfer.
LEMMA InitProtocol == Init => Protocol
<1> SUFFICES ASSUME Init  PROVE Protocol
  OBVIOUS
<1>1. /\ Mounted(ata) /\ ata.SRST = FALSE /\ ata.direction = "None"
      /\ ata.status = {"DRDY", "DSC"}
      /\ ata.heads \in Nat \ {0} /\ ata.track \in Nat \ {0}
  <2>1. PICK headers \in Headers : ata = InsertDisk(NewController, Image, headers)
    BY DEF Init
  <2>2. headers \in [0 .. RdbScanBlocks - 1 -> RdbHeader]
    BY HardDriveAssumption
  <2> DEFINE g == GeometryOf(headers, Len(Image))
  <2>3. ata = MadeWith(Image, g.heads, g.track)  BY <2>1, InsertDiskMakes
  <2>4. g.heads \in Nat \ {0} /\ g.track \in Nat \ {0}
    BY <2>2, GeometryFits
  <2> HIDE DEF g
  <2>5. NewController.SRST = FALSE  BY DEF NewController
  <2> QED  BY <2>3, <2>4, <2>5, MadeMounted
<1>2. /\ pc = "idle" /\ jobs = 0 /\ abort \in {"reset", "command"}
      /\ geometry = [heads |-> ata.heads, track |-> ata.track]
  BY DEF Init
<1>3. GeometryKnown  BY <1>1, <1>2 DEF GeometryKnown
<1>4. DriverOK
  <2>1. jobs \in 0 .. MaxJobs  BY <1>2, BoundIsNat
  <2> QED  BY <1>2, <2>1 DEF DriverOK
<1>5. Addressed /\ InStep  BY <1>1, <1>2 DEF Addressed, InStep
<1>6. DrqTold  BY <1>1 DEF DrqTold
<1> QED  BY <1>1, <1>3, <1>4, <1>5, <1>6 DEF Protocol

\* Nothing of the protocol's is changed between two drives.
SameDrive(d, e) ==
  /\ Mounted(e) /\ SameRegisters(d, e) /\ e.direction = d.direction
  /\ e.status = d.status /\ e.command = d.command /\ e.index = d.index
  /\ e.buffer = d.buffer

\* A step that only moves the driver on, as far as its transfer allows.
LEMMA DriverStep ==
  ASSUME Protocol, SameDrive(ata, ata'),
         UNCHANGED <<job, jobs, geometry, moved, got, abort>>,
         \/ pc' = pc
         \/ pc \in {"poll", "data", "wait", "handler"} /\ pc' = "data" /\ Moving
         \/ pc = "wait" /\ pc' = "handler"
         \/ pc = "handler" /\ pc' = "idle" /\ ~Moving
  PROVE  Protocol'
<1>1. /\ Total' = Total /\ IsWrite' = IsWrite /\ Moving' = Moving
      /\ \A i : Sent(i)' = Sent(i)
  BY DEF Total, IsWrite, Moving, Sent
<1>2. CurrentLba(ata') = CurrentLba(ata)  BY SameAddress DEF SameDrive
<1>3. Mounted(ata') /\ ata'.SRST = FALSE /\ GeometryKnown' /\ DrqTold'
  BY DEF Protocol, SameDrive, SameRegisters, GeometryKnown, DrqTold
<1>4. DriverOK'  BY <1>1 DEF Protocol, DriverOK
<1>5. Addressed'
  BY <1>2 DEF Protocol, Addressed, SameDrive, SameRegisters, SectorJobs
<1>6. InTransfer => InTransfer'
  BY <1>1 DEF InTransfer, SameDrive, SameRegisters
<1>7. InStep'  BY <1>1, <1>6 DEF Protocol, InStep, SameDrive
<1> QED  BY <1>3, <1>4, <1>5, <1>7 DEF Protocol

\* Setting a request up leaves the taskfile pointing at its first sector.
LEMMA SetUpKeepsProtocol ==
  ASSUME Protocol, SetUp
  PROVE  Protocol'
<1>1. PICK j \in Jobs : job' = j /\ ata' = Addressing(j)
  BY DEF SetUp
<1>2. /\ pc = "idle" /\ pc' = "command" /\ jobs < MaxJobs /\ jobs' = jobs + 1
      /\ moved' = 0 /\ got' = << >> /\ geometry' = geometry /\ abort' = abort
  BY DEF SetUp
<1> DEFINE Set(e) == /\ Mounted(e) /\ e.slave = FALSE /\ e.nsector = j.count
                     /\ e.direction = ata.direction /\ e.status = ata.status
                     /\ e.SRST = ata.SRST /\ e.heads = ata.heads /\ e.track = ata.track
<1>3. Mounted(ata)  BY DEF Protocol
<1>4. ASSUME j.op = "initialize parameters"
      PROVE  Set(ata') /\ ata'.head = j.lba - 1
  <2>1. Selected(j) = WriteSelect(ata, j.lba - 1, FALSE, FALSE)  BY <1>4 DEF Selected
  <2>2. Set(ata') /\ ata'.head = j.lba - 1
    <3>1. PICK sector, cyl :
            ata' = WriteTaskfile(WriteSelect(ata, j.lba - 1, FALSE, FALSE), j.count, sector, cyl)
      BY <1>1, <2>1 DEF Addressing
    <3>2. Taskfile(ata, ata', j.lba - 1, FALSE, j.count, sector, cyl)
      BY <1>3, <3>1, SetTaskfile
    <3> QED  BY <3>2 DEF Taskfile
  <2> QED  BY <2>2
<1>5. ASSUME j.op # "initialize parameters", j.mode = "lba"
      PROVE  Set(ata') /\ CurrentLba(ata') = j.lba
  <2>1. Selected(j) = WriteSelect(ata, j.lba \div HeadWeight, TRUE, FALSE)  BY <1>5 DEF Selected
  <2>2. Set(ata') /\ ata'.head = j.lba \div HeadWeight /\ ata'.lba = TRUE
        /\ ata'.sector = j.lba % 256 /\ ata'.cyl = (j.lba \div 256) % Cylinders
    <3>1. ata' = WriteTaskfile(WriteSelect(ata, j.lba \div HeadWeight, TRUE, FALSE),
                               j.count, j.lba % 256,
                               (j.lba \div 256) % Cylinders)
      BY <1>1, <1>5, <2>1 DEF Addressing
    <3>2. Taskfile(ata, ata', j.lba \div HeadWeight, TRUE, j.count, j.lba % 256,
                   (j.lba \div 256) % Cylinders)
      BY <1>3, <3>1, SetTaskfile, ZenonT(30)
    <3> QED  BY <3>2 DEF Taskfile
  <2>3. CurrentLba(ata') = j.lba
    <3>1. j.lba \in Nat  BY HardDriveAssumption
    <3>2. \A n \in Nat : (n % 256) + 256 * ((n \div 256) % Cylinders)
                       + HeadWeight * (n \div HeadWeight) = n
      BY DEF Cylinders, HeadWeight
    <3> QED  BY <2>2, <3>1, <3>2 DEF CurrentLba
  <2> QED  BY <2>2, <2>3
<1>6. ASSUME j.op # "initialize parameters", j.mode # "lba"
      PROVE  Set(ata') /\ CurrentLba(ata') = j.lba
  <2>1. Selected(j) = WriteSelect(ata, (j.lba % Cylinder) \div geometry.track, FALSE, FALSE)
    BY <1>6 DEF Selected
  <2>2. Set(ata') /\ ata'.head = (j.lba % Cylinder) \div geometry.track /\ ata'.lba = FALSE
        /\ ata'.sector = (j.lba % geometry.track) + 1 /\ ata'.cyl = j.lba \div Cylinder
    <3>1. ata' = WriteTaskfile(WriteSelect(ata, (j.lba % Cylinder) \div geometry.track,
                                           FALSE, FALSE),
                               j.count, (j.lba % geometry.track) + 1, j.lba \div Cylinder)
      BY <1>1, <1>6, <2>1 DEF Addressing
    <3>2. Taskfile(ata, ata', (j.lba % Cylinder) \div geometry.track, FALSE, j.count,
                   (j.lba % geometry.track) + 1, j.lba \div Cylinder)
      BY <1>3, <3>1, SetTaskfile
    <3> QED  BY <3>2 DEF Taskfile
  <2>3. CurrentLba(ata') = j.lba
    <3> DEFINE h == geometry.heads
               t == geometry.track
    <3>1. j.lba \in Nat /\ h \in Nat \ {0} /\ t \in Nat \ {0}
          /\ ata'.heads = h /\ ata'.track = t
      BY <2>2, HardDriveAssumption DEF Protocol, GeometryKnown
    <3> HIDE DEF h, t
    <3>2. ((j.lba \div (h * t)) * h + ((j.lba % (h * t)) \div t)) * t + (j.lba % t) = j.lba
      BY <3>1, CylinderHeadSector
    <3>3. j.lba % t \in Nat  BY <3>1
    <3>4. ata'.sector # 0 /\ ata'.sector - 1 = j.lba % t
      BY <2>2, <3>3 DEF t
    <3>5. CurrentLba(ata') = (ata'.cyl * ata'.heads + ata'.head) * ata'.track
                             + (ata'.sector - 1)
      BY <2>2, <3>4 DEF CurrentLba
    <3> QED  BY <2>2, <3>1, <3>2, <3>4, <3>5 DEF h, t, Cylinder
  <2> QED  BY <2>2, <2>3
<1>7. /\ Set(ata')
      /\ j.op = "initialize parameters" => ata'.head = j.lba - 1
      /\ j \in SectorJobs => CurrentLba(ata') = j.lba
  <2>1. j \in SectorJobs => j.op # "initialize parameters"
    BY DEF SectorJobs, ReadCommands, WriteCommands
  <2> HIDE DEF Set
  <2>2. CASE j.op = "initialize parameters"  
    <3>1. Set(ata') /\ ata'.head = j.lba - 1  BY <1>4, <2>2
    <3> QED  BY <2>1, <2>2, <3>1
  <2>3. CASE j.op # "initialize parameters"
    <3>1. Set(ata') /\ CurrentLba(ata') = j.lba  BY <1>5, <1>6, <2>3
    <3> QED  BY <2>3, <3>1
  <2> QED  BY <2>2, <2>3
<1>8. DriverOK'
  <2>1. 0 \in 0 .. Total'
    <3>1. TotalOf(j) \in Nat  BY TotalFacts
    <3>2. Total' = TotalOf(j)  BY <1>1, TotalIs
    <3> QED  BY <3>1, <3>2
  <2>2. jobs' \in 0 .. MaxJobs /\ jobs' # 0
    BY <1>2, BoundIsNat DEF Protocol, DriverOK
  <2>3. 0 % 2 = 0  OBVIOUS
  <2> QED  BY <1>1, <1>2, <2>1, <2>2, <2>3 DEF Protocol, DriverOK
<1>9. Addressed'  BY <1>1, <1>2, <1>7 DEF Addressed, SectorJobs
<1>10. InStep'  BY <1>2, <1>7 DEF Protocol, InStep
<1>11. DrqTold'  BY <1>2, <1>7 DEF Protocol, DrqTold
<1>12. GeometryKnown'  BY <1>2, <1>7 DEF Protocol, GeometryKnown
<1> QED  BY <1>7, <1>8, <1>9, <1>10, <1>11, <1>12 DEF Protocol

\* While the driver is busy its request is one of the configured ones.
LEMMA JobFacts ==
  ASSUME NEW j \in Jobs
  PROVE  /\ j.lba \in Nat /\ j.count \in Nat /\ j.wide \in BOOLEAN
         /\ j.op = "initialize parameters" => j.lba \in Nat \ {0} /\ j.count \in Nat \ {0}
  BY HardDriveAssumption

\* The command starts the transfer the driver is about to do, or none.
LEMMA IssueKeepsProtocol ==
  ASSUME Protocol, IssueCommand
  PROVE  Protocol'
<1>1. /\ pc = "command" /\ ata' = WriteCommand(ata, job.op)
      /\ pc' = IF IsWrite THEN "poll" ELSE "wait"
      /\ UNCHANGED <<job, jobs, moved, got, abort>>
  BY DEF IssueCommand
<1>2. /\ Mounted(ata) /\ ata.slave = FALSE /\ ata.direction = "None" /\ ata.SRST = FALSE
      /\ ata.nsector = job.count /\ moved = 0 /\ got = << >> /\ job \in Jobs
      /\ job \in SectorJobs => CurrentLba(ata) = job.lba
  BY <1>1 DEF Protocol, Addressed, InStep, DriverOK
<1>3. /\ Total' = Total /\ IsWrite' = IsWrite /\ Moving' = Moving
      /\ \A i : Sent(i)' = Sent(i)
  BY <1>1 DEF Total, IsWrite, Moving, Sent
<1>4. DriverOK'  BY <1>1, <1>3 DEF Protocol, DriverOK
<1>5. Total \in Nat \ {0} /\ Total = TotalOf(job)
  BY <1>2, TotalFacts, TotalIs
<1>6. CASE job.op \in Moves
  <2>1. Prepared(ata, ata', job.op, IF IsWrite THEN "Write" ELSE "Read",
                 IF IsWrite THEN Zeros(Count(ata) * SectorBytes)
                 ELSE IF job.op = "identify" THEN IdentifyData
                 ELSE Extent(ata.disk, CurrentLba(ata), Count(ata)))
    BY <1>1, <1>2, <1>6, StartCommand DEF IsWrite
  <2>2. geometry' = geometry
    BY <1>6 DEF IssueCommand, Moves, ReadCommands, WriteCommands
  <2>3. Moving  BY <1>2, <1>5, <1>6 DEF Moving
  <2>4. Count(ata) = SectorsOf(job)  BY <1>2 DEF Count, SectorsOf
  <2>5. ata'.buffer = [i \in 1 .. Total |-> ata'.buffer[i]]
    <3>1. CASE job.op = "identify"
      <4>1. ~IsWrite  BY <3>1 DEF IsWrite, WriteCommands
      <4> QED  BY <1>5, <2>1, <3>1, <4>1 DEF Prepared, IdentifyData, TotalOf
    <3>2. CASE job.op # "identify"
      BY <1>5, <2>1, <2>4, <3>2 DEF Prepared, Zeros, Extent, TotalOf
    <3> QED  BY <3>1, <3>2
  <2>6. job.op \in ReadCommands =>
          /\ ata'.buffer = Extent(ata'.disk, job.lba, SectorsOf(job))
          /\ got' = [i \in 1 .. moved' |-> ata'.buffer[i]]
    <3>1. SUFFICES ASSUME job.op \in ReadCommands
                   PROVE  /\ ata'.buffer = Extent(ata'.disk, job.lba, SectorsOf(job))
                          /\ got' = [i \in 1 .. moved' |-> ata'.buffer[i]]
      OBVIOUS
    <3>2. ~IsWrite /\ job.op # "identify" /\ job \in SectorJobs
      BY <1>2, <3>1 DEF IsWrite, ReadCommands, WriteCommands, SectorJobs
    <3>3. ata'.buffer = Extent(ata'.disk, job.lba, SectorsOf(job))
      BY <1>2, <2>1, <2>4, <3>2 DEF Prepared, SameRegisters
    <3>4. got' = [i \in 1 .. moved' |-> ata'.buffer[i]]  BY <1>1, <1>2
    <3> QED  BY <3>3, <3>4
  <2>7. InTransfer'
    <3>1. \A i \in 1 .. moved' : ata'.buffer[i] = Sent(i)'  BY <1>1, <1>2
    <3> QED  BY <1>1, <1>2, <1>3, <2>1, <2>5, <2>6, <3>1
             DEF InTransfer, Prepared, SectorsOf
  <2>8. InStep'  BY <1>1, <1>3, <2>3, <2>7 DEF InStep
  <2>9. CurrentLba(ata') = CurrentLba(ata)  BY <2>1, SameAddress DEF Prepared
  <2>10. Addressed'
    BY <1>1, <1>2, <2>1, <2>9 DEF Addressed, Prepared, SameRegisters, SectorJobs
  <2>11. DrqTold'  BY <2>1 DEF DrqTold, Prepared
  <2>12. GeometryKnown' /\ Mounted(ata') /\ ata'.SRST = FALSE
    BY <1>2, <2>1, <2>2 DEF Protocol, GeometryKnown, Prepared, SameRegisters
  <2> QED  BY <1>4, <2>8, <2>10, <2>11, <2>12 DEF Protocol
<1>7. CASE job.op \notin Moves
  <2>1. Finished(ata, ata', job.op)  BY <1>1, <1>2, <1>7, FinishCommand
  <2>2. ~IsWrite /\ job \notin SectorJobs /\ ~Moving
    BY <1>7 DEF Moves, IsWrite, SectorJobs, Moving
  <2>3. GeometryKnown'
    <3>1. CASE job.op = "initialize parameters"
      <4>1. geometry' = [heads |-> job.lba, track |-> job.count]
        BY <3>1 DEF IssueCommand
      <4>2. ata.head = job.lba - 1  BY <1>1, <3>1 DEF Protocol, Addressed
      <4>3. job.lba \in Nat \ {0} /\ job.count \in Nat \ {0}
        BY <1>2, <3>1, JobFacts
      <4>4. ata'.heads = ata.head + 1 /\ ata'.track = job.count
        BY <1>2, <2>1, <3>1 DEF Finished
      <4> QED  BY <4>1, <4>2, <4>3, <4>4 DEF GeometryKnown
    <3>2. CASE job.op # "initialize parameters"
      <4>1. geometry' = geometry  BY <3>2 DEF IssueCommand
      <4> QED  BY <2>1, <3>2, <4>1 DEF Protocol, GeometryKnown, Finished
    <3> QED  BY <3>1, <3>2
  <2>4. Addressed'  BY <1>1, <2>1, <2>2 DEF Addressed, SectorJobs, Finished
  <2>5. InStep'  BY <1>1, <1>3, <2>1, <2>2 DEF InStep, Finished
  <2>6. DrqTold'  BY <1>1, <1>2, <2>1 DEF Protocol, DrqTold, Finished
  <2> QED  BY <1>2, <1>4, <2>1, <2>3, <2>4, <2>5, <2>6 DEF Protocol, Finished
<1> QED  BY <1>6, <1>7

\* The buffer of a transfer is as long as the driver expects.
LEMMA BufferIsWhole ==
  ASSUME InTransfer, Total \in Nat
  PROVE  Len(ata.buffer) = Total
<1> DEFINE b == ata.buffer
           t == Total
<1>1. b = [i \in 1 .. t |-> b[i]]  BY DEF InTransfer
<1> HIDE DEF b, t
<1>2. Len([i \in 1 .. t |-> b[i]]) = t  BY DEF t
<1> QED  BY <1>1, <1>2 DEF b, t

\* Where an access to the data port finds the driver: the access fits into what is left.
LEMMA AtDataPort ==
  ASSUME Protocol, pc = "data"
  PROVE  /\ Mounted(ata) /\ ata.slave = FALSE /\ InTransfer /\ Moving /\ job \in Jobs
         /\ Width \in {1, 2} /\ moved \in Nat /\ Total \in Nat \ {0}
         /\ moved + Width <= Total /\ Len(ata.buffer) = Total /\ ata.buffer # << >>
         /\ Width = 2 <=> job.wide = TRUE
<1>1. /\ Mounted(ata) /\ ata.slave = FALSE /\ Moving /\ InTransfer /\ job \in Jobs
      /\ moved \in 0 .. Total /\ (job.wide = TRUE => moved % 2 = 0)
  BY DEF Protocol, Addressed, InStep, DriverOK
<1>2. Total \in Nat \ {0} /\ Total % 2 = 0  BY <1>1, TotalFacts, TotalIs
<1>3. moved \in Nat /\ moved < Total  BY <1>1, <1>2 DEF Moving
<1>4. Width \in {1, 2} /\ (Width = 2 <=> job.wide = TRUE)
  <2>1. job.wide \in BOOLEAN  BY <1>1, JobFacts
  <2>2. CASE job.wide = TRUE  BY <2>2 DEF Width
  <2>3. CASE job.wide = FALSE  BY <2>3 DEF Width
  <2> QED  BY <2>1, <2>2, <2>3
<1>5. moved + Width <= Total
  <2>1. CASE job.wide = TRUE
    <3>1. moved % 2 = 0  BY <1>1, <2>1
    <3>2. \A m, t \in Nat : m < t /\ m % 2 = 0 /\ t % 2 = 0 => m + 2 <= t  OBVIOUS
    <3> QED  BY <1>2, <1>3, <1>4, <2>1, <3>1, <3>2
  <2>2. CASE job.wide # TRUE
    <3>1. Width = 1  BY <1>4, <2>2
    <3> QED  BY <1>2, <1>3, <3>1
  <2> QED  BY <2>1, <2>2
<1>6. Len(ata.buffer) = Total  BY <1>1, <1>2, BufferIsWhole
<1>7. ata.buffer # << >>
  <2>1. Len(<< >>) = 0  OBVIOUS
  <2> QED  BY <1>2, <1>6, <2>1
<1> QED  BY <1>1, <1>2, <1>3, <1>4, <1>5, <1>6, <1>7

\* An access that advances drive and driver alike keeps them in step.
LEMMA AdvanceKeepsProtocol ==
  ASSUME Protocol, pc = "data", Moved, UNCHANGED <<job, jobs, geometry, abort>>,
         Advanced(ata, ata', Width), moved' < Total => InTransfer',
         CurrentLba(ata') = CurrentLba(ata)
  PROVE  Protocol'
<1>1. /\ moved' = moved + Width /\ moved' \in 0 .. Total /\ Total \in Nat
      /\ job.wide = TRUE => moved' % 2 = 0
  <2>1. moved' = moved + Width  BY DEF Moved
  <2>2. job.wide = TRUE => moved % 2 = 0 /\ Width = 2
    BY AtDataPort DEF Protocol, DriverOK
  <2>3. \A m \in Nat : m % 2 = 0 => (m + 2) % 2 = 0  OBVIOUS
  <2> QED  BY <2>1, <2>2, <2>3, AtDataPort
<1>2. Total' = Total /\ IsWrite' = IsWrite /\ (Moving' <=> moved' < Total)
  <2>1. Total' = Total /\ IsWrite' = IsWrite  BY DEF Total, IsWrite
  <2>2. job.op \in Moves  BY AtDataPort DEF Moving
  <2> QED  BY <2>1, <2>2 DEF Moving
<1>3. /\ pc' \in {"idle", "data", "wait"}
      /\ pc' = "idle" => moved' = Total
      /\ pc' = "data" => moved' < Total
  BY <1>1 DEF Moved
<1>4. /\ Mounted(ata') /\ ata'.slave = FALSE /\ ata'.SRST = FALSE
      /\ ata'.heads = ata.heads /\ ata'.track = ata.track
      /\ moved' < Total => ata'.direction = ata.direction /\ ata'.status = ata.status
      /\ moved' = Total => ata'.direction = "None" /\ "DRQ" \notin ata'.status
  <2>1. /\ ata.slave = FALSE /\ ata.SRST = FALSE
        /\ ata.index + Width = moved' /\ Len(ata.buffer) = Total
    BY <1>1, AtDataPort DEF InTransfer, Protocol
  <2>2. ata.index + Width >= Len(ata.buffer) <=> moved' = Total
    BY <1>1, <2>1
  <2>3. moved' < Total => ~(moved' = Total)  BY <1>1
  <2> QED  BY <2>1, <2>2, <2>3 DEF Advanced
<1>5. moved' < Total \/ moved' = Total  BY <1>1
<1>6. DriverOK'  BY <1>1, <1>2, <1>3 DEF Protocol, DriverOK
<1>7. Addressed'  BY <1>3, <1>4 DEF Protocol, Addressed, SectorJobs
<1>8. InStep'  BY <1>2, <1>3, <1>4, <1>5 DEF InStep
<1>9. DrqTold'  BY <1>4, <1>5 DEF Protocol, DrqTold
<1>10. GeometryKnown'  BY <1>4 DEF Protocol, GeometryKnown
<1> QED  BY <1>4, <1>6, <1>7, <1>8, <1>9, <1>10 DEF Protocol

\* What the driver has read is what the buffer begins with.
LEMMA ReadDataStep ==
  ASSUME Protocol, ReadData
  PROVE  /\ pc = "data" /\ Moved /\ ~IsWrite /\ UNCHANGED <<job, jobs, geometry, abort>>
         /\ Advanced(ata, ata', Width) /\ SameRegisters(ata, ata')
         /\ ata'.buffer = ata.buffer
         /\ job.op \in ReadCommands => got' = [i \in 1 .. moved' |-> ata.buffer[i]]
<1>1. /\ pc = "data" /\ Moved /\ ~IsWrite /\ UNCHANGED <<job, jobs, geometry, abort>>
      /\ moved' = moved + Width
      /\ ata' = IF job.wide THEN AfterRead(ata, 2) ELSE ReadDataByte(ata)
      /\ got' = got \o (IF job.wide THEN DataWord(ata)
                        ELSE <<IF ata.direction = "Read" THEN ata.buffer[ata.index + 1]
                                                         ELSE Open>>)
  BY DEF ReadData, Moved
<1>2. /\ Mounted(ata) /\ ata.slave = FALSE /\ InTransfer /\ ata.buffer # << >>
      /\ ata.direction = "Read" /\ ata.index = moved /\ ata.command = job.op
      /\ moved \in Nat /\ Total \in Nat /\ moved + Width <= Total
      /\ Len(ata.buffer) = Total
  BY <1>1, AtDataPort DEF InTransfer
<1>3. \/ job.wide = TRUE /\ Width = 2
      \/ job.wide = FALSE /\ Width = 1
  BY <1>1, AtDataPort, JobFacts DEF Width
<1>4. /\ Advanced(ata, ata', Width) /\ SameRegisters(ata, ata')
      /\ ata'.buffer = ata.buffer
  <2>1. /\ Advanced(ata, AfterRead(ata, 2), 2) /\ Advanced(ata, ReadDataByte(ata), 1)
        /\ AfterRead(ata, 2).buffer = ata.buffer /\ ReadDataByte(ata).buffer = ata.buffer
        /\ SameRegisters(ata, AfterRead(ata, 2)) /\ SameRegisters(ata, ReadDataByte(ata))
    BY <1>2, ReadPort
  <2> QED  BY <1>1, <1>3, <2>1
<1>5. ASSUME job.op \in ReadCommands
      PROVE  got' = [i \in 1 .. moved' |-> ata.buffer[i]]
  <2> DEFINE b == ata.buffer
             n == moved
  <2>1. got = [i \in 1 .. n |-> b[i]]  BY <1>2, <1>5 DEF InTransfer
  <2>2. CASE job.wide = TRUE
    <3>1. ata.command # "identify"  BY <1>2, <1>5 DEF ReadCommands
    <3>2. ~(ata.index + 2 > Len(ata.buffer))  BY <1>2, <1>3, <2>2
    <3>3. DataWord(ata) = <<b[n + 1], b[n + 2]>>  BY <1>2, <3>1, <3>2 DEF DataWord
    <3>4. got' = got \o <<b[n + 1], b[n + 2]>> /\ moved' = n + 2
      BY <1>1, <1>3, <2>2, <3>3
    <3> HIDE DEF b, n
    <3>5. n \in Nat  BY <1>2 DEF n
    <3>6. [i \in 1 .. n |-> b[i]] \o <<b[n + 1], b[n + 2]>> = [i \in 1 .. n + 2 |-> b[i]]
      BY <3>5
    <3> QED  BY <2>1, <3>4, <3>6 DEF b
  <2>3. CASE job.wide = FALSE
    <3>1. got' = got \o <<b[n + 1]>> /\ moved' = n + 1  BY <1>1, <1>2, <1>3, <2>3
    <3> HIDE DEF b, n
    <3>2. n \in Nat  BY <1>2 DEF n
    <3>3. [i \in 1 .. n |-> b[i]] \o <<b[n + 1]>> = [i \in 1 .. n + 1 |-> b[i]]
      BY <3>2
    <3> QED  BY <2>1, <3>1, <3>3 DEF b
  <2> QED  BY <1>3, <2>2, <2>3
<1> QED  BY <1>1, <1>4, <1>5

\* A read of the data port, of a word or of a byte.
LEMMA ReadKeepsProtocol ==
  ASSUME Protocol, ReadData
  PROVE  Protocol'
<1>1. /\ pc = "data" /\ Moved /\ ~IsWrite /\ UNCHANGED <<job, jobs, geometry, abort>>
      /\ Advanced(ata, ata', Width) /\ SameRegisters(ata, ata')
      /\ ata'.buffer = ata.buffer
      /\ job.op \in ReadCommands => got' = [i \in 1 .. moved' |-> ata.buffer[i]]
  BY ReadDataStep
<1>2. CurrentLba(ata') = CurrentLba(ata)  BY <1>1, SameAddress
<1>3. InTransfer /\ moved' = moved + Width /\ Len(ata.buffer) = Total
      /\ moved \in Nat /\ Width \in {1, 2} /\ Total \in Nat
  BY <1>1, AtDataPort DEF Moved
<1>4. Total' = Total /\ IsWrite' = IsWrite  BY <1>1 DEF Total, IsWrite
<1>5. ASSUME moved' < Total  PROVE InTransfer'
  <2>1. /\ ata'.direction = ata.direction /\ ata'.command = ata.command
        /\ ata'.index = moved'
    BY <1>1, <1>3, <1>5 DEF Advanced, InTransfer
  <2> QED  BY <1>1, <1>3, <1>4, <2>1 DEF InTransfer, SameRegisters, SectorsOf
<1> QED  BY <1>1, <1>2, <1>5, AdvanceKeepsProtocol

\* What the driver has written is what the buffer begins with; the last byte of it
\* sends the whole buffer to the sector the driver asked for.
LEMMA WriteDataStep ==
  ASSUME Protocol, WriteData
  PROVE  /\ pc = "data" /\ Moved /\ IsWrite /\ UNCHANGED <<job, jobs, geometry, got, abort>>
         /\ Advanced(ata, ata', Width) /\ CurrentLba(ata') = CurrentLba(ata)
         /\ ata'.buffer = [i \in 1 .. Total |-> ata'.buffer[i]]
         /\ \A i \in 1 .. moved' : ata'.buffer[i] = Sent(i)
         /\ ata'.disk = IF moved' = Total THEN Store(ata.disk, job.lba, ata'.buffer)
                                          ELSE ata.disk
<1> DEFINE bytes == IF job.wide THEN <<Sent(moved + 1), Sent(moved + 2)>>
                    ELSE <<Sent(moved + 1)>>
<1>1. /\ pc = "data" /\ Moved /\ IsWrite /\ UNCHANGED <<job, jobs, geometry, got, abort>>
      /\ moved' = moved + Width
      /\ ata' = IF job.wide THEN AfterWrite(ata, <<Sent(moved + 1), Sent(moved + 2)>>)
                            ELSE WriteDataByte(ata, Sent(moved + 1))
  BY DEF WriteData, Moved
<1>2. /\ Mounted(ata) /\ ata.slave = FALSE /\ InTransfer /\ ata.buffer # << >>
      /\ ata.direction = "Write" /\ ata.index = moved
      /\ moved \in Nat /\ Total \in Nat /\ moved + Width <= Total
      /\ Len(ata.buffer) = Total /\ job \in Jobs
  BY <1>1, AtDataPort DEF InTransfer
<1>3. \/ job.wide = TRUE /\ Width = 2
      \/ job.wide = FALSE /\ Width = 1
  BY <1>1, AtDataPort, JobFacts DEF Width
<1>4. ata' = AfterWrite(ata, bytes)  BY <1>1, <1>2, <1>3 DEF WriteDataByte
<1>5. Len(bytes) = Width /\ \A k \in 1 .. Width : bytes[k] = Sent(moved + k)
  BY <1>2, <1>3
<1>6. Width \in {1, 2}  BY <1>3
<1> HIDE DEF bytes
<1>7. /\ Advanced(ata, ata', Width) /\ ata'.buffer = Filled(ata, bytes)
      /\ ata'.nsector = ata.nsector /\ ata'.sector = ata.sector /\ ata'.cyl = ata.cyl
      /\ ata'.head = ata.head /\ ata'.lba = ata.lba
      /\ ata'.disk = IF ata.index + Width >= Len(ata.buffer)
                     THEN Store(ata.disk, CurrentLba(ata), Filled(ata, bytes)) ELSE ata.disk
  <2>1. WrittenBy(ata, AfterWrite(ata, bytes), bytes)  BY <1>2, WritePort
  <2> QED  BY <1>4, <1>5, <2>1 DEF WrittenBy
<1>8. CurrentLba(ata') = CurrentLba(ata)  BY <1>7 DEF CurrentLba, Advanced
<1>9. LET b == Filled(ata, bytes)
      IN  /\ b = [i \in 1 .. Total |-> b[i]]
          /\ \A i \in 1 .. moved + Width : b[i] = Sent(i)
  <2>1. ata.buffer = [i \in 1 .. Total |-> ata.buffer[i]]  BY <1>2 DEF InTransfer
  <2>2. SentSoFar(ata.buffer, Total, ata.index)
    BY <1>1, <1>2, <2>1 DEF InTransfer, SentSoFar
  <2>3. SentNext(bytes, ata.index)  BY <1>2, <1>5, <1>6 DEF SentNext
  <2>4. ata.index + Len(bytes) <= Total /\ ata.index \in Nat /\ Total \in Nat
    BY <1>2, <1>5
  <2>5. SentSoFar(Filled(ata, bytes), Total, ata.index + Len(bytes))
    BY <2>2, <2>3, <2>4, FilledSent
  <2> QED  BY <1>2, <1>5, <2>5 DEF SentSoFar
<1>10. CurrentLba(ata) = job.lba
  <2>1. job \in SectorJobs  BY <1>1, <1>2 DEF IsWrite, SectorJobs
  <2> QED  BY <1>1, <2>1 DEF Protocol, Addressed
<1>11. ata.index + Width >= Len(ata.buffer) <=> moved' = Total
  BY <1>1, <1>2, <1>6
<1> QED  BY <1>1, <1>7, <1>8, <1>9, <1>10, <1>11

\* A write of the data port, of a word or of a byte.
LEMMA WriteKeepsProtocol ==
  ASSUME Protocol, WriteData
  PROVE  Protocol'
<1>1. /\ pc = "data" /\ Moved /\ IsWrite /\ UNCHANGED <<job, jobs, geometry, got, abort>>
      /\ Advanced(ata, ata', Width) /\ CurrentLba(ata') = CurrentLba(ata)
      /\ ata'.buffer = [i \in 1 .. Total |-> ata'.buffer[i]]
      /\ \A i \in 1 .. moved' : ata'.buffer[i] = Sent(i)
  BY WriteDataStep
<1>2. InTransfer /\ moved' = moved + Width /\ Len(ata.buffer) = Total
      /\ moved \in Nat /\ Width \in {1, 2} /\ Total \in Nat
  BY <1>1, AtDataPort DEF Moved
<1>3. /\ Total' = Total /\ IsWrite' = IsWrite /\ \A i : Sent(i)' = Sent(i)
      /\ job.op \notin ReadCommands
  BY <1>1 DEF Total, IsWrite, Sent, ReadCommands, WriteCommands
<1>4. ASSUME moved' < Total  PROVE InTransfer'
  <2>1. /\ ata'.direction = ata.direction /\ ata'.command = ata.command
        /\ ata'.index = moved'
    BY <1>1, <1>2, <1>4 DEF Advanced, InTransfer
  <2> QED  BY <1>1, <1>2, <1>3, <2>1 DEF InTransfer
<1> QED  BY <1>1, <1>4, AdvanceKeepsProtocol

\* A driver that gives its request up resets the drive.
LEMMA GiveUpKeepsProtocol ==
  ASSUME Protocol, GiveUp
  PROVE  Protocol'
<1>1. /\ pc \in {"poll", "data", "wait"} /\ pc' = "idle"
      /\ UNCHANGED <<job, jobs, geometry, moved, got, abort>>
      /\ ata' = IF abort = "reset"
                THEN WriteControl(WriteControl(ata, TRUE, FALSE), FALSE, FALSE)
                ELSE WriteCommand(ata, "set features")
  BY DEF GiveUp
<1>2. Mounted(ata) /\ ata.SRST = FALSE /\ ata.slave = FALSE
  BY <1>1 DEF Protocol, Addressed
<1>3. /\ Mounted(ata') /\ ata'.direction = "None" /\ ata'.SRST = FALSE
      /\ ata'.slave = ata.slave /\ ata'.disk = ata.disk
      /\ ata'.heads = ata.heads /\ ata'.track = ata.track
      /\ abort = "reset" => "DRQ" \notin ata'.status
  <2>1. CASE abort = "reset"
    BY <1>1, <1>2, <2>1, ResetDrive
  <2>2. CASE abort # "reset"
    <3>1. "set features" \notin Moves  BY DEF Moves, ReadCommands, WriteCommands
    <3>2. Finished(ata, ata', "set features")
      BY <1>1, <1>2, <2>2, <3>1, FinishCommand
    <3> QED  BY <1>2, <2>2, <3>2 DEF Finished
  <2> QED  BY <2>1, <2>2
<1>4. DriverOK'  BY <1>1 DEF Protocol, DriverOK
<1>5. Addressed' /\ InStep'  BY <1>1, <1>3 DEF Addressed, InStep
<1>6. DrqTold' /\ GeometryKnown'
  BY <1>1, <1>3 DEF DrqTold, Protocol, GeometryKnown
<1> QED  BY <1>3, <1>4, <1>5, <1>6 DEF Protocol

\* Every step of the guest and of the host keeps the protocol.
LEMMA NextProtocol == Protocol /\ [Next]_vars => Protocol'
<1> SUFFICES ASSUME Protocol, [Next]_vars  PROVE Protocol'
  OBVIOUS
<1>a. SameDrive(ata, ata)  BY DEF Protocol, SameDrive, SameRegisters
<1>b. ASSUME NEW r, r = [ata EXCEPT !.irq = FALSE] \/ r = [ata EXCEPT !.dirty = FALSE]
      PROVE  SameDrive(ata, r)
  BY <1>b, ZenonT(30) DEF Protocol, SameDrive, SameRegisters, Mounted, Fields
<1>1. CASE SetUp  BY <1>1, SetUpKeepsProtocol
<1>2. CASE IssueCommand  BY <1>2, IssueKeepsProtocol
<1>3. CASE Poll
  <2>1. Moving  BY <1>3 DEF Poll, Protocol, InStep
  <2> QED  BY <1>3, <1>a, <2>1, DriverStep DEF Poll
<1>4. CASE ReadData  BY <1>4, ReadKeepsProtocol
<1>5. CASE WriteData  BY <1>5, WriteKeepsProtocol
<1>6. CASE Interrupted
  BY <1>6, <1>a, <1>b, DriverStep DEF Interrupted, ReadStatus
<1>7. CASE LeaveHandler
  <2>1. pc = "handler" /\ pc' = (IF Moving THEN "data" ELSE "idle")
    BY <1>7 DEF LeaveHandler, Moving
  <2> QED  BY <1>7, <1>a, <2>1, DriverStep DEF LeaveHandler
<1>8. CASE GiveUp  BY <1>8, GiveUpKeepsProtocol
<1>9. CASE ProbeSlave
  <2>1. /\ pc = "idle" /\ pc' = pc /\ UNCHANGED <<jobs, geometry, abort>>
        /\ ata' = WriteCommand(WriteTaskfile(WriteSelect(ata, 0, FALSE, TRUE), 2, 2, 2),
                               "identify")
    BY <1>9 DEF ProbeSlave, driver
  <2>2. /\ Mounted(ata') /\ ata'.direction = ata.direction /\ ata'.status = ata.status
        /\ ata'.SRST = ata.SRST /\ ata'.heads = ata.heads /\ ata'.track = ata.track
    BY <2>1, ProbeDrive DEF Protocol
  <2>3. DriverOK'  BY <2>1 DEF Protocol, DriverOK
  <2>4. Addressed' /\ InStep'  BY <2>1, <2>2 DEF Protocol, Addressed, InStep
  <2>5. DrqTold' /\ GeometryKnown'
    BY <2>1, <2>2 DEF Protocol, DrqTold, GeometryKnown
  <2> QED  BY <2>2, <2>3, <2>4, <2>5 DEF Protocol
<1>10. CASE Flush
  BY <1>10, <1>b, DriverStep DEF Flush, driver
<1>11. CASE UNCHANGED vars
  BY <1>11, <1>a, DriverStep DEF vars
<1> QED
  BY <1>1, <1>2, <1>3, <1>4, <1>5, <1>6, <1>7, <1>8, <1>9, <1>10, <1>11 DEF Next, Progress

\* While a transfer runs, its index is inside a buffer of whole sectors, whatever was
\* abandoned before and however the data port is accessed; and for a driver that
\* abandons transfers by a reset, DRQ tells whether the port moves bytes (write_command,
\* read_data_word, write_data_word).
THEOREM DrqIsTruthful == Spec => []DrqTruthful
<1>1. Protocol => DrqTruthful
  <2> SUFFICES ASSUME Protocol  PROVE DrqTruthful
    OBVIOUS
  <2>1. ASSUME ata.direction # "None"
        PROVE  Boundary(Len(ata.buffer)) /\ ata.index \in 0 .. Len(ata.buffer) - 1
    <3>1. InTransfer /\ Moving /\ job \in Jobs /\ moved \in 0 .. Total
      BY <2>1 DEF Protocol, InStep, DriverOK
    <3>2. Total \in Nat \ {0} /\ Boundary(Total)  BY <3>1, TotalFacts, TotalIs
    <3>3. Len(ata.buffer) = Total  BY <3>1, <3>2, BufferIsWhole
    <3>4. ata.index \in 0 .. Total - 1  BY <3>1, <3>2 DEF InTransfer, Moving
    <3> QED  BY <3>2, <3>3, <3>4
  <2> QED  BY <2>1 DEF Protocol, DrqTold, DrqTruthful
<1> QED  BY InitProtocol, NextProtocol, <1>1, PTL DEF Spec
-----------------------------------------------------------------------------
(* The drive implements Volume *)

Busy == pc # "idle" /\ job \in SectorJobs /\ moved # Total

\* What the volume sees outstanding is the driver's request, while there is one.
LEMMA OutstandingIs ==
  /\ Outstanding = IF Busy THEN Request(job, jobs) ELSE NoJob
  /\ Outstanding' = IF Busy' THEN Request(job', jobs') ELSE NoJob
  BY DEF Outstanding, Busy

\* A request is never taken for the absence of one.
LEMMA RequestIsSome ==
  ASSUME NEW j, NEW n
  PROVE  Request(j, n) # NoJob
<1> DEFINE r == Request(j, n)
<1>1. DOMAIN r = {"write", "lba", "count", "data"}  BY DEF Request
<1>2. DOMAIN NoJob = {"op", "lba", "count", "mode", "wide"}  BY DEF NoJob
<1> QED  BY <1>1, <1>2

Seen == <<ata.disk, Outstanding, answer>>

\* A step inside a request, or between two requests, that does not end a transfer.
LEMMA Stutters ==
  ASSUME ata'.disk = ata.disk, answer' = answer, Busy' <=> Busy,
         Busy => job' = job /\ jobs' = jobs
  PROVE  UNCHANGED Seen
  BY OutstandingIs DEF Seen

\* Steps that move no byte leave the volume's request outstanding.
LEMMA BusyStays ==
  ASSUME UNCHANGED <<job, moved>>, pc # "idle", pc' # "idle"
  PROVE  Busy' <=> Busy
  BY DEF Busy, Total

\* Setting a request up is the volume's submission.
LEMMA SetUpSubmits ==
  ASSUME Protocol, SetUp
  PROVE  V!Next \/ UNCHANGED Seen
<1>0. PICK j \in Jobs : \E head, lba, n, sector, cyl :
        job' = j /\ ata' = WriteTaskfile(WriteSelect(ata, head, lba, FALSE), n, sector, cyl)
  BY SetUpWrites
<1>1. PICK head, lba, n, sector, cyl :
        job' = j /\ ata' = WriteTaskfile(WriteSelect(ata, head, lba, FALSE), n, sector, cyl)
  BY <1>0
<1>2. /\ pc = "idle" /\ pc' = "command" /\ jobs < MaxJobs /\ jobs' = jobs + 1
      /\ moved' = 0 /\ answer' = answer
  BY DEF SetUp
<1>3. ata'.disk = ata.disk
  <2>1. Taskfile(ata, ata', head, lba, n, sector, cyl)
    BY <1>1, SetTaskfile DEF Protocol
  <2> QED  BY <2>1 DEF Taskfile
<1>4. Outstanding = NoJob /\ ~Busy  BY <1>2, OutstandingIs DEF Busy
<1>5. CASE j \in SectorJobs
  <2>1. Busy'
    <3>1. TotalOf(j) \in Nat \ {0} /\ Total' = TotalOf(j)  BY <1>1, TotalFacts, TotalIs
    <3> QED  BY <1>1, <1>2, <1>5, <3>1 DEF Busy, SectorJobs
  <2>2. Outstanding' = Request(j, jobs')  BY <1>1, <2>1, OutstandingIs
  <2>3. jobs' \in 1 .. MaxJobs  BY <1>2, BoundIsNat DEF Protocol, DriverOK
  <2>4. Outstanding' \in Requested  BY <1>5, <2>2, <2>3 DEF Requested
  <2>5. V!Submit  BY <1>2, <1>3, <1>4, <2>4 DEF V!Submit
  <2> QED  BY <2>5 DEF V!Next
<1>6. CASE j \notin SectorJobs
  <2>1. ~Busy'  BY <1>1, <1>6 DEF Busy, SectorJobs
  <2> QED  BY <1>2, <1>3, <1>4, <2>1, Stutters
<1> QED  BY <1>5, <1>6

\* The last access of a read hands the driver the sectors it asked for, as they are on
\* the image now.
LEMMA ReadReads ==
  ASSUME Protocol, ReadData
  PROVE  V!Next \/ UNCHANGED Seen
<1>1. /\ pc = "data" /\ Moved /\ ~IsWrite /\ UNCHANGED <<job, jobs, geometry, abort>>
      /\ SameRegisters(ata, ata')
      /\ job.op \in ReadCommands => got' = [i \in 1 .. moved' |-> ata.buffer[i]]
  BY ReadDataStep
<1>2. answer' = IF pc' = "idle" /\ job.op # "identify" THEN got' ELSE answer
  BY DEF ReadData
<1>3. /\ InTransfer /\ Moving /\ job \in Jobs /\ moved \in Nat /\ Total \in Nat
      /\ Width \in {1, 2} /\ moved + Width <= Total /\ moved' = moved + Width
  BY <1>1, AtDataPort DEF Moved
<1>4. ata'.disk = ata.disk /\ Total' = Total
  BY <1>1 DEF SameRegisters, Total
<1>5. CASE moved' < Total
  <2>1. pc' # "idle"  BY <1>1, <1>3, <1>5 DEF Moved
  <2>2. moved # Total /\ moved' # Total  BY <1>3, <1>5
  <2>3. Busy' <=> Busy  BY <1>1, <1>4, <2>1, <2>2 DEF Busy, SectorJobs
  <2> QED  BY <1>1, <1>2, <1>4, <2>1, <2>3, Stutters
<1>6. CASE moved' = Total
  <2>1. pc' = "idle"  BY <1>1, <1>3, <1>6 DEF Moved
  <2>2. ~Busy'  BY <2>1 DEF Busy
  <2>3. CASE job \in SectorJobs
    <3>1. job.op \in ReadCommands /\ job.op # "identify"
      BY <1>1, <2>3 DEF SectorJobs, IsWrite, ReadCommands, WriteCommands
    <3>2. Busy  BY <1>1, <1>3, <2>3 DEF Busy, Moving
    <3>3. Outstanding = Request(job, jobs) /\ Outstanding' = NoJob
      BY <2>2, <3>2, OutstandingIs
    <3>4. ata.buffer = Extent(ata.disk, job.lba, SectorsOf(job))
          /\ ata.buffer = [i \in 1 .. Total |-> ata.buffer[i]]
      BY <1>3, <3>1 DEF InTransfer
    <3>5. got' = [i \in 1 .. Total |-> ata.buffer[i]]  BY <1>1, <1>6, <3>1
    <3>6. answer' = Extent(ata.disk, job.lba, SectorsOf(job))
      BY <1>2, <2>1, <3>1, <3>4, <3>5
    <3>7. /\ Request(job, jobs).lba = job.lba
          /\ Request(job, jobs).count = SectorsOf(job)
          /\ ~Request(job, jobs).write
      BY <1>1 DEF Request, SectorsOf, IsWrite
    <3>8. V!Read
      BY <1>4, <3>3, <3>6, <3>7, RequestIsSome DEF V!Read
    <3> QED  BY <3>8 DEF V!Next
  <2>4. CASE job \notin SectorJobs
    <3>1. ~Busy /\ ~Busy'  BY <2>2, <2>4 DEF Busy
    <3>2. job.op = "identify"
      BY <1>3, <2>4 DEF Moving, Moves, SectorJobs
    <3> QED  BY <1>2, <1>4, <3>1, <3>2, Stutters
  <2> QED  BY <2>3, <2>4
<1> QED  BY <1>3, <1>5, <1>6

\* The last access of a write replaces the sectors the driver asked for by what it sent,
\* and no earlier one touches the image.
LEMMA WriteWrites ==
  ASSUME Protocol, WriteData
  PROVE  V!Next \/ UNCHANGED Seen
<1>1. /\ pc = "data" /\ Moved /\ IsWrite /\ UNCHANGED <<job, jobs, geometry, got, abort>>
      /\ ata'.buffer = [i \in 1 .. Total |-> ata'.buffer[i]]
      /\ \A i \in 1 .. moved' : ata'.buffer[i] = Sent(i)
      /\ ata'.disk = IF moved' = Total THEN Store(ata.disk, job.lba, ata'.buffer)
                                       ELSE ata.disk
  BY WriteDataStep
<1>2. answer' = answer  BY DEF WriteData
<1>3. /\ job \in Jobs /\ moved \in Nat /\ Total \in Nat
      /\ Width \in {1, 2} /\ moved + Width <= Total /\ moved' = moved + Width
  BY <1>1, AtDataPort DEF Moved
<1>4. Total' = Total  BY <1>1 DEF Total
<1>5. job \in SectorJobs /\ moved # Total /\ pc' # "idle"
  BY <1>1, <1>3 DEF SectorJobs, IsWrite, Moved
<1>6. Busy  BY <1>1, <1>5 DEF Busy
<1>7. CASE moved' < Total
  <2>1. moved' # Total  BY <1>3, <1>7
  <2>2. Busy'  BY <1>1, <1>4, <1>5, <2>1 DEF Busy, SectorJobs
  <2> QED  BY <1>1, <1>2, <1>6, <2>1, <2>2, Stutters
<1>8. CASE moved' = Total
  <2>1. ~Busy'  BY <1>4, <1>8 DEF Busy
  <2>2. Outstanding = Request(job, jobs) /\ Outstanding' = NoJob
    BY <1>6, <2>1, OutstandingIs
  <2>3. Total = SectorsOf(job) * SectorBytes
    <3>1. job.op # "identify"  BY <1>1 DEF IsWrite, WriteCommands
    <3> QED  BY <3>1, TotalIs DEF TotalOf
  <2>4. ata'.buffer = [i \in 1 .. Total |-> <<jobs, i>>]
    BY <1>1, <1>8 DEF Sent
  <2>5. /\ Request(job, jobs).lba = job.lba /\ Request(job, jobs).write
        /\ Request(job, jobs).data = [i \in 1 .. Total |-> <<jobs, i>>]
    BY <1>1, <2>3 DEF Request, SectorsOf, IsWrite
  <2>6. ata'.disk = Store(ata.disk, Outstanding.lba, Outstanding.data)
    BY <1>1, <1>8, <2>2, <2>4, <2>5
  <2>7. V!Write  BY <1>2, <2>2, <2>5, <2>6, RequestIsSome DEF V!Write
  <2> QED  BY <2>7 DEF V!Next
<1> QED  BY <1>3, <1>7, <1>8

\* Every step of the drive is a step of the volume, or invisible in it.
LEMMA VolumeStep == Protocol /\ [Next]_vars => [V!Next]_Seen
<1> SUFFICES ASSUME Protocol, [Next]_vars  PROVE V!Next \/ UNCHANGED Seen
  OBVIOUS
<1>a. Mounted(ata)  BY DEF Protocol
<1>b. [ata EXCEPT !.irq = FALSE].disk = ata.disk /\ [ata EXCEPT !.dirty = FALSE].disk = ata.disk
  BY <1>a DEF Mounted, Fields
<1>1. CASE SetUp  BY <1>1, SetUpSubmits
<1>2. CASE IssueCommand
  <2>1. /\ ata' = WriteCommand(ata, job.op) /\ ata.slave = FALSE
        /\ pc # "idle" /\ pc' # "idle" /\ UNCHANGED <<job, jobs, moved, answer>>
    BY <1>2 DEF IssueCommand, Protocol, Addressed
  <2>2. ata'.disk = ata.disk
    <3>1. CASE job.op \in Moves
      BY <1>a, <2>1, <3>1, StartCommand DEF Prepared, SameRegisters
    <3>2. CASE job.op \notin Moves
      BY <1>a, <2>1, <3>2, FinishCommand DEF Finished
    <3> QED  BY <3>1, <3>2
  <2> QED  BY <2>1, <2>2, BusyStays, Stutters
<1>3. CASE Poll
  BY <1>3, BusyStays, Stutters DEF Poll
<1>4. CASE ReadData  BY <1>4, ReadReads
<1>5. CASE WriteData  BY <1>5, WriteWrites
<1>6. CASE Interrupted
  <2>1. ata'.disk = ata.disk  BY <1>6, <1>b DEF Interrupted, ReadStatus
  <2> QED  BY <1>6, <2>1, BusyStays, Stutters DEF Interrupted
<1>7. CASE LeaveHandler
  <2>1. /\ pc = "handler" /\ pc' = (IF Moving THEN "data" ELSE "idle")
        /\ UNCHANGED <<ata, job, jobs, moved, answer>>
    BY <1>7 DEF LeaveHandler, Moving
  <2>2. CASE Moving  BY <2>1, <2>2, BusyStays, Stutters
  <2>3. CASE ~Moving
    <3>1. job \in SectorJobs => moved = Total
      <4>1. job \in Jobs /\ moved \in 0 .. Total  BY <2>1 DEF Protocol, DriverOK
      <4>2. Total \in Nat  BY <4>1, TotalFacts, TotalIs
      <4>3. job \in SectorJobs => ~(moved < Total)
        BY <2>3 DEF Moving, SectorJobs, Moves
      <4> QED  BY <4>1, <4>2, <4>3
    <3>2. ~Busy /\ ~Busy'  BY <2>1, <2>3, <3>1 DEF Busy
    <3> QED  BY <2>1, <3>2, Stutters
  <2> QED  BY <2>2, <2>3
<1>8. CASE GiveUp
  <2>1. ~Busy' /\ answer' = answer  BY <1>8 DEF GiveUp, Busy
  <2>2. ata'.disk = ata.disk
    <3>1. ata.SRST = FALSE /\ ata.slave = FALSE
      BY <1>8 DEF GiveUp, Protocol, Addressed
    <3>2. CASE abort = "reset"
      BY <1>8, <1>a, <3>1, <3>2, ResetDrive DEF GiveUp
    <3>3. CASE abort # "reset"
      <4>1. "set features" \notin Moves  BY DEF Moves, ReadCommands, WriteCommands
      <4>2. Finished(ata, ata', "set features")
        BY <1>8, <1>a, <3>1, <3>3, <4>1, FinishCommand DEF GiveUp
      <4> QED  BY <4>2 DEF Finished
    <3> QED  BY <3>2, <3>3
  <2>3. CASE Busy
    <3>1. Outstanding # NoJob /\ Outstanding' = NoJob
      BY <2>1, <2>3, OutstandingIs, RequestIsSome
    <3>2. V!GiveUp  BY <2>1, <2>2, <3>1 DEF V!GiveUp
    <3> QED  BY <3>2 DEF V!Next
  <2>4. CASE ~Busy  BY <2>1, <2>2, <2>4, Stutters
  <2> QED  BY <2>3, <2>4
<1>9. CASE ProbeSlave
  <2>1. ~Busy /\ ~Busy' /\ answer' = answer  BY <1>9 DEF ProbeSlave, Busy, driver
  <2>2. ata'.disk = ata.disk  BY <1>9, <1>a, ProbeDrive DEF ProbeSlave
  <2> QED  BY <2>1, <2>2, Stutters
<1>10. CASE Flush
  <2>1. UNCHANGED <<pc, job, jobs, moved, answer>>  BY <1>10 DEF Flush, driver
  <2>2. Busy' <=> Busy  BY <2>1 DEF Busy, Total
  <2>3. ata'.disk = ata.disk  BY <1>10, <1>b DEF Flush
  <2> QED  BY <2>1, <2>2, <2>3, Stutters
<1>11. CASE UNCHANGED vars
  <2>1. Busy' <=> Busy  BY <1>11 DEF vars, Busy, Total
  <2> QED  BY <1>11, <2>1, Stutters DEF vars
<1> QED
  BY <1>1, <1>2, <1>3, <1>4, <1>5, <1>6, <1>7, <1>8, <1>9, <1>10, <1>11 DEF Next, Progress

\* The drive implements Volume for every image, geometry, sector size and set of jobs: a
\* sector transfer reads or replaces, all at once, exactly the sectors the driver asked
\* for, by LBA or by cylinder, head and sector, by words or by bytes; one that is given
\* up leaves the image as it was (write_data_word, read_data_word, current_lba).
THEOREM DriveImplementsVolume == Spec => VolumeSpec
<1>1. Init => V!Init
  <2> SUFFICES ASSUME Init  PROVE V!Init
    OBVIOUS
  <2>1. pc = "idle" /\ answer = << >>  BY DEF Init
  <2> QED  BY <2>1 DEF V!Init, Outstanding
<1> QED  BY <1>1, InitProtocol, NextProtocol, VolumeStep, PTL
         DEF Spec, VolumeSpec, V!Spec, Seen
=============================================================================
