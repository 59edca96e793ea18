-------------------------------- MODULE Ata --------------------------------
(***************************************************************************)
(* crates/rumiga-core/src/ide.rs: the ATA drive behind Gayle, as operators   *)
(* on one record.  The status register is the set of its bits, the taskfile  *)
(* keeps lcyl and hcyl as one cylinder number and the bits of select as      *)
(* head, lba and slave.  The image and the data buffer are sequences of      *)
(* bytes; what a byte holds is the user's choice.                           *)
(***************************************************************************)
EXTENDS Integers, Sequences

CONSTANTS
  SectorBytes,   \* 512
  SectorsOfZero, \* sectors a transfer with nsector = 0 has: 256
  Blank          \* the byte zero

ASSUME AtaAssumption == /\ SectorBytes \in Nat \ {0} /\ SectorBytes % 2 = 0
                        /\ SectorsOfZero \in Nat \ {0}

Open == "0xFF"   \* an undriven byte

ReadCommands  == {"read sectors", "read multiple"}
WriteCommands == {"write sectors", "write multiple"}
Command == {"identify", "initialize parameters", "diagnostics", "set features", "seek",
            "verify", "set multiple", "unsupported"} \cup ReadCommands \cup WriteCommands

Signature == [nsector |-> 1, sector |-> 1, cyl |-> 0]

\* The first blocks of an image may hold a Rigid Disk Block.  Of a block's header:
\* whether it begins with RDSK or CDSK, how many longwords its checksum covers and
\* whether they add up to zero, and the geometry it claims.
RdbHeader == [identified : BOOLEAN, longwords : Nat, sums : BOOLEAN, bytes : Nat,
              cylinders : Nat, sectors : Nat, heads : Nat]

RdbScanBlocks == 16

ChecksumValid(header, offset, size) ==
  /\ header.longwords # 0 /\ 4 * header.longwords <= 65536
  /\ offset + 4 * header.longwords <= size
  /\ header.sums

\* Without a block size of its own a header has the size of its checksum.
Usable(header, offset, size) ==
  /\ ChecksumValid(header, offset, size)
  /\ header.cylinders # 0 /\ header.cylinders <= 16383
  /\ header.heads # 0 /\ header.heads <= 255
  /\ header.sectors # 0 /\ header.sectors <= 65535
  /\ SectorBytes = IF header.bytes = 0 THEN 4 * header.longwords ELSE header.bytes

FallbackGeometry == [heads |-> 16, track |-> 63]

\* The first header decides; when it is not usable, or there is none, the drive has
\* the heads and sectors of an IDE translation.
GeometryOf(headers, size) ==
  LET found(b) == b < size \div SectorBytes /\ headers[b].identified
      first(b) == found(b) /\ \A c \in 0 .. b - 1 : ~found(c)
      usable   == {b \in 0 .. RdbScanBlocks - 1 :
                     first(b) /\ Usable(headers[b], b * SectorBytes, size)}
  IN  IF usable = {} THEN FallbackGeometry
      ELSE LET b == CHOOSE b \in usable : TRUE
           IN  [heads |-> headers[b].heads, track |-> headers[b].sectors]

NewController ==
  [status |-> {"DRDY", "DSC"}, error |-> 1, nsector |-> 1, sector |-> 1, cyl |-> 0,
   head |-> 0, lba |-> FALSE, slave |-> FALSE, nIEN |-> FALSE, SRST |-> FALSE,
   command |-> "none", buffer |-> << >>, index |-> 0, direction |-> "None",
   disk |-> << >>, present |-> FALSE, dirty |-> FALSE, irq |-> FALSE,
   heads |-> 16, track |-> 63]

InsertDisk(d, image, headers) ==
  LET geometry == GeometryOf(headers, Len(image))
  IN  [d EXCEPT !.disk = image, !.present = TRUE, !.dirty = FALSE,
                !.heads = geometry.heads, !.track = geometry.track]

\* In LBA the bits of select are those above sector, lcyl and hcyl.
HeadWeight == 16777216

WrongCurrentLba(d) ==
  IF d.lba THEN d.sector + 256 * d.cyl + HeadWeight * d.head
           ELSE (d.cyl * d.heads + d.head) * d.track + d.sector

\* The sector the taskfile addresses now.
CurrentLba(d) ==
  IF d.lba THEN d.sector + 256 * d.cyl + HeadWeight * d.head
           ELSE (d.cyl * d.heads + d.head) * d.track + (IF d.sector = 0 THEN 0 ELSE d.sector - 1)

Count(d) == IF d.nsector = 0 THEN SectorsOfZero ELSE d.nsector

Zeros(n) == [i \in 1 .. n |-> Blank]

\* What the image holds from sector lba on, zeros beyond its end.
Extent(disk, lba, count) ==
  [i \in 1 .. count * SectorBytes |->
     IF lba * SectorBytes + i <= Len(disk) THEN disk[lba * SectorBytes + i] ELSE Blank]

\* The image with bytes stored from sector lba on; it grows when it is too short.
Store(disk, lba, bytes) ==
  LET first == lba * SectorBytes
      size  == IF first + Len(bytes) > Len(disk) THEN first + Len(bytes) ELSE Len(disk)
  IN  [i \in 1 .. size |-> IF i \in first + 1 .. first + Len(bytes) THEN bytes[i - first]
                           ELSE IF i <= Len(disk) THEN disk[i] ELSE Blank]

\* Whether the byte at index i starts a sector.
Boundary(i) == i % SectorBytes = 0

ReadRegister(d, reg) ==
  IF ~d.present THEN (IF reg = "status" THEN {"0x7F"} ELSE {Open})
  ELSE IF d.slave THEN (IF reg = "status" THEN {"ERR"} ELSE {})
  ELSE IF reg = "status" THEN d.status ELSE {Open}

WriteControl(d, srst, nien) ==
  LET e == [d EXCEPT !.SRST = srst, !.nIEN = nien]
  IN  CASE srst /\ ~d.SRST ->
             [e EXCEPT !.status = {"BSY"}, !.error = 1, !.nsector = Signature.nsector,
                       !.sector = Signature.sector, !.cyl = Signature.cyl,
                       !.direction = "None"]
        [] ~srst /\ d.SRST -> [e EXCEPT !.status = {"DRDY", "DSC"}]
        [] OTHER -> e

WriteSelect(d, head, lba, slave) ==
  [d EXCEPT !.head = head, !.lba = lba, !.slave = slave]

WriteTaskfile(d, nsector, sector, cyl) ==
  IF d.slave THEN d
  ELSE [d EXCEPT !.nsector = nsector, !.sector = sector, !.cyl = cyl]

\* The 512 bytes IDENTIFY returns.
IdentifyData == [i \in 1 .. SectorBytes |-> <<"identify", i>>]

\* A data command: the buffer is ready and DRQ is set.
StartTransfer(d, direction, bytes) ==
  [d EXCEPT !.status = (@ \ {"BSY"}) \cup {"DRQ", "DRDY"}, !.buffer = bytes, !.index = 0,
            !.direction = direction]

\* A command without data: DRQ and the buffer stay as they are.
Finish(d) == [d EXCEPT !.status = (@ \ {"BSY"}) \cup {"DRDY"}, !.direction = "None",
                       !.irq = TRUE]

WriteCommand(d, cmd) ==
  LET e == [d EXCEPT !.command = cmd, !.status = @ \ {"ERR"}, !.error = 1]
  IN  CASE d.slave -> d
        [] ~d.slave /\ cmd = "identify" ->
             [StartTransfer(e, "Read", IdentifyData) EXCEPT !.irq = TRUE]
        [] ~d.slave /\ cmd \in ReadCommands ->
             [StartTransfer(e, "Read", Extent(d.disk, CurrentLba(d), Count(d)))
                EXCEPT !.irq = TRUE]
        [] ~d.slave /\ cmd \in WriteCommands ->
             StartTransfer(e, "Write", Zeros(Count(d) * SectorBytes))
        [] ~d.slave /\ cmd = "initialize parameters" ->
             [Finish(e) EXCEPT !.heads = d.head + 1, !.track = d.nsector]
        [] ~d.slave /\ cmd = "diagnostics" ->
             [Finish(e) EXCEPT !.nsector = 1, !.sector = 1, !.cyl = 0]
        [] ~d.slave /\ cmd = "seek" -> [Finish(e) EXCEPT !.sector = 1, !.cyl = 0]
        [] ~d.slave /\ cmd = "unsupported" ->
             LET f == Finish(e) IN [f EXCEPT !.status = @ \cup {"ERR"}, !.error = 4]
        [] OTHER -> Finish(e)

\* The word read_data_word returns, one byte at a time; an odd index can leave one
\* byte, which reads as open.
DataWord(d) ==
  IF d.direction # "Read" \/ d.buffer = << >> \/ d.index + 2 > Len(d.buffer)
  THEN <<Open, Open>>
  ELSE IF d.command = "identify" THEN <<d.buffer[d.index + 2], d.buffer[d.index + 1]>>
       ELSE <<d.buffer[d.index + 1], d.buffer[d.index + 2]>>

WrongReadKeepsDrq(d, n) ==
  IF d.direction # "Read" \/ d.buffer = << >> THEN d
  ELSE LET next == d.index + n
       IN  IF next >= Len(d.buffer) THEN [d EXCEPT !.index = next, !.direction = "None"]
           ELSE [d EXCEPT !.index = next, !.irq = @ \/ Boundary(next)]

\* n bytes have been read: two by a word access, one by a byte access.
AfterRead(d, n) ==
  IF d.direction # "Read" \/ d.buffer = << >> THEN d
  ELSE LET next == d.index + n
       IN  IF next >= Len(d.buffer)
           THEN [d EXCEPT !.index = next, !.status = @ \ {"DRQ"}, !.direction = "None"]
           ELSE [d EXCEPT !.index = next, !.irq = @ \/ Boundary(next)]

\* The buffer with bytes stored at the index, if they all fit.
Filled(d, bytes) ==
  IF d.index + Len(bytes) > Len(d.buffer) THEN d.buffer
  ELSE [i \in 1 .. Len(d.buffer) |->
          IF i \in d.index + 1 .. d.index + Len(bytes) THEN bytes[i - d.index] ELSE d.buffer[i]]

WrongCommitClean(d) ==
  [d EXCEPT !.status = @ \ {"DRQ", "BSY"}, !.direction = "None", !.irq = TRUE,
            !.disk = IF d.present THEN Store(@, CurrentLba(d), d.buffer) ELSE @]

\* The last byte has come: the image takes the buffer at the sector the taskfile
\* addresses now.
Commit(d) ==
  [d EXCEPT !.status = @ \ {"DRQ", "BSY"}, !.direction = "None", !.irq = TRUE,
            !.disk = IF d.present THEN Store(@, CurrentLba(d), d.buffer) ELSE @,
            !.dirty = @ \/ d.present]

WrongWriteSilent(d, bytes) ==
  IF d.direction # "Write" \/ d.buffer = << >> THEN d
  ELSE LET next == d.index + Len(bytes)
           e    == [d EXCEPT !.buffer = Filled(d, bytes), !.index = next]
       IN  IF next >= Len(d.buffer) THEN Commit(e) ELSE e

\* write_data_word (two bytes) and write_data_byte (one).
AfterWrite(d, bytes) ==
  IF d.direction # "Write" \/ d.buffer = << >> THEN d
  ELSE LET next == d.index + Len(bytes)
           e    == [d EXCEPT !.buffer = Filled(d, bytes), !.index = next]
       IN  IF next >= Len(d.buffer) THEN Commit(e)
           ELSE [e EXCEPT !.irq = @ \/ Boundary(next)]

\* A byte access goes through the taskfile, which an absent slave does not have;
\* the word port does not look at the drive that is selected.
ReadDataByte(d)        == IF d.slave \/ ~d.present THEN d ELSE AfterRead(d, 1)
WriteDataByte(d, byte) == IF d.slave THEN d ELSE AfterWrite(d, <<byte>>)
=============================================================================
