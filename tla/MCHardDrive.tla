---------------------------- MODULE MCHardDrive ----------------------------
\* Three sectors of four bytes; a Rigid Disk Block in the second with two heads of one
\* sector each, behind a block without one or behind one whose checksum covers more
\* than the image, which leaves the drive with the geometry of an IDE translation.
EXTENDS HardDrive

MCImage    == [i \in 1 .. 12 |-> <<0, i>>]
MCRdb(longwords) == [identified |-> TRUE, longwords |-> longwords, sums |-> TRUE, bytes |-> 0,
                     cylinders |-> 1, sectors |-> 1, heads |-> 2]
MCData     == [MCRdb(0) EXCEPT !.identified = FALSE]
MCHeaders  == {[b \in 0 .. 15 |-> IF b = 0 THEN first ELSE MCRdb(1)] :
                  first \in {MCData, MCRdb(4)}}
MCBlank    == <<0, 0>>

Job(op, lba, count, mode, wide) ==
  [op |-> op, lba |-> lba, count |-> count, mode |-> mode, wide |-> wide]

\* The last of the three sectors is written together with one beyond the end.
MCJobs ==
  {Job("read sectors", 1, 2, "lba", TRUE), Job("read multiple", 2, 1, "chs", FALSE),
   Job("write sectors", 2, 2, "chs", TRUE), Job("write multiple", 1, 1, "lba", FALSE),
   Job("write sectors", 0, 0, "lba", TRUE), Job("read sectors", 1, 0, "chs", TRUE),
   Job("identify", 0, 1, "lba", TRUE), Job("initialize parameters", 1, 2, "lba", TRUE)}
  \cup {Job(op, 1, 1, "lba", TRUE) : op \in {"diagnostics", "seek", "unsupported"}}
=============================================================================
