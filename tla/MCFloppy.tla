------------------------------ MODULE MCFloppy ------------------------------
\* Whole tracks and parts of tracks, read with and without the sync word.
EXTENDS Floppy

Read(drive, cyl, side, length, wordsync) ==
  [drive |-> drive, cyl |-> cyl, side |-> side, write |-> FALSE, length |-> length,
   wordsync |-> wordsync, whole |-> TRUE]
Write(drive, cyl, side, length, whole) ==
  [drive |-> drive, cyl |-> cyl, side |-> side, write |-> TRUE, length |-> length,
   wordsync |-> TRUE, whole |-> whole]

MCJobs ==
  {Read(0, 0, 0, 5, TRUE), Read(0, 0, 1, 2, FALSE), Read(0, 1, 1, 3, TRUE),
   Read(1, 0, 0, 2, TRUE), Write(0, 0, 0, 5, TRUE), Write(0, 0, 1, 4, TRUE),
   Write(1, 1, 0, 3, TRUE), Write(0, 0, 0, 5, FALSE)}

\* The two sides of one cylinder.
SideJobs == {Read(0, 0, 0, 5, TRUE), Read(0, 0, 1, 5, TRUE)}
=============================================================================
