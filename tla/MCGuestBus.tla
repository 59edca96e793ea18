----------------------------- MODULE MCGuestBus -----------------------------
(***************************************************************************)
(* Instances of GuestBus for TLC: an A500 expanded with slow and fast RAM,  *)
(* an A600, with Gayle, and an A1200, whose processor reads words anywhere.  *)
(* The guest stores on both sides of every border of the map.               *)
(***************************************************************************)
EXTENDS GuestBus

MCRomByte(a) == (3 * a + 101 * (a \div 256)) % 251

MCAutoconfigBytes == <<193, 112, 0, 0, 2, 2, 18, 52, 86, 120, 0, 0>>

A500 == [chip |-> \h80000, slow |-> \h80000, fast |-> \h100000, rom |-> \h40000,
         gayle |-> FALSE, unaligned |-> FALSE]
A600 == [chip |-> \h100000, slow |-> 0, fast |-> 0, rom |-> \h80000,
         gayle |-> TRUE, unaligned |-> FALSE]
A1200 == [chip |-> \h200000, slow |-> 0, fast |-> \h800000, rom |-> \h80000,
          gayle |-> TRUE, unaligned |-> TRUE]

MCSetups ==
  {[model |-> model, board |-> board, plan |-> "memory"] :
     model \in {A500, A600, A1200}, board \in BOOLEAN}
  \cup {[model |-> A600, board |-> FALSE, plan |-> "registers"]}

MCBases == {\hE90000, \hEA0000}

Transfer(at, width) == [at |-> at, width |-> width, value |-> <<>>]

(* Stores across the borders of the areas, and into their mirrors. *)
MCProgram(model) ==
  {Transfer(at, 4) : at \in {\h100, \h7FFFE, \h1FFFFC, \h200000, \hC7FFFE, \hE97FFE, \hE9FFFE}}
  \cup {Transfer(at, 2) : at \in {\hF80000, \hEA8000, \hBFD100, \hBFE200}}
  \cup {Transfer(at, 1) : at \in {\h80101, \hC00001, \h2FFFFF, \h9FFFFF, \hE98001}}
  \cup {[at |-> \hBFE001, width |-> 1, value |-> <<byte>>] : byte \in {2, 3}}
  \cup {[at |-> \hBFE000, width |-> 2, value |-> <<1, 2>>]}
  \cup (IF model.unaligned THEN {Transfer(\h1FFFFF, 2), Transfer(\hE98003, 4)} ELSE {})

MCProbes(work, model) ==
  IF work = "registers" THEN {\h100, \hE00000} ELSE
  {\h100, \h101, \h102, \h7FFFE, \h80000, \h80100, \h100100, \h1FFFFE, \h1FFFFF, \h200000,
   \h2FFFFE, \h2FFFFF, \h9FFFFE, \hA00000, \hC00000, \hC7FFFE, \hBFD100, \hBFE200, \hBFE201,
   \hE00000, \hE3FFFE, \hE7FFFC, \hE80000, \hE80002, \hE8001A, \hE8002E, \hE98000, \hE98002,
   \hE9FFFE, \hEA8000, \hF80000, \hFBFFFE, \hFC0000, \hFFFFFC, \h1000000}
  \cup (IF model.unaligned THEN {\h1FFFFF, \hE98001, \hF7FFFF} ELSE {})

(* DMACON: master, copper and disk on, master off, blitter on; INTENA, INTREQ *)
(* and ADKCON: bits set, bits cleared; and a sprite's pointer.              *)
MCRegisterWrites ==
  {<<DMACON, <<130, 144>>>>, <<DMACON, <<2, 0>>>>, <<DMACON, <<128, 64>>>>,
   <<INTENA, <<192, 8>>>>, <<INTENA, <<64, 0>>>>, <<INTREQ, <<0, 40>>>>,
   <<INTREQ, <<128, 4>>>>, <<ADKCON, <<132, 1>>>>, <<ADKCON, <<4, 0>>>>, <<\h120, <<0, 1>>>>}

CopperMove(register, word) == [register |-> register, value |-> word]

MCCopperWrites ==
  {<<>>, <<CopperMove(INTREQ, <<128, 16>>)>>,
   <<CopperMove(DMACON, <<0, 16>>), CopperMove(\h120, <<0, 2>>)>>,
   <<CopperMove(ADKCON, <<128, 2>>)>>}

MCRequests == {5}

MCMaxSteps == [memory |-> 3, registers |-> 3]
=============================================================================
