------------------------------ MODULE MCTFMem ------------------------------
(***************************************************************************)
(* An instance of TFMem on a scaled geometry: a header of one byte, blocks *)
(* cut in two, small items of 1 and 4 bytes.  As in TFMEM.C the largest    *)
(* small item is as large as the smallest large one and as the block that  *)
(* is cut for the smallest (1024 there, 4 here): the first item of a cut   *)
(* block can be cut again, a small item can serve a large request, and a   *)
(* large block of 6 can shrink to 4 or be cut.  12 bytes of heap hold each *)
(* of these cases, two blocks held while a third is handed out or moved.   *)
(***************************************************************************)
EXTENDS TFMem

CONSTANTS t1, t2, null

AllSizes == {1, 3, 4, 6}
=============================================================================
