---------------------------- MODULE MCSdTransfer ----------------------------
EXTENDS SdTransfer

(* 0x5b5, the classes of an SD memory card; README.md logs its lower byte. *)
Physical == {0, 2, 4, 5, 7, 8, 10}

(* A card without the erase commands.                                      *)
WithoutErase == Physical \ {5}
=============================================================================
