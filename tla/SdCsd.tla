-------------------------------- MODULE SdCsd --------------------------------
(***************************************************************************)
(* The CSD, the register in which a card describes itself: its fields as   *)
(* the SD specification places them, and as read_csd_data (SD.c) cuts them *)
(* out of the four words of an R2 answer.  A register, a word and a field  *)
(* are here the sets of the bits that are 1.                               *)
(***************************************************************************)
EXTENDS Integers

Register == 0..127

Bits(csd, hi, lo) == {i - lo : i \in csd \cap (lo..hi)}

(* The first word has the highest bits.                                    *)
Taken(csd, word, hi, lo) == Bits(csd, 32 * (3 - word) + hi, 32 * (3 - word) + lo)

V1 == {}
V2 == {0}
CsdStructure(csd) == Taken(csd, 0, 31, 30)

LowWordShifted(csd) == Taken(csd, 2, 31, 15)
LowWord(csd) == Taken(csd, 2, 31, 16)
CSize(csd) ==
  IF CsdStructure(csd) = V1
    THEN {i + 2 : i \in Taken(csd, 1, 9, 0)} \cup Taken(csd, 2, 31, 30)
    ELSE {i + 16 : i \in Taken(csd, 1, 5, 0)} \cup LowWord(csd)

(* read_csd_data.  CCC is cut to a byte.                                   *)
Decoded(csd) == [
  CSD_STRUCTURE |-> CsdStructure(csd),         TAAC |-> Taken(csd, 0, 23, 16),
  NSAC |-> Taken(csd, 0, 15, 8),               TRAN_SPEED |-> Taken(csd, 0, 7, 0),
  CCC |-> Taken(csd, 1, 31, 20) \cap (0..7),   READ_BL_LEN |-> Taken(csd, 1, 19, 16),
  READ_BL_PARTIAL |-> Taken(csd, 1, 15, 15),   WRITE_BLK_MISALIGN |-> Taken(csd, 1, 14, 14),
  READ_BLK_MISALIGN |-> Taken(csd, 1, 13, 13), DSR_IMP |-> Taken(csd, 1, 12, 12),
  C_SIZE |-> CSize(csd),                       C_SIZE_MULT |-> Taken(csd, 0, 17, 15),
  VDD_R_CURR_MIN |-> Taken(csd, 0, 29, 27),    VDD_R_CURR_MAX |-> Taken(csd, 0, 26, 24),
  VDD_W_CURR_MIN |-> Taken(csd, 0, 23, 21),    VDD_W_CURR_MAX |-> Taken(csd, 0, 20, 18),
  ERASE_BLK_EN |-> Taken(csd, 2, 14, 14),      SECTOR_SIZE |-> Taken(csd, 2, 13, 7),
  WP_GRP_SIZE |-> Taken(csd, 2, 6, 0),         WP_GRP_ENABLE |-> Taken(csd, 3, 31, 31),
  R2W_FACTOR |-> Taken(csd, 3, 28, 26),        WRITE_BL_LEN |-> Taken(csd, 3, 25, 22),
  WRITE_BL_PARTIAL |-> Taken(csd, 3, 21, 21),  FILE_FORMAT_GRP |-> Taken(csd, 3, 15, 15),
  COPY |-> Taken(csd, 3, 14, 14),              PERM_WRITE_PROTECT |-> Taken(csd, 3, 13, 13),
  TMP_WRITE_PROTECT |-> Taken(csd, 3, 12, 12), FILE_FORMAT |-> Taken(csd, 3, 11, 10),
  CRC |-> Taken(csd, 3, 7, 1)]

(* The SD specification.                                                   *)
Meant(csd) == [
  CSD_STRUCTURE |-> Bits(csd, 127, 126),     TAAC |-> Bits(csd, 119, 112),
  NSAC |-> Bits(csd, 111, 104),              TRAN_SPEED |-> Bits(csd, 103, 96),
  CCC |-> Bits(csd, 95, 84),                 READ_BL_LEN |-> Bits(csd, 83, 80),
  READ_BL_PARTIAL |-> Bits(csd, 79, 79),     WRITE_BLK_MISALIGN |-> Bits(csd, 78, 78),
  READ_BLK_MISALIGN |-> Bits(csd, 77, 77),   DSR_IMP |-> Bits(csd, 76, 76),
  C_SIZE |-> IF Bits(csd, 127, 126) = V1 THEN Bits(csd, 73, 62) ELSE Bits(csd, 69, 48),
  VDD_R_CURR_MIN |-> Bits(csd, 61, 59),      VDD_R_CURR_MAX |-> Bits(csd, 58, 56),
  VDD_W_CURR_MIN |-> Bits(csd, 55, 53),      VDD_W_CURR_MAX |-> Bits(csd, 52, 50),
  C_SIZE_MULT |-> Bits(csd, 49, 47),
  ERASE_BLK_EN |-> Bits(csd, 46, 46),        SECTOR_SIZE |-> Bits(csd, 45, 39),
  WP_GRP_SIZE |-> Bits(csd, 38, 32),         WP_GRP_ENABLE |-> Bits(csd, 31, 31),
  R2W_FACTOR |-> Bits(csd, 28, 26),          WRITE_BL_LEN |-> Bits(csd, 25, 22),
  WRITE_BL_PARTIAL |-> Bits(csd, 21, 21),    FILE_FORMAT_GRP |-> Bits(csd, 15, 15),
  COPY |-> Bits(csd, 14, 14),                PERM_WRITE_PROTECT |-> Bits(csd, 13, 13),
  TMP_WRITE_PROTECT |-> Bits(csd, 12, 12),   FILE_FORMAT |-> Bits(csd, 11, 10),
  CRC |-> Bits(csd, 7, 1)]

(* Version 1 has these in the third word; the code takes them from the     *)
(* first.  Of version 2 it never looks at them.                            *)
Misread == {"VDD_R_CURR_MIN", "VDD_R_CURR_MAX", "VDD_W_CURR_MIN", "VDD_W_CURR_MAX",
            "C_SIZE_MULT"}

(* The register csd as read_csd_data sees it is the register card, but for *)
(* the fields above and the command classes from 8 to 11.                  *)
ReadAsMeant(csd, card) ==
  \A f \in DOMAIN Meant(card) \ Misread :
    Decoded(csd)[f] = IF f = "CCC" THEN Meant(card)[f] \cap (0..7) ELSE Meant(card)[f]
=============================================================================
