--------------------------- MODULE MCBlockAdapter ---------------------------
EXTENDS BlockAdapter

(* Calls within the card.  Sizes are those of sectors that are a block, a  *)
(* part of a block, and one and a half blocks.                             *)
InCard ==
  {r \in [op : {"read", "write", "erase"}, sector : 0 .. (Units - 1),
          count : 1 .. MaxUnits, size : 1 .. 3, val : Values] :
     To(r) < Units /\ r.count * r.size <= MaxUnits}

Aligned == {r \in InCard : Fits(r)}
=============================================================================
