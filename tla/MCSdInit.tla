------------------------------ MODULE MCSdInit ------------------------------
EXTENDS SdInit

(* A register from its bytes, the first one with the highest bits.         *)
Csd(bytes) == {i \in Register : (bytes[16 - i \div 8] \div 2^(i % 8)) % 2 = 1}

(* Cards of 2, 8 and 64 GB.                                                *)
Csd2GB  == Csd(<<\h00, \h2d, \h00, \h32, \h5b, \h5a, \h83, \ha9,
                 \hff, \hff, \hff, \h80, \h16, \h80, \h00, \h91>>)
Csd8GB  == Csd(<<\h40, \h0e, \h00, \h32, \h5b, \h59, \h00, \h00,
                 \h3b, \h37, \h7f, \h80, \h0a, \h40, \h40, \hc3>>)
Csd64GB == Csd(<<\h40, \h0e, \h00, \h32, \hdb, \h59, \h00, \h01,
                 \hd8, \hff, \h7f, \h80, \h0a, \h40, \h00, \h67>>)

Sd1 == [v2 |-> FALSE, ccs |-> FALSE, uhs |-> FALSE, csd |-> Csd2GB]
Sd2 == [Sd1 EXCEPT !.v2 = TRUE]
Hc == [v2 |-> TRUE, ccs |-> TRUE, uhs |-> FALSE, csd |-> Csd8GB]
Xc == [v2 |-> TRUE, ccs |-> TRUE, uhs |-> TRUE, csd |-> Csd64GB]
Unknown == [Hc EXCEPT !.csd = (@ \ {126}) \cup {127}]

JustStandard == {Sd2}
AllKinds == {Sd1, Sd2, Hc, Xc, Unknown}
=============================================================================
