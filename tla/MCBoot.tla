------------------------------- MODULE MCBoot -------------------------------
(* The configurations of init_rcc (main.c:67-108).                          *)
EXTENDS Boot

PllOf(src, m, n) == [src |-> src, m |-> m, n |-> n, p |-> 2, q |-> 7]
Conf3(source, p, apb1, apb2) == [source |-> source, pll |-> p, apb1 |-> apb1, apb2 |-> apb2]

InitRccConfigs == <<Conf3("pll", PllOf("hse", 25, 336), 4, 2),
                    Conf3("pll", PllOf("hsi", 16, 336), 4, 2),
                    Conf3("hsi", PllOf("hsi", 16, 336), 1, 1)>>
=============================================================================
