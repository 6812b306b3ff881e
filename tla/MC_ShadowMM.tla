---------------------------- MODULE MC_ShadowMM ----------------------------
(***************************************************************************)
(* Model-checking instances of ShadowMM: a user area of 3 pages of 2 units *)
(* (so half-page lengths exist), page-aligned addresses inside it.         *)
(***************************************************************************)
EXTENDS ShadowMM

MC_Addrs  == {0, 2, 4}
MC_Addr0  == {0}
MC_Lens   == {2, 4}
MC_ULens  == {2, 3, 4}
MC_Prots  == {{"R", "W"}, {"R", "X"}}
MC_RW     == {{"R", "W"}}
MC_Flags  == {0, 1}
MC_Brk    == {2, 5}
MC_BrkUneven == {1, 3, 5}

=============================================================================
