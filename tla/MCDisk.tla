------------------------------- MODULE MCDisk -------------------------------
(* A disk of 27 blocks of 4 bytes in 2 sectors each, with three groups of  *)
(* two inodes: an unaligned file, an empty one, one with singly indirect   *)
(* blocks, one with doubly indirect ones, one with more of them, and one   *)
(* in the last block of the disk.                                          *)
EXTENDS Disk

F(n, b) == [size |-> n, block |-> b]

MCInodeTable == <<3, 22, 24>>
MCFileInodes ==
  << F(7, <<6, 7, 0, 0, 0>>), F(0, <<0, 0, 0, 0, 0>>),
     F(14, <<8, 9, 10, 0, 0>>), F(18, <<6, 7, 10, 13, 0>>),
     F(26, <<8, 9, 10, 16, 0>>), F(3, <<26, 0, 0, 0, 0>>) >>
MCPointers ==
  [b \in 0 .. 26 |->
     CASE b = 10 -> <<11, 12>> [] b = 13 -> <<14, 0>> [] b = 14 -> <<15, 0>>
       [] b = 16 -> <<17, 18>> [] b = 17 -> <<19, 20>> [] b = 18 -> <<21, 0>>
       [] OTHER -> <<0, 0>>]

=============================================================================
