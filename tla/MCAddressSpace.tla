--------------------------- MODULE MCAddressSpace ---------------------------
(* Images for AddressSpace: of the first module, up to three sections, well *)
(* placed ones, unaligned ones, overlapping ones, ones out of order and    *)
(* ones whose regions wrap; of the second, one that is well placed.        *)
EXTENDS AddressSpace

S(v, n) == [vaddr |-> v, size |-> n]

MCSections ==
  {S(v, n) : v \in {0, 3, 5, 11}, n \in {1, 4}} \cup {S(1, 1), S(6, 0), S(9, 3), S(39, 4)}
MCImages ==
  << {<<a, b>> : a, b \in MCSections} \cup {<<S(3, 3), S(11, 4), c>> : c \in {S(17, 1), S(17, 4), S(18, 3)}}
       \cup {<<S(3, 1), S(18, 1), c>> : c \in {S(39, 4), S(39, 6)}},
     {<<S(3, 5), S(10, 4)>>} >>

=============================================================================
