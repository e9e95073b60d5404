----------------------------- MODULE Allocator -----------------------------
(***************************************************************************)
(* What a heap promises its callers, whatever its blocks look like: the    *)
(* memory it hands out belongs to one caller until that caller gives it    *)
(* back.  The promise ends when two calls overlap, since neither of the    *)
(* heaps of the system protects its blocks.                                *)
(***************************************************************************)
EXTENDS Integers

CONSTANT MaxAddress     (* addresses are 0 .. MaxAddress                   *)

VARIABLES
  live,     (* the ranges handed out, [lo, hi) each                        *)
  raced     (* two calls overlapped                                        *)

allocatorVars == <<live, raced>>

(* copy tells equal ranges apart: a heap that hands out the same range     *)
(* again has one with copy 1, which is no range of an allocator.           *)
Ranges == [lo : 0 .. MaxAddress, hi : 0 .. MaxAddress, copy : {0}]

Apart(r, s) == r.hi <= s.lo \/ s.hi <= r.lo

AllocatorInit == live = {} /\ raced = FALSE

Grant ==
  \E r \in Ranges :
    /\ r.lo < r.hi
    /\ \A s \in live : Apart(r, s)
    /\ live' = live \cup {r}

Release == \E r \in live : live' = live \ {r}

AllocatorNext ==
  /\ raced => raced'
  /\ raced' \/ Grant \/ Release \/ live' = live

AllocatorSpec == AllocatorInit /\ [][AllocatorNext]_allocatorVars

=============================================================================
