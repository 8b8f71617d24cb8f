---------------------------- MODULE MCUserMemory ----------------------------
(* Instances of the user address spaces for TLC.                           *)
EXTENDS UserMemory

(* Prots an instance uses: none of the bits, other bits, two good values.  *)
SomeProts == {{}, NoProt, {"R"}, {"R", "W"}}

OneProt == {{"R", "W"}}

(* Sizes for sbrk, in bytes, with pages of 2: across one page and two.     *)
SizesOfOne == {-3, -1, 0, 1, 2, 3}
SizesOfMany == {-2, 2}
=============================================================================
