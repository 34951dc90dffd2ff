-------------------------- MODULE MCNativeAtomics --------------------------
(***************************************************************************)
(* A two-bit word, two threads, and every kind of call: inc, dec, and, or, *)
(* a compare-and-swap and a swap.                                          *)
(***************************************************************************)
EXTENDS NativeAtomics, Bitwise

AllArchs == {"arm", "mips", "x86"}

BitAnd(a, b) == a & b
BitOr(a, b) == a | b

Calls ==
    { [op |-> "add", arg |-> 1,  old |-> 0],
      [op |-> "add", arg |-> -1, old |-> 0],
      [op |-> "and", arg |-> 2,  old |-> 0],
      [op |-> "or",  arg |-> 1,  old |-> 0],
      [op |-> "cas", arg |-> 3,  old |-> 1],
      [op |-> "swap", arg |-> 2, old |-> 0] }

=============================================================================
