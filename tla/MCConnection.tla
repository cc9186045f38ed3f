--------------------------- MODULE MCConnection ---------------------------
(* Small instances of Connection for TLC. *)
EXTENDS Connection

CONSTANTS r1, r2, a1, a2, loop

Interchangeable == Permutations({r1, r2})

=============================================================================
