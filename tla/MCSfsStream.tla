----------------------------- MODULE MCSfsStream -----------------------------
(* SfsStream for TLC: block_size scaled down to 2 data bytes, a file of at  *)
(* most 3 blocks, calls of up to 3 bytes, one non-zero value.   *)
EXTENDS SfsStream

MCVals == {1}

====
