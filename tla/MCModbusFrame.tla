--------------------------- MODULE MCModbusFrame ---------------------------
(***************************************************************************)
(* Arguments at the edges of their ranges: ids and addresses just inside   *)
(* and just outside, coil counts around a byte boundary, and register      *)
(* counts around the longest frame (123 registers fit, 124 do not).  3194  *)
(* is the CRC of <<16, 24>> as the bytes are sent: a reply to F24 of slave *)
(* 16 at that address, cut after it, passes.                               *)
(***************************************************************************)
EXTENDS ModbusFrame, ModbusTables

EdgeSlaves == {-1, 16, 255, 256}
EdgeStarts == {-1, 3194, 65535, 65536}
EdgeWords == {0, 4660, 65536}
EdgeCounts == {0, 1, 9, 35, 36, 123, 124}
EdgeSubCounts == {0, 1, 2, 5}
EdgeCoils == {0, 1, 7, 8, 9, 1968, 1976}

=============================================================================
