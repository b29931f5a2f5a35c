--------------------------- MODULE MCModbusFrame ---------------------------
(***************************************************************************)
(* Small instances of ModbusFrame for TLC: the constants are in the .cfg.  *)
(***************************************************************************)
EXTENDS ModbusFrame
=============================================================================
