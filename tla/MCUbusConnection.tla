--------------------------- MODULE MCUbusConnection ---------------------------
(* A small instance of UbusConnection for TLC. *)
EXTENDS UbusConnection
CONSTANTS uci, system, id1, id2, denied
=============================================================================
