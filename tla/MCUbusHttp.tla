------------------------------ MODULE MCUbusHttp ------------------------------
(* A small instance of UbusHttp for TLC. *)
EXTENDS UbusHttp
CONSTANTS provider, browser, id1, id2
=============================================================================
