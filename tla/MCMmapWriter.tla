----------------------------- MODULE MCMmapWriter -----------------------------
(***************************************************************************)
(* MmapWriter on a buffer of four bytes with counters that wrap every      *)
(* five, until the device has taken Total bytes.                           *)
(***************************************************************************)
EXTENDS MmapWriter
=============================================================================
