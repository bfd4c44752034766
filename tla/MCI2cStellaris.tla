--------------------------- MODULE MCI2cStellaris ---------------------------
(***************************************************************************)
(* I2cStellaris with the transaction shapes of the ADXL345 driver: two     *)
(* bytes written, one written and up to six read, and empty ones.          *)
(***************************************************************************)
EXTENDS I2cStellaris
=============================================================================
