--------------------------- MODULE MCBatchInsert ---------------------------
(* BatchInsert on batches of up to three rows, of two texts and the two ways a row *)
(* fails: the constants are given in the .cfg files.                                *)
EXTENDS BatchInsert
=============================================================================
