----------------------------- MODULE MCCsvDataset -----------------------------
(***************************************************************************)
(* Instance of CsvDataset for TLC: every file of at most MaxLength           *)
(* characters over one letter.                                              *)
(***************************************************************************)
EXTENDS CsvDataset

CONSTANT x
=============================================================================
