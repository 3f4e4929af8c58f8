---------------------------- MODULE MCRecordStore ----------------------------
(* Two processes race on one record and on the current pointer. *)
EXTENDS RecordStore

CONSTANTS v1, v2, s1
=============================================================================
