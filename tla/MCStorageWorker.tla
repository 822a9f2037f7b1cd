---------------------------- MODULE MCStorageWorker ----------------------------
(* Three callers compete for the two ordinary slots of a capacity of three. *)
EXTENDS StorageWorker

CONSTANTS a, b, c
ThreeCallers == {a, b, c}
=============================================================================
