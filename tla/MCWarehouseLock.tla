-------------------------- MODULE MCWarehouseLock ---------------------------
EXTENDS WarehouseLock

CONSTANTS a1, a2, a3, api, worker

(* Two accesses of the API, one of the worker.                              *)
MCProcessOf == [a \in {a1, a2, a3} |-> IF a = a3 THEN worker ELSE api]
=============================================================================
