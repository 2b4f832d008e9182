--------------------------- MODULE MCErdOverrides ---------------------------
(* Values for checking ErdOverrides: gunicorn's workers handle one request  *)
(* at a time, the development server handles all in one process.            *)
EXTENDS ErdOverrides

CONSTANTS w1, w2, t1, t2

OneThreadPerWorker == [t \in Threads |-> IF t = t1 THEN w1 ELSE w2]
OneProcess == [t \in Threads |-> w1]
=============================================================================
