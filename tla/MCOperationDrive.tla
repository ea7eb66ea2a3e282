--------------------------- MODULE MCOperationDrive ---------------------------
(* OperationDrive on small instances; every constant is set in the cfg.    *)
EXTENDS OperationDrive
=============================================================================
