------------------------------ MODULE MCStore -------------------------------
(* Small instances of Store for TLC.                                       *)
EXTENDS Store, TLC

CONSTANTS p1, p2,           \* processes
          x, y,             \* payloads of one block each
          out, log1         \* addresses of two files

MCSizeOf == (x :> 10 @@ y :> 4096)
MCPlace == (out :> out @@ log1 :> log1)
MCFound == (out :> x @@ log1 :> Nothing)
=============================================================================
