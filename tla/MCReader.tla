------------------------------ MODULE MCReader ------------------------------
(* Small instances of Reader for TLC.                                      *)
EXTENDS Reader, TLC

CONSTANTS p1, p2,           \* processes
          x, y,             \* payloads of one block and of two
          out               \* the address of a file

MCSizeOf == (x :> 10 @@ y :> 4097)
MCPlace == (out :> out)
\* The cap of the run pays for an Act of x or an Observe of y, not an Act of y.
MCFound == (out :> y)
=============================================================================
