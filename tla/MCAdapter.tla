------------------------------ MODULE MCAdapter ------------------------------
(* Small instances of Adapter for TLC.                                     *)
EXTENDS Adapter, TLC

CONSTANTS small,            \* a payload of one block
          out, dot,         \* addresses: a file and the root
          pOut, pRoot       \* what they resolve to

MCSizeOf == (small :> 100)
MCPlace == (out :> pOut @@ dot :> pRoot)
MCInitialFiles == (pOut :> Missing @@ pRoot :> Directory)
MCTokenCounts == {-5, 1, 8, 9, 12}
MCToolCalls ==
    {[tool |-> "write_file", addr |-> out, data |-> small],
     [tool |-> "finish", addr |-> Nothing, data |-> small]}
=============================================================================
