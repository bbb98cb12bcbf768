----------------------------- MODULE MCFileSteps ----------------------------
(* A small directory for TLC: one plain address, one behind a link.        *)
EXTENDS FileSteps, TLC

CONSTANTS small, large, huge,   \* payloads of one and two blocks, and too large
          out, link,            \* addresses
          pOut, pSub            \* what they resolve to

MCSizeOf == (small :> 4096 @@ large :> 4097 @@ huge :> 9000)
MCTargets == (out :> {pOut} @@ link :> {pOut, pSub, Escapes})
MCInitialTarget == (out :> pOut @@ link :> pSub)
MCInitialFiles == (pOut :> small @@ pSub :> Directory)
=============================================================================
