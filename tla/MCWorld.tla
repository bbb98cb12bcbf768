------------------------------ MODULE MCWorld -------------------------------
(* Small instances of World for TLC.                                       *)
EXTENDS World, TLC

CONSTANTS small, large, huge,       \* payloads of 1, 2 blocks and too many bytes
          out, dot, link, up,       \* addresses: two plain, an escape, illegal
          pOut, pSub                \* what they resolve to

MCSizeOf == (small :> 4096 @@ large :> 4097 @@ huge :> 9000)
MCPlace == (out :> pOut @@ dot :> pSub @@ link :> Escapes @@ up :> Illegal)
MCInitialFiles == (pOut :> Missing @@ pSub :> Directory)

\* Two spellings of one file ("OUT.md" and "./OUT.md").
AliasPlace == (out :> pOut @@ dot :> pOut)
=============================================================================
