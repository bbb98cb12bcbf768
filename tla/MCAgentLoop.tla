---------------------------- MODULE MCAgentLoop -----------------------------
(* Small instances of AgentLoop for TLC.                                   *)
EXTENDS AgentLoop, TLC

CONSTANTS small, huge,              \* payloads: one block, too many bytes
          out, dot, sub, link,      \* addresses: a file, two directories, an escape
          pOut, pRoot, pSub         \* what they resolve to

MCSizeOf == (small :> 100 @@ huge :> 9000)
MCPlace == (out :> pOut @@ dot :> pRoot @@ sub :> pSub @@ link :> Escapes)
MCInitialFiles == (pOut :> Missing @@ pRoot :> Directory @@ pSub :> Directory)

Call(tool, a, data) == [tool |-> tool, addr |-> a, data |-> data]
MCToolCalls ==
    {Call("list_dir", sub, Nothing), Call("read_file", out, Nothing),
     Call("write_file", out, small), Call("write_file", out, huge),
     Call("write_file", link, small), Call("write_file", out, Nothing),
     Call("finish", Nothing, small), Call("finish", Nothing, Nothing),
     Call("unknown", Nothing, Nothing)}
FewToolCalls ==
    {Call("list_dir", sub, Nothing), Call("write_file", out, small)}
=============================================================================
