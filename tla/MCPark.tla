------------------------------- MODULE MCPark -------------------------------
EXTENDS Park

CONSTANTS f1, f2, pipe, sock, fresh, server

MCFibers == {f1, f2}
MCPolled == {{pipe, sock}}
MCMakes == [f \in MCFibers |-> IF f = f1 THEN Kinds \ {"io"} ELSE {"io", "flock"}]
=============================================================================
