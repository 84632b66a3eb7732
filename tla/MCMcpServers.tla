--------------------------- MODULE MCMcpServers ---------------------------
(* One entry in two worlds: an apply that keeps, replaces or drops it, and    *)
(* a manager that connects twice.                                            *)
EXTENDS McpServers
CONSTANTS e1
MCEntries == {e1}
=============================================================================
