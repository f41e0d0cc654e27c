------------------------------ MODULE MCMcpClient ------------------------------
(* Two calling threads, one start or two, one failure of the server process.    *)
EXTENDS McpClient

CONSTANTS t1, t2, read, send

MCCallers == {t1, t2}
MCTools   == {read, send}
MCOffers  == {{read}, {read, send}}
MCChatters == {"junk"}
MCAllowed == {}
MCTaken   == {send}

============================================================================
