--------------------------- MODULE ConversationMC ---------------------------
(* Conversation on small instances.                                           *)
EXTENDS Conversation

Ends(addr_a, port_a, addr_b, port_b) ==
    [addr_a |-> addr_a, port_a |-> port_a, addr_b |-> addr_b, port_b |-> port_b]

\* A server and two ports of a client, both ways.
MCPackets == {Ends("s", "1", "c", "2"), Ends("c", "2", "s", "1"), Ends("c", "3", "s", "1")}

SetUpsWith(sets) == {[ends |-> Ends("s", "1", "c", "2"), options |-> o] : o \in sets}

\* The server's end with wildcards and templates, and without.
MCSetUps ==
    SetUpsWith({{}, {"NO_PORT2"}, {"NO_ADDR2", "NO_PORT2"}, {"NO_ADDR2", "CONVERSATION_TEMPLATE"},
                {"NO_PORT2", "CONVERSATION_TEMPLATE"}, {"NO_PORTS"}})

\* A wildcard that is replaced and one that is not, of one key.
MCSharedSetUps == SetUpsWith({{"NO_PORT2"}, {"NO_PORT2_FORCE"}})

MCSearches == {{"NO_PORT_B"}, {"NO_ADDR_B"}, {"NO_PORT_X"}, {"NO_GREEDY"}, {"EXACT_EXCLUDED"}}
=============================================================================
