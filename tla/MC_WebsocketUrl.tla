--------------------------- MODULE MC_WebsocketUrl ---------------------------
EXTENDS WebsocketUrl



MC_Schemes == {"http", "https", "ws", "wss", "ftp", "foo"}
MC_Hosts   == {"h"}
MC_Ports   == {80, 443, 8042}
MC_Digits  == {[value |-> 8042, shift |-> 10000]}
=============================================================================
