--------------------------- MODULE MCGatewayServer ---------------------------
EXTENDS GatewayServer

MCMaxCommands == <<2, 3>>
=============================================================================
