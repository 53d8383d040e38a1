---------------------------- MODULE MCPiInstalls ----------------------------
EXTENDS PiInstalls

CONSTANTS v1, v2

=============================================================================
