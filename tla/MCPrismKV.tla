------------------------------ MODULE MCPrismKV ------------------------------
EXTENDS PrismKV

CONSTANTS c1, c2

=============================================================================
