----------------------------- MODULE MCPrismCache -----------------------------
EXTENDS PrismCache, TLC

CONSTANTS c1, c2

====
