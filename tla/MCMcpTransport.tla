----------------------------- MODULE MCMcpTransport -----------------------------
\* An instance of McpTransport for TLC.
EXTENDS McpTransport
===============================================================================
