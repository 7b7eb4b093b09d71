--------------------------- MODULE MCMcpStdioClient ---------------------------
EXTENDS McpStdioClient

=============================================================================
