------------------------------ MODULE MCSyncTree ------------------------------
EXTENDS SyncTree
MCPaths == {{1, 2, 3}, {1, 2}, {1}, {2}, {3}}
MCViewPaths == {{1, 2, 3}, {1, 2}}
MCWritePaths == {{1, 2}, {1}}
=============================================================================
