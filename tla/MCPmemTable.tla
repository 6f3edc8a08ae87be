---------------------------- MODULE MCPmemTable ----------------------------
EXTENDS PmemTable

\* With eight entries of 24 bytes every place in a line occurs.  The last of
\* two, four and eight entries lies across two lines when the array begins at
\* 32, 48 and 16 of a line.
Counts12348 == {1, 2, 3, 4, 8}
BasesBy16 == {0, 16, 32, 48}
BothLibs == {"ralloc", "pmdk"}
=============================================================================
