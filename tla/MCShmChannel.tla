---------------------------- MODULE MCShmChannel ----------------------------
\* ShmChannel with three buffers, for TLC: enough for a buffer in each pipe
\* and one in a process's hands, or one with each process and one in between.
EXTENDS ShmChannel
=============================================================================
