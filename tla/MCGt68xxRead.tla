---------------------------- MODULE MCGt68xxRead ----------------------------
\* Two scans of at most five bytes through two buffers of four, read in pieces
\* that divide neither: the last block is partial, and padded or not.
EXTENDS Gt68xxRead
MCExpected == {3, 5}
MCRequests == {2, 3}
=============================================================================
