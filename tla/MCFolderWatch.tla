--------------------------- MODULE MCFolderWatch ---------------------------
\* Two books, two timer threads at a time.
EXTENDS FolderWatch
CONSTANTS b1, b2, f1, f2
MCBooks == {b1, b2}
MCFlushes == {f1, f2}
=============================================================================
