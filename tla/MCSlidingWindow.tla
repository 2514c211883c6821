--------------------------- MODULE MCSlidingWindow ---------------------------
EXTENDS SlidingWindow
=============================================================================
