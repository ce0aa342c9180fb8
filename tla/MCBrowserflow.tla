--------------------------- MODULE MCBrowserflow ---------------------------
EXTENDS Browserflow
=============================================================================
