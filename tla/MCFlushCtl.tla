----------------------------- MODULE MCFlushCtl -----------------------------
EXTENDS FlushCtl, TLC
=============================================================================
