---------------------------- MODULE MCFlashWait ----------------------------
EXTENDS FlashWait
=============================================================================
