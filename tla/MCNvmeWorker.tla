---------------------------- MODULE MCNvmeWorker ----------------------------
EXTENDS NvmeWorker
=============================================================================
