---------------------------- MODULE MCWorkerLock ----------------------------
EXTENDS WorkerLock
=============================================================================
