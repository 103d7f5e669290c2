---------------------------- MODULE MCSemaphore ------------------------------
EXTENDS Semaphore, TLC
==============================================================================
