------------------------------- MODULE MCPool -------------------------------
EXTENDS PoolScan
=============================================================================
