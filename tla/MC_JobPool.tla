----------------------------- MODULE MC_JobPool -----------------------------
EXTENDS JobPoolInv
=============================================================================
