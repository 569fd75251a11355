--------------------------- MODULE MCStagingMerge ---------------------------
\* Instances of StagingMerge for TLC; the .cfg files fix the bounds and Env.
EXTENDS StagingMerge
=============================================================================
