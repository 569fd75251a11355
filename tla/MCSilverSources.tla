-------------------------- MODULE MCSilverSources --------------------------
\* Instances of SilverSources for TLC; the .cfg files fix the bounds and Env.
EXTENDS SilverSources
=============================================================================
