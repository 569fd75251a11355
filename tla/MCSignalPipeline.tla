-------------------------- MODULE MCSignalPipeline --------------------------
\* Instances of SignalPipeline for TLC; the .cfg files fix the calendar and Env.
EXTENDS SignalPipeline
=============================================================================
