-------------------------- MODULE MCTrendsWindows --------------------------
\* An instance of TrendsWindows for TLC; the .cfg file fixes the bounds and Env.
EXTENDS TrendsWindows

\* A whole answer, an empty one, and one without a week that is the start of a
\* window and within another.
MCGaps == {{}, Weeks, {3}}
=============================================================================
