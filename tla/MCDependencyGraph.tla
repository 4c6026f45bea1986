--------------------------- MODULE MCDependencyGraph ---------------------------
\* DependencyGraph on small instances, for TLC.
EXTENDS DependencyGraph

CONSTANTS a, b, c, u
===============================================================================
