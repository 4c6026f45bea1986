--------------------------- MODULE MCRedisBootstrap ---------------------------
\* RedisBootstrap on small instances, for TLC.
EXTENDS RedisBootstrap

CONSTANTS r1, r2, p1, p2
===============================================================================
