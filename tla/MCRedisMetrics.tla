---------------------------- MODULE MCRedisMetrics ----------------------------
\* RedisMetrics on small instances, for TLC.
EXTENDS RedisMetrics

CONSTANT f1
===============================================================================
