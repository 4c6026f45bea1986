-------------------------- MODULE MCDeliveryPipeline --------------------------
\* DeliveryPipeline on small instances, for TLC.
EXTENDS DeliveryPipeline
===============================================================================
