---------------------------- MODULE MCSmartWatch ----------------------------
\* SmartWatch on small instances.
EXTENDS SmartWatch
=============================================================================
