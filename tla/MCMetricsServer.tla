--------------------------- MODULE MCMetricsServer ---------------------------
\* MetricsServer on a small instance.
EXTENDS MetricsServer
=============================================================================
