-------------------------- MODULE MCMonitorDaemon --------------------------
\* MonitorDaemon on small instances.
EXTENDS MonitorDaemon
=============================================================================
