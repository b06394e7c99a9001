--------------------------- MODULE MCK8sOperator ---------------------------
\* K8sOperator on small instances.
EXTENDS K8sOperator
=============================================================================
