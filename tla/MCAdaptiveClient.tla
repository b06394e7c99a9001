------------------------- MODULE MCAdaptiveClient -------------------------
\* AdaptiveClient on small instances.  Mutants of its definitions follow.
EXTENDS AdaptiveClient
=============================================================================
