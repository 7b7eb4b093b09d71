---------------------------- MODULE MCPooledStreams ----------------------------
EXTENDS PooledStreams

CONSTANTS k1, k2

TwoKeys == <<k1, k2>>

=============================================================================
