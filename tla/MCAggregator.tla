---------------------------- MODULE MCAggregator ----------------------------
EXTENDS Aggregator, TLC

CONSTANTS i1, i2, h1, h2, h3
=============================================================================

