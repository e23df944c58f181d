----------------------------- MODULE MCApprovals ------------------------------
EXTENDS Approvals

CONSTANTS a1, i1, i2, h1, h2
=============================================================================
