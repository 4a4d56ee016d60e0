---------------------------- MODULE MCReviewCycle ----------------------------
EXTENDS ReviewCycle
=============================================================================
