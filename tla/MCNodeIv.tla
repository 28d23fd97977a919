------------------------------ MODULE MCNodeIv ------------------------------
EXTENDS NodeIv
=============================================================================
