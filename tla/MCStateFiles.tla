---------------------------- MODULE MCStateFiles ----------------------------
EXTENDS StateFiles
=============================================================================
