---------------------------- MODULE MCKemRatchet ----------------------------
EXTENDS KemRatchet
=============================================================================
