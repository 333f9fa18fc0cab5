------------------------------- MODULE MCCcd -------------------------------
EXTENDS Ccd
=============================================================================
