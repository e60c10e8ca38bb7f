------------------------------ MODULE MCUpdates ------------------------------
EXTENDS Updates
=============================================================================
