------------------------------ MODULE MCSession ------------------------------
EXTENDS WindowsSession
=============================================================================
