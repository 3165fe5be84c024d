-------------------------- MODULE MCProcessCapture --------------------------
EXTENDS ProcessCapture
=============================================================================
