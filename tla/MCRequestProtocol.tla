------------------------- MODULE MCRequestProtocol -------------------------
\* Instances of RequestProtocol for TLC; the cfg gives the sizes and the faults.
EXTENDS RequestProtocol
=============================================================================
