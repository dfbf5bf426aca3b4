----------------------------- MODULE MCHostWake -----------------------------
\* HostSupervision for TLC; host_wake.cfg gives the constants their values.
EXTENDS HostSupervision
=============================================================================
