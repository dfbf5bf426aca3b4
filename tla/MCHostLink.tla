----------------------------- MODULE MCHostLink -----------------------------
\* HostLink for TLC; host_link.cfg gives the constants their values.
EXTENDS HostLink
=============================================================================
