--------------------------- MODULE MCGuestService ---------------------------
\* GuestWorker for TLC; service_life.cfg gives the other constants their values.
EXTENDS GuestWorker

\* Limits that bind on both sides, and differently for either base.
MCLimits == {[min |-> 5, max |-> 8]}

\* An idle guest, and one that needs physical memory and commit.
MCLoads == {[used |-> 0, headroom |-> 8], [used |-> 1, headroom |-> 2]}
=============================================================================
