---------------------------- MODULE MCMarketFetch ----------------------------
\* Two workers with three attempts each, slots of two ticks, delays of 1 and 2
\* capped at 2, and a Retry-After of 4 above its own cap of 3.
EXTENDS MarketFetch

MCRetryAfters == {4}
=============================================================================
