----------------------------- MODULE MCReadCaches -----------------------------
(* Ticks of a minute, as in core/cache.py: 300, 120 and 60 seconds.        *)
EXTENDS ReadCaches

CONSTANTS r1, r2, w1, w2

MCReaders == {r1, r2}
MCWriters == {w1, w2}
MCTTL == [detail |-> 5, list |-> 2, order |-> 1]
===============================================================================
