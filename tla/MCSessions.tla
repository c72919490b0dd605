----------------------------- MODULE MCSessions -----------------------------
EXTENDS Sessions, TLC

CONSTANTS c1, c2, v1, v2, renew

AllHitters == {c1, c2, v1, v2, renew}
=============================================================================
