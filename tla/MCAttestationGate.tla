------------------------- MODULE MCAttestationGate --------------------------
EXTENDS AttestationGate

CONSTANTS t1, t2, t3, s

MCThreads == {t1, t2, t3}
MCServices == {s}
=============================================================================
