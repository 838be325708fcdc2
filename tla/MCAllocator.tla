----------------------------- MODULE MCAllocator -----------------------------
EXTENDS TlsAllocator, TLC

\* Threads start alike.
MCSymmetry == Permutations(Threads)
=============================================================================
