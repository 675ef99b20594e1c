--------------------------- MODULE MCSelectServer ---------------------------
EXTENDS SelectServer, TLC

\* One packet of the pool is as good as another.
PacketSymmetry == Permutations(Packets)
=============================================================================
