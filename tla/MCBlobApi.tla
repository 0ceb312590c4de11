------------------------------ MODULE MCBlobApi ------------------------------
EXTENDS BlobApi, TLC

MCSymmetry == Permutations(Relays) \cup Permutations(Requests)
=============================================================================
