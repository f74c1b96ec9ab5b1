------------------------------ MODULE MCBlobs -------------------------------
\* Blobs for TLC: requests are interchangeable, and so are contents.
EXTENDS Blobs, TLC

Symmetry == Permutations(Writers) \cup Permutations(Digest)
=============================================================================
