--------------------------- MODULE MCSnapshotLink ----------------------------
\* SnapshotLink for TLC: snapshots are interchangeable.
EXTENDS SnapshotLink, TLC

CONSTANTS a, b

Symmetry == Permutations({a, b})
=============================================================================
