--------------------------- MODULE MCSnapshotStore --------------------------
\* SnapshotStore on a few updates and two timers.
EXTENDS SnapshotStore, TLC

Symmetry == Permutations(Updates) \cup Permutations(Timers)

=============================================================================
