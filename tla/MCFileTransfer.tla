-------------------------- MODULE MCFileTransfer ---------------------------
\* The module TLC runs.  Each of the three features is on and off, and the two
\* that select a test of the ranges (archive, tagged) in every combination.
EXTENDS FileTransfer

AllKinds ==
    { [archive |-> TRUE,  tagged |-> TRUE,  keep |-> TRUE],
      [archive |-> FALSE, tagged |-> TRUE,  keep |-> FALSE],
      [archive |-> TRUE,  tagged |-> FALSE, keep |-> FALSE],
      [archive |-> FALSE, tagged |-> FALSE, keep |-> TRUE] }
=============================================================================
