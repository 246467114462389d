------------------------------ MODULE MCMedia -------------------------------
\* A small instance of MediaTask whose runs may each be claimed twice.
EXTENDS MediaTask

Claims == [r \in Runs |-> 2]
=============================================================================
