------------------------------ MODULE MCPortal ------------------------------
\* Instances of Portal for TLC.
EXTENDS Portal

CONSTANTS m1, m2

\* The devices the database knows at the start.
M1Known == <<m1>>
BothKnown == <<m1, m2>>
=============================================================================
