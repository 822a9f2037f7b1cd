-------------------------- MODULE MCPhysicalRelief --------------------------
EXTENDS PhysicalRelief
=============================================================================
