-------------------------- MODULE MCSolarProvider ---------------------------
EXTENDS SolarProvider
=============================================================================
