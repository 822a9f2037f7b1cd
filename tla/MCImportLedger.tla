--------------------------- MODULE MCImportLedger ---------------------------
EXTENDS ImportLedger
=============================================================================
