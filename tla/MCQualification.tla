-------------------------- MODULE MCQualification ---------------------------
EXTENDS Qualification
=============================================================================
