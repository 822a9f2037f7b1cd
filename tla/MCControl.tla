----------------------------- MODULE MCControl -----------------------------
EXTENDS Control

CONSTANT ModeTries, LimitTries

\* The EMS mode and one limit, which stands for the others.
MCTries == <<ModeTries, LimitTries>>
=============================================================================
