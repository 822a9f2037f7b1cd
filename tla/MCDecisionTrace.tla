-------------------------- MODULE MCDecisionTrace --------------------------
EXTENDS DecisionTrace
=============================================================================
