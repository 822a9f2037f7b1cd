---------------------------- MODULE MCMscExport ----------------------------
(* Policies for the runs of MscExport: which decisions the optimizer may    *)
(* return, tick after tick.                                                 *)
EXTENDS MscExport

Surplus == [mode |-> Msc, export |-> Ceiling]
Reserve == [mode |-> Msc, export |-> Closed]
Battery == [mode |-> Discharging, export |-> Target]

SurplusAndReserve == {Surplus, Reserve}
SurplusAndBattery == {Surplus, Battery}
=============================================================================
