----------------------------- MODULE MCDashboard -----------------------------
(***************************************************************************)
(* Small instances of Dashboard: clicks in a lasting session, or sessions  *)
(* that end and requests that fail.                                        *)
(***************************************************************************)
EXTENDS Dashboard

Budget(stored, clicks, ends, failures) ==
    [stored |-> stored, clicks |-> clicks, ends |-> ends, failures |-> failures]

ClicksOrEnds ==
    {Budget("live", 2, 0, 0), Budget("live", 0, 1, 1), Budget("dead", 0, 1, 0)}

=============================================================================
