--------------------------- MODULE MCReportImages ---------------------------
(* Small instances of ReportImages. *)
EXTENDS ReportImages

\* Everything may go wrong, or nothing, and two edits follow a creation.
Faulty == [faults |-> Faults, uploads |-> 1]
Quiet == [faults |-> {}, uploads |-> 2]
FaultyOrQuiet == {Faulty, Quiet}

\* Nothing but a creation that lasts beyond the expiry of its images.
LateOnly == {[faults |-> {"late"}, uploads |-> 1]}
=============================================================================
