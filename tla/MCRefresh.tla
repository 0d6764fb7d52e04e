------------------------------ MODULE MCRefresh -------------------------------
(***************************************************************************)
(* Values of Refresh's constants for TLC: a dataset, a chart that loads it *)
(* and a report that pins both.                                            *)
(***************************************************************************)
EXTENDS Refresh

MCUses == [a \in {"dataset", "chart", "report"} |->
             CASE a = "dataset" -> {} [] a = "chart" -> {"dataset"}
               [] a = "report" -> {"dataset", "chart"}]
MCNotebook == [dataset |-> "load", chart |-> "plot"]
MCVariable == [dataset |-> "df", chart |-> "fig"]

Fetching(loads) == [loads |-> loads, fetches |-> TRUE]
Loading == [load |-> Fetching({}), plot |-> Fetching({"dataset"})]
==============================================================================
