----------------------------- MODULE MCGateway -----------------------------
(* Instances of Gateway for TLC.  A server offers the preview and the        *)
(* confirmed form of save_workhour, and a read; a script offers anything.    *)
EXTENDS Gateway

CONSTANTS c1, c2, e1, e2

Requests(v, ts, es, ds) == [via : {v}, tool : ts, entity : es, dry : ds]
AllRequests ==
    Requests("gateway", {"save_workhour"}, {e1, e2}, {"true", "false"})
      \cup Requests("stdio", {"save_workhour"}, {e1}, {"false"})
      \cup Requests("gateway", {"query_project"}, {e1}, {"absent"})
      \cup Requests("script", {"save_workhour"}, {e1}, {"absent"})
      \cup Requests("script", {"batch_save_workhour"}, {e1}, {"false"})

\* Confirmed writes and reads of one entity.
WriteRequests ==
    [via : {"gateway"}, tool : {"save_workhour", "query_project"}, entity : {e1}, dry : {"false"}]
=============================================================================
