----------------------------- MODULE WfpBlock -------------------------------
(***************************************************************************)
(* The WFP block manager of interactive.c: AddWfpBlock, DeleteWfpBlock and *)
(* HandleWfpBlockMessage.  A filter set is identified by the engine handle *)
(* add_wfp_block_filters returns; filters holds the sets installed.  The   *)
(* interface metric helpers live in wfp_block.c and are modelled from      *)
(* their use: metric[i][f] is the metric, 0 when automatic, and -1 when    *)
(* the family has no IP interface row (then reading returns -1 without     *)
(* touching is_auto, and setting fails).                                   *)
(***************************************************************************)
EXTENDS ServiceState

\* set_interface_metric, on a metric function met.
SetInterfaceMetric(met, i, f, v) ==
    IF met[i][f] = -1 THEN met ELSE [met EXCEPT ![i][f] = v]

(***************************************************************************)
(* The wfp_block_data_t AddWfpBlock fills in.  is_auto is not reset        *)
(* between the two get_interface_metric calls, so an IPv6 family without   *)
(* interface row after an automatic IPv4 metric is stored as 0.            *)
(***************************************************************************)
BlockData(engine, i) ==
    LET v4 == metric[i]["v4"]
        v6 == IF metric[i]["v6"] = -1 /\ v4 = 0 THEN 0 ELSE metric[i]["v6"]
    IN [engine |-> engine, index |-> i, v4 |-> v4, v6 |-> v6]

\* Mutant: a stored metric of 0 (automatic) is not written back.
RestoreMetricsPositive(met, i, data) ==
    LET m4 == IF data.v4 > 0 THEN SetInterfaceMetric(met, i, "v4", data.v4)
              ELSE met
    IN IF data.v6 > 0 THEN SetInterfaceMetric(m4, i, "v6", data.v6) ELSE m4

\* The metric restore of DeleteWfpBlock and Undo: the stored metrics that
\* are >= 0 are written back to interface i.
RestoreMetrics(met, i, data) ==
    LET m4 == IF data.v4 >= 0 THEN SetInterfaceMetric(met, i, "v4", data.v4)
              ELSE met
    IN IF data.v6 >= 0 THEN SetInterfaceMetric(m4, i, "v6", data.v6) ELSE m4

(***************************************************************************)
(* DeleteWfpBlock: the head of the wfp_block list is taken off, its        *)
(* filters deleted, and its metrics restored on the interface the message *)
(* names (msg->iface.index), not on the one recorded in the data.          *)
(***************************************************************************)
DeleteWfpBlock(s, m) ==
    LET list == lists[s]["wfp_block"] IN
    /\ \/ /\ list = <<>>
          /\ UNCHANGED <<filters, metric, lists>>
       \/ /\ list # <<>>
          /\ filters' = filters \ {Head(list).engine}
          /\ metric' = RestoreMetrics(metric, m.idx, Head(list))
          /\ SetList(s, "wfp_block", Tail(list))
    /\ Reply(s, NO_ERROR)
    /\ UNCHANGED nextEngine

\* Mutant: the filters are not deleted when malloc or AddListItem fails.
AddWfpBlockKeepFilters(s, m, fail) ==
    LET i == m.idx
        data == BlockData(nextEngine, i)
    IN
    /\ \/ /\ fail = "filters"
          /\ Reply(s, OsError)
          /\ UNCHANGED <<filters, nextEngine, metric, lists>>
       \/ /\ fail \in {"malloc", "list"}
          /\ nextEngine' = nextEngine + 1
          /\ filters' = filters \cup {nextEngine}
          /\ Reply(s, ERROR_OUTOFMEMORY)
          /\ UNCHANGED <<metric, lists>>
       \/ /\ fail \notin {"filters", "malloc", "list"}
          /\ NoIpInterface(i, "v4")
          /\ nextEngine' = nextEngine + 1
          /\ metric' = RestoreMetrics(metric, i, data)
          /\ Reply(s, OsError)
          /\ UNCHANGED <<filters, lists>>
       \/ /\ fail \notin {"filters", "malloc", "list"}
          /\ ~NoIpInterface(i, "v4")
          /\ nextEngine' = nextEngine + 1
          /\ filters' = filters \cup {nextEngine}
          /\ metric' = SetInterfaceMetric(
                          SetInterfaceMetric(metric, i, "v4", BlockMetric),
                          i, "v6", BlockMetric)
          /\ SetList(s, "wfp_block", AddListItem(lists[s]["wfp_block"], data))
          /\ Reply(s, NO_ERROR)

(***************************************************************************)
(* AddWfpBlock: install the filters (fail = "filters"), malloc the data    *)
(* (fail = "malloc"), read both metrics, AddListItem (fail = "list"), set  *)
(* the IPv4 metric to WFP_BLOCK_IFACE_METRIC and then the IPv6 one,        *)
(* ignoring an IPv6 failure.  On a malloc or list failure the filters are  *)
(* deleted again.  When the IPv4 metric cannot be set, DeleteWfpBlock      *)
(* takes the new data off the list and deletes the filters.  A block       *)
(* already in place stays: the new data is stacked on top of it.          *)
(***************************************************************************)
AddWfpBlock(s, m, fail) ==
    LET i == m.idx
        data == BlockData(nextEngine, i)
    IN
    /\ \/ /\ fail = "filters"
          /\ Reply(s, OsError)
          /\ UNCHANGED <<filters, nextEngine, metric, lists>>
       \/ /\ fail \in {"malloc", "list"}
          /\ nextEngine' = nextEngine + 1
          /\ Reply(s, ERROR_OUTOFMEMORY)
          /\ UNCHANGED <<filters, metric, lists>>
       \/ /\ fail \notin {"filters", "malloc", "list"}
          /\ NoIpInterface(i, "v4")
          /\ nextEngine' = nextEngine + 1
          /\ metric' = RestoreMetrics(metric, i, data)
          /\ Reply(s, OsError)
          /\ UNCHANGED <<filters, lists>>
       \/ /\ fail \notin {"filters", "malloc", "list"}
          /\ ~NoIpInterface(i, "v4")
          /\ nextEngine' = nextEngine + 1
          /\ filters' = filters \cup {nextEngine}
          /\ metric' = SetInterfaceMetric(
                          SetInterfaceMetric(metric, i, "v4", BlockMetric),
                          i, "v6", BlockMetric)
          /\ SetList(s, "wfp_block", AddListItem(lists[s]["wfp_block"], data))
          /\ Reply(s, NO_ERROR)

\* HandleWfpBlockMessage
HandleWfpBlockMessage(s, m, fail) ==
    /\ \/ m.type = "add_wfp_block" /\ AddWfpBlock(s, m, fail)
       \/ m.type = "del_wfp_block" /\ DeleteWfpBlock(s, m)
    /\ UNCHANGED netVars

=============================================================================
