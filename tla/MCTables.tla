------------------------------ MODULE MCTables ------------------------------
(* TLC instances of TablePages: every page with one request and one change of *)
(* another administrator, the Deep ones with all requests and no such change. *)
EXTENDS TablePages

\* A Deep page touches the first of its two rows, which are alike, before its
\* first request; dialogs of several rows before a request are left to the
\* instances with one.
MCNext ==
    /\ Next
    /\ mine = 0 => form'.editing # 2 /\ \A k \in Kinds : reqs'[k].id # 2

MCSpec == Init /\ [][MCNext]_vars /\ WF_vars(List) /\ WF_vars(Network)

=============================================================================
