---------------------------- MODULE ForwardRules ----------------------------
(***************************************************************************)
(* Remote forward rules (ServerForwardRuleServiceImpl): rows of            *)
(* server_forward_rule, deployed as socat services by the same tasks and   *)
(* the same agent as Snell nodes.  Two things differ from ProtocolNodes:   *)
(* a report that is not a success changes no rule, and a success changes   *)
(* the state of the rule only, so every other column is written back as    *)
(* it was read.                                                            *)
(***************************************************************************)
EXTENDS Deployment

CreateRule(h, n, p) == CreateRow(h, n, p)
UpdateRule(h, n, p) == UpdateRow(h, n, p)
DeleteRule(h, n)    == DeleteRow(h, n)
RestartRule(h, n)   == RestartRow(h, n)

-----------------------------------------------------------------------------
(* What a report does to the rule of its task.                               *)

\* applyAgentResultMetadata has nothing for a rule unless the task succeeded.
IgnoreReport(c) ==
    /\ rep[c].phase = "written"
    /\ rep[c].state # "succeeded"
    /\ rep' = [rep EXCEPT ![c] = Answered(c)]
    /\ UNCHANGED <<rows, tasks, agent, site, budget>>

ReadRule(c) ==
    /\ rep[c].state = "succeeded"
    /\ ReadRow(c)

\* Mutant: a rule that is being deleted is left alone.
Merged_UnlessDeleting(r, s) ==
    IF r.state = "deleting" THEN r ELSE [r EXCEPT !.state = s, !.live = (s # "deleted")]

Merged(r, s) == [r EXCEPT !.state = s, !.live = (s # "deleted")]

\* The script printed "deleted", or what the service manager says of a unit
\* that was just started: "inactive" stands for whatever is not "active".
Printed(t) == IF task[t].action = "absent" THEN {"deleted"} ELSE {"active", "inactive"}

ApplyReport(c) ==
    /\ rep[c].phase = "read"
    /\ \E s \in Printed(rep[c].task) :
         row' = [row EXCEPT ![task[rep[c].task].id] = Merged(rep[c].row, s)]
    /\ rep' = [rep EXCEPT ![c] = Answered(c)]
    /\ UNCHANGED <<req, tasks, agent, site, budget>>

-----------------------------------------------------------------------------
Console ==
    \E h \in Requests, n \in RowIds :
        \/ \E p \in Ports : CreateRule(h, n, p) \/ UpdateRule(h, n, p)
        \/ DeleteRule(h, n) \/ RestartRule(h, n)

HandleReport(c) == ReportWrite(c) \/ IgnoreReport(c) \/ ReadRule(c) \/ ApplyReport(c)

Next ==
    \/ Console
    \/ \E h \in Requests : HandleRequest(h)
    \/ \E c \in Conns : HandleReport(c)
    \/ AgentStep
    \/ Fault

Safe == Init /\ [][Next]_vars

-----------------------------------------------------------------------------
(* The properties of rules are in Deployment: TypeOK, RowIsFounded and       *)
(* SuccessIsShown.                                                           *)
=============================================================================
