---------------------------- MODULE MCTicketFlow ----------------------------
EXTENDS TicketFlow

MCLinks == {<<2, 1>>}
MCSprintOf == <<"S1", "S2">>
MCPriority == <<0, 2>>
MCInitialBoards == {<<s, "ready">> : s \in {"backlog", "ready", "rejected"}}
MCSprintSets == {{}, {"S2"}, {"S1", "S2"}}
=============================================================================
