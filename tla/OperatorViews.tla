----------------------------- MODULE OperatorViews -----------------------------
\* What an operator looks at: the dashboard's lists and charts, the timeline on a
\* run's card, the history of a ticket, the health of the callback channel, the
\* chain of runs behind a ticket and what each of them was told, or a pool of mock
\* runs.  The pages do not act on each other; the tables behind them change as
\* each module says.
EXTENDS DashboardViews, RunTimeline, CallbackChannel, AgentPrompt, MockRuns

VARIABLE page
allvars == <<vars, tvars, cvars, pvars, mvars, page>>

\* What a page does not look at is one arbitrary element.
AnyScene  == scene = (CHOOSE s \in Scenes : TRUE)
AnyStream == stream = (CHOOSE s \in Streams : TRUE)
AnyScript == script = (CHOOSE s \in Scripts : TRUE)
AnyStory  == story = (CHOOSE s \in Stories : TRUE)
AnyShow   == show = (CHOOSE s \in Shows : TRUE)

Init ==
  /\ ViewsInit /\ TimelineInit /\ ChannelInit /\ PromptInit /\ MockInit
  /\ \/ page = "dashboard" /\ AnyStream /\ AnyScript /\ AnyStory /\ AnyShow
     \/ page = "card" /\ AnyScene /\ AnyScript /\ AnyStory /\ AnyShow
     \/ page = "ticket" /\ AnyScene /\ AnyStream /\ AnyScript /\ AnyStory /\ AnyShow
     \/ page = "channel" /\ AnyScene /\ AnyStream /\ AnyStory /\ AnyShow
     \/ page = "prompt" /\ AnyScene /\ AnyStream /\ AnyScript /\ AnyShow
     \/ page = "mock" /\ AnyScene /\ AnyStream /\ AnyScript /\ AnyStory

Dashboard   == page = "dashboard" /\ ViewsNext /\ UNCHANGED <<tvars, cvars, pvars, mvars, page>>
RunCard     == page = "card" /\ TimelineNext /\ UNCHANGED <<vars, cvars, pvars, mvars, page>>
TicketPage  == page = "ticket" /\ HistoryNext /\ UNCHANGED <<vars, cvars, pvars, mvars, page>>
ChannelCard == page = "channel" /\ ChannelNext /\ UNCHANGED <<vars, tvars, pvars, mvars, page>>
Prompts     == page = "prompt" /\ PromptNext /\ UNCHANGED <<vars, tvars, cvars, mvars, page>>
MockPool    == page = "mock" /\ MockNext /\ UNCHANGED <<vars, tvars, cvars, pvars, page>>
Next == Dashboard \/ RunCard \/ TicketPage \/ ChannelCard \/ Prompts \/ MockPool
Spec == Init /\ [][Next]_allvars
=============================================================================
