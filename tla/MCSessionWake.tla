---------------------------- MODULE MCSessionWake ----------------------------
EXTENDS SessionWake

CONSTANTS m1, m2

MCMail == {m1, m2}
\* Two reports of one agent, an agent's message and either mail of the hub.
MCPaths == [m \in MCMail |-> IF m = m1 THEN {"report", "tool"} ELSE {"report", "hub", "hubQueue"}]
MCKinds == {"prompt", "resume", "compact"}
PromptOnly == {"prompt"}
==============================================================================
