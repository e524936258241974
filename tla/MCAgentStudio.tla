---------------------------- MODULE MCAgentStudio ----------------------------
EXTENDS AgentStudio

MCSessions == 1..2

=============================================================================
