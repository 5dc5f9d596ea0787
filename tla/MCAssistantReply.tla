-------------------------- MODULE MCAssistantReply --------------------------
EXTENDS AssistantReply, TLC
=============================================================================
