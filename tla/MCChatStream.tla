---------------------------- MODULE MCChatStream ----------------------------
\* An instance of ChatStream for TLC: two tool calls, one of them buffered.
EXTENDS ChatStream

TwoTools == {0, 1}
TaskTool == {1}
=============================================================================
