----------------------------- MODULE MCWebChat -----------------------------
EXTENDS WebChatInvariant
=============================================================================
