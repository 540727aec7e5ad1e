----------------------------- MODULE MCSession -----------------------------
\* Two connections, so that the sweeper has one to look at while the other one's
\* session goes on.
EXTENDS Session
=============================================================================
