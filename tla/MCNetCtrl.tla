----------------------------- MODULE MCNetCtrl ------------------------------
\* Two addresses; queues short enough to be full.
EXTENDS NetCtrl

=============================================================================
