------------------------------ MODULE MCDaemon ------------------------------
EXTENDS Daemon

\* -e with and without -w, over TCP and, with -w, UDP; -proxy over both, where
\* -w is one of the ways in which a direction ends.
AllConfigs ==
  { [exec |-> m[1], idle |-> m[2], udp |-> m[3]] :
      m \in { <<TRUE, FALSE, FALSE>>, <<TRUE, TRUE, FALSE>>, <<TRUE, TRUE, TRUE>>,
              <<FALSE, FALSE, FALSE>>, <<FALSE, FALSE, TRUE>> } }
=============================================================================
