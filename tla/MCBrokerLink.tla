---------------------------- MODULE MCBrokerLink ----------------------------
(* BrokerLink with two connectAndRetry goroutines and three client names:    *)
(* one in use, one a loop dials and one the token refresh dials.             *)
EXTENDS BrokerLink, TLC

CONSTANTS l1, l2, c1, c2, c3, nil

MCLoops == {l1, l2}
MCClients == {c1, c2, c3}

\* The runs of liveness take two names, which basic auth never uses up, and do
\* not stop the observer of a broker with token auth.
MCTwoClients == {c1, c2}
MCTokenRuns == auth = "token" => ~ctxDone

MCSymmetry == Permutations(MCLoops) \cup Permutations(MCClients)
=============================================================================
