---------------------------- MODULE MCNonceStore ----------------------------
(* Three goroutines, two nonces, one restart: two callers race on a nonce    *)
(* while a third is queued for the mutex or uses the other nonce.            *)
EXTENDS NonceStore

CONSTANTS c1, c2, c3, n1, n2

MCCallers == {c1, c2, c3}
MCNonces == {n1, n2}
=============================================================================
