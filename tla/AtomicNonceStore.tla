-------------------------- MODULE AtomicNonceStore --------------------------
(* What the NonceStore interface (aicjwt/validate.go) promises to the        *)
(* validation pipeline: CheckAndAdd is one indivisible step that either      *)
(* records an unseen nonce and accepts it, or refuses a nonce that is        *)
(* already recorded.  A restart of the process forgets every nonce.          *)
EXTENDS Naturals

CONSTANTS Callers,  \* goroutines that may be inside CheckAndAdd at once
          Nonces,   \* DA nonces
          NoNonce   \* the argument of a caller that is not calling

VARIABLES seen,     \* the recorded nonces
          grants,   \* how often each nonce was accepted since the last restart
          status,   \* per caller: "idle", "asked", "granted" or "refused"
          asked     \* per caller: the nonce of the call in progress

vars == <<seen, grants, status, asked>>

Init == /\ seen = {}
        /\ grants = [n \in Nonces |-> 0]
        /\ status = [c \in Callers |-> "idle"]
        /\ asked = [c \in Callers |-> NoNonce]

(* The caller enters CheckAndAdd. *)
Ask(c, n) == /\ status[c] = "idle"
             /\ status' = [status EXCEPT ![c] = "asked"]
             /\ asked' = [asked EXCEPT ![c] = n]
             /\ UNCHANGED <<seen, grants>>

(* The nonce is unseen: record it and accept. *)
Grant(c) == /\ status[c] = "asked"
            /\ asked[c] \notin seen
            /\ seen' = seen \cup {asked[c]}
            /\ grants' = [grants EXCEPT ![asked[c]] = @ + 1]
            /\ status' = [status EXCEPT ![c] = "granted"]
            /\ UNCHANGED asked

(* The nonce is a replay: NonceReuseError. *)
Refuse(c) == /\ status[c] = "asked"
             /\ asked[c] \in seen
             /\ status' = [status EXCEPT ![c] = "refused"]
             /\ UNCHANGED <<seen, grants, asked>>

(* The caller has its answer. *)
Return(c) == /\ status[c] \in {"granted", "refused"}
             /\ status' = [status EXCEPT ![c] = "idle"]
             /\ asked' = [asked EXCEPT ![c] = NoNonce]
             /\ UNCHANGED <<seen, grants>>

(* The process dies and comes back with an empty store. *)
Restart == /\ seen' = {}
           /\ grants' = [n \in Nonces |-> 0]
           /\ status' = [c \in Callers |-> "idle"]
           /\ asked' = [c \in Callers |-> NoNonce]

Next == \/ \E c \in Callers : \/ \E n \in Nonces : Ask(c, n)
                              \/ Grant(c)
                              \/ Refuse(c)
                              \/ Return(c)
        \/ Restart

Spec == Init /\ [][Next]_vars
=============================================================================
