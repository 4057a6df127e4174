----------------------------- MODULE NonceStore -----------------------------
(* MemNonceStore of aicjwt/nonce.go: a map guarded by a sync.Mutex, called   *)
(* by concurrent validations.  The lock, the lookup, the insertion and the   *)
(* deferred unlock are separate steps, so that every interleaving of callers *)
(* is a behaviour.  The store lives in memory: a restart of the process      *)
(* empties it and drops the calls in progress.                               *)
EXTENDS Naturals

CONSTANTS Callers,     \* goroutines that validate tokens against one store
          Nonces,      \* DA nonces
          NoNonce,     \* the argument of a caller that is not calling
          NoCaller,    \* the owner of the unlocked mutex
          MaxRestarts  \* bound: restarts of the process in one behaviour

ASSUME NoNonceAssumption == NoNonce \notin Nonces
ASSUME NoCallerAssumption == NoCaller \notin Callers
ASSUME MaxRestartsAssumption == MaxRestarts \in Nat

VARIABLES mu,        \* the caller that holds the mutex, or NoCaller
          seen,      \* the keys of the map
          pc,        \* per caller: where it is in CheckAndAdd
          arg,       \* per caller: the nonce it passed
          answer,    \* per caller: the error of its last lookup
          grants,    \* history: nil errors per nonce since the last restart
          restarts   \* restarts so far

vars == <<mu, seen, pc, arg, answer, grants, restarts>>

Labels == {"idle", "lock", "check", "add", "unlock", "return"}
Answers == {"none", "nil", "NonceReuseError"}

TypeOK == /\ mu \in Callers \cup {NoCaller}
          /\ seen \subseteq Nonces
          /\ pc \in [Callers -> Labels]
          /\ arg \in [Callers -> Nonces \cup {NoNonce}]
          /\ answer \in [Callers -> Answers]
          /\ grants \in [Nonces -> Nat]
          /\ restarts \in 0..MaxRestarts

(* NewMemNonceStore: an allocated, empty map and an unlocked mutex. *)
NewMemNonceStore == /\ mu = NoCaller
                    /\ seen = {}

Init == /\ NewMemNonceStore
        /\ pc = [c \in Callers |-> "idle"]
        /\ arg = [c \in Callers |-> NoNonce]
        /\ answer = [c \in Callers |-> "none"]
        /\ grants = [n \in Nonces |-> 0]
        /\ restarts = 0

Goto(c, label) == pc' = [pc EXCEPT ![c] = label]

(* ValidateDA calls CheckAndAdd(da.Nonce). *)
Call(c, n) == /\ pc[c] = "idle"
              /\ arg' = [arg EXCEPT ![c] = n]
              /\ Goto(c, "lock")
              /\ UNCHANGED <<mu, seen, answer, grants, restarts>>

(* Mutant: no mutual exclusion. *)
LockShared(c) == /\ pc[c] = "lock"
                 /\ mu' = c
                 /\ Goto(c, "check")
                 /\ UNCHANGED <<seen, arg, answer, grants, restarts>>

(* m.mu.Lock() *)
Lock(c) == /\ pc[c] = "lock"
           /\ mu = NoCaller
           /\ mu' = c
           /\ Goto(c, "check")
           /\ UNCHANGED <<seen, arg, answer, grants, restarts>>

(* Mutant: the error path returns without the unlock. *)
CheckSeenKeepsLock(c) == /\ pc[c] = "check"
                         /\ arg[c] \in seen
                         /\ answer' = [answer EXCEPT ![c] = "NonceReuseError"]
                         /\ Goto(c, "return")
                         /\ UNCHANGED <<mu, seen, arg, grants, restarts>>

(* Mutant: the test of the lookup is inverted. *)
CheckSeenInverted(c) == /\ pc[c] = "check"
                        /\ arg[c] \notin seen
                        /\ answer' = [answer EXCEPT ![c] = "NonceReuseError"]
                        /\ Goto(c, "unlock")
                        /\ UNCHANGED <<mu, seen, arg, grants, restarts>>

(* The lookup finds the nonce: the error is built and the function returns. *)
CheckSeen(c) == /\ pc[c] = "check"
                /\ arg[c] \in seen
                /\ answer' = [answer EXCEPT ![c] = "NonceReuseError"]
                /\ Goto(c, "unlock")
                /\ UNCHANGED <<mu, seen, arg, grants, restarts>>

(* Mutant: the mutex is released between the lookup and the insertion. *)
CheckUnseenUnlocks(c) == /\ pc[c] = "check"
                         /\ arg[c] \notin seen
                         /\ mu' = NoCaller
                         /\ Goto(c, "add")
                         /\ UNCHANGED <<seen, arg, answer, grants, restarts>>

(* Mutant: the lookup is ignored. *)
CheckUnseenAlways(c) == /\ pc[c] = "check"
                        /\ Goto(c, "add")
                        /\ UNCHANGED <<mu, seen, arg, answer, grants, restarts>>

(* The lookup does not find the nonce. *)
CheckUnseen(c) == /\ pc[c] = "check"
                  /\ arg[c] \notin seen
                  /\ Goto(c, "add")
                  /\ UNCHANGED <<mu, seen, arg, answer, grants, restarts>>

(* Mutant: the wrong key is recorded. *)
AddWrongKey(c) == /\ pc[c] = "add"
                  /\ seen' = seen \cup {c}
                  /\ answer' = [answer EXCEPT ![c] = "nil"]
                  /\ grants' = [grants EXCEPT ![arg[c]] = @ + 1]
                  /\ Goto(c, "unlock")
                  /\ UNCHANGED <<mu, arg, restarts>>

(* m.seen[nonce] = struct{}{}; return nil *)
Add(c) == /\ pc[c] = "add"
          /\ seen' = seen \cup {arg[c]}
          /\ answer' = [answer EXCEPT ![c] = "nil"]
          /\ grants' = [grants EXCEPT ![arg[c]] = @ + 1]
          /\ Goto(c, "unlock")
          /\ UNCHANGED <<mu, arg, restarts>>

(* The deferred m.mu.Unlock(), on both ways out. *)
Unlock(c) == /\ pc[c] = "unlock"
             /\ mu' = NoCaller
             /\ Goto(c, "return")
             /\ UNCHANGED <<seen, arg, answer, grants, restarts>>

(* The caller has the error value. *)
Return(c) == /\ pc[c] = "return"
             /\ answer' = [answer EXCEPT ![c] = "none"]
             /\ arg' = [arg EXCEPT ![c] = NoNonce]
             /\ Goto(c, "idle")
             /\ UNCHANGED <<mu, seen, grants, restarts>>

(* The process dies at any point and starts with a new store. *)
Restart == /\ restarts < MaxRestarts
           /\ restarts' = restarts + 1
           /\ mu' = NoCaller
           /\ seen' = {}
           /\ pc' = [c \in Callers |-> "idle"]
           /\ arg' = [c \in Callers |-> NoNonce]
           /\ answer' = [c \in Callers |-> "none"]
           /\ grants' = [n \in Nonces |-> 0]

CheckAndAdd(c) == \/ Lock(c)
                  \/ CheckSeen(c)
                  \/ CheckUnseen(c)
                  \/ Add(c)
                  \/ Unlock(c)
                  \/ Return(c)

Next == \/ \E c \in Callers : \/ \E n \in Nonces : Call(c, n)
                              \/ CheckAndAdd(c)
        \/ Restart

Spec == Init /\ [][Next]_vars

(* A goroutine that can run is eventually run, and a sync.Mutex hands the    *)
(* lock to a waiter that has waited long (its starvation mode), hence strong *)
(* fairness for Lock.  Nothing obliges a caller to call.                     *)
Fairness == \A c \in Callers : /\ WF_vars(CheckAndAdd(c))
                               /\ SF_vars(Lock(c))

FairSpec == Spec /\ Fairness

-----------------------------------------------------------------------------
(* A caller is in the critical section exactly when it owns the mutex: the   *)
(* lookup and the insertion of one CheckAndAdd (nonce.go:19-27) are never    *)
(* separated by another caller's.                                            *)
CriticalSection == {"check", "add", "unlock"}
MutexInv == \A c \in Callers : pc[c] \in CriticalSection <=> mu = c

(* Between two restarts a nonce is accepted at most once, however many       *)
(* validations present it together (nonce.go:22-26), and the map holds       *)
(* exactly the accepted nonces.                                              *)
AcceptedOnce == \A n \in Nonces : /\ grants[n] <= 1
                                  /\ n \in seen <=> grants[n] = 1

(* A caller that is about to insert still has a nonce nobody recorded: what  *)
(* its lookup saw is not stale when it acts on it (nonce.go:22-25).          *)
LookupFresh == \A c \in Callers : pc[c] = "add" => arg[c] \notin seen

(* NonceReuseError is never spurious: some call of this process was accepted *)
(* with the nonce (nonce.go:22-24).                                          *)
RefusalJustified ==
    \A c \in Callers : answer[c] = "NonceReuseError" => grants[arg[c]] = 1

(* Every call of CheckAndAdd ends, with an answer or with the process: no    *)
(* way out keeps the mutex (nonce.go:20-21).                                 *)
CallsEnd == \A c \in Callers : pc[c] # "idle" ~> pc[c] = "idle"

-----------------------------------------------------------------------------
(* The store implements the atomic one: a call is linearized at Add, or at   *)
(* the lookup that finds the nonce.                                          *)
StatusOf(c) == IF pc[c] = "idle" THEN "idle"
               ELSE IF pc[c] \in {"lock", "check", "add"} THEN "asked"
               ELSE IF answer[c] = "nil" THEN "granted" ELSE "refused"

Atomic == INSTANCE AtomicNonceStore
          WITH status <- [c \in Callers |-> StatusOf(c)], asked <- arg

(* Every behaviour of MemNonceStore is one of a store whose CheckAndAdd is   *)
(* indivisible (the contract of validate.go:37-41).                          *)
ImplementsAtomic == Atomic!Spec
=============================================================================
