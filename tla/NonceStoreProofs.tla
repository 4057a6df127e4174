-------------------------- MODULE NonceStoreProofs --------------------------
(* Proofs about MemNonceStore, for any number of callers, nonces and         *)
(* restarts: type correctness, the safety invariants of NonceStore, and that *)
(* the locked map implements the atomic store.                               *)
EXTENDS NonceStore, TLAPS

(* Where a caller is determines what it holds: a nonce while it is calling,  *)
(* an answer once it has acted.                                              *)
CallShape ==
    \A c \in Callers :
        /\ pc[c] # "idle" => arg[c] \in Nonces
        /\ answer[c] # "none" <=> pc[c] \in {"unlock", "return"}

(* The inductive invariant: mutual exclusion makes the lookup fresh, and the *)
(* fresh lookup makes the acceptance unique.                                 *)
IInv == /\ TypeOK
        /\ CallShape
        /\ MutexInv
        /\ AcceptedOnce
        /\ LookupFresh
        /\ RefusalJustified

(* A new store satisfies the inductive invariant (nonce.go:14-16). *)
LEMMA InitIInv == Init => IInv
<1> SUFFICES ASSUME Init PROVE IInv
    OBVIOUS
<1>1. TypeOK
    BY MaxRestartsAssumption
       DEF Init, NewMemNonceStore, TypeOK, Labels, Answers
<1>2. CallShape
    BY DEF Init, CallShape
<1>3. MutexInv
    BY NoCallerAssumption DEF Init, NewMemNonceStore, MutexInv, CriticalSection
<1>4. AcceptedOnce
    BY DEF Init, NewMemNonceStore, AcceptedOnce
<1>5. LookupFresh /\ RefusalJustified
    BY DEF Init, LookupFresh, RefusalJustified
<1> QED
    BY <1>1, <1>2, <1>3, <1>4, <1>5 DEF IInv

(* Every step of every caller, and a restart, preserves it (nonce.go:19-27). *)
LEMMA NextIInv == IInv /\ [Next]_vars => IInv'
<1> SUFFICES ASSUME IInv, [Next]_vars PROVE IInv'
    OBVIOUS
<1> USE NoCallerAssumption, NoNonceAssumption, MaxRestartsAssumption
    DEF IInv, TypeOK, CallShape, MutexInv, CriticalSection, AcceptedOnce,
        LookupFresh, RefusalJustified, Labels, Answers
<1>1. CASE UNCHANGED vars
    BY <1>1 DEF vars
<1>2. ASSUME NEW c \in Callers, NEW n \in Nonces, Call(c, n) PROVE IInv'
    BY <1>2 DEF Call, Goto
<1>3. ASSUME NEW c \in Callers, Lock(c) PROVE IInv'
    BY <1>3 DEF Lock, Goto
<1>4. ASSUME NEW c \in Callers, CheckSeen(c) PROVE IInv'
    BY <1>4 DEF CheckSeen, Goto
<1>5. ASSUME NEW c \in Callers, CheckUnseen(c) PROVE IInv'
    BY <1>5 DEF CheckUnseen, Goto
<1>6. ASSUME NEW c \in Callers, Add(c) PROVE IInv'
  <2>1. arg[c] \in Nonces /\ arg[c] \notin seen /\ grants[arg[c]] = 0
      BY <1>6 DEF Add
  <2>2. \A d \in Callers : d # c => pc[d] \notin CriticalSection
      BY <1>6 DEF Add
  <2>3. TypeOK' /\ CallShape' /\ MutexInv'
      BY <1>6, <2>1 DEF Add, Goto
  <2>4. AcceptedOnce'
      BY <1>6, <2>1 DEF Add
  <2>5. LookupFresh'
      BY <1>6, <2>2 DEF Add, Goto
  <2>6. RefusalJustified'
    <3> SUFFICES ASSUME NEW d \in Callers, answer'[d] = "NonceReuseError"
                 PROVE  grants'[arg'[d]] = 1
        OBVIOUS
    <3>1. d # c /\ grants[arg[d]] = 1 /\ arg[d] # arg[c]
        BY <1>6, <2>1 DEF Add
    <3> QED
        BY <1>6, <3>1 DEF Add
  <2> QED
      BY <2>3, <2>4, <2>5, <2>6
<1>7. ASSUME NEW c \in Callers, Unlock(c) PROVE IInv'
    BY <1>7 DEF Unlock, Goto
<1>8. ASSUME NEW c \in Callers, Return(c) PROVE IInv'
    BY <1>8 DEF Return, Goto
<1>9. CASE Restart
    BY <1>9 DEF Restart
<1> QED
    BY <1>1, <1>2, <1>3, <1>4, <1>5, <1>6, <1>7, <1>8, <1>9
       DEF Next, CheckAndAdd

(* The inductive invariant holds throughout, over restarts too               *)
(* (nonce.go:19-27).                                                         *)
THEOREM Invariance == Spec => []IInv
<1> QED
    BY InitIInv, NextIInv, PTL DEF Spec

(* Type correctness of the store and its callers. *)
THEOREM TypeCorrect == Spec => []TypeOK
<1>1. IInv => TypeOK
    BY DEF IInv
<1> QED
    BY <1>1, Invariance, PTL

(* The critical section of CheckAndAdd belongs to one caller at a time       *)
(* (nonce.go:20-21).                                                         *)
THEOREM MutualExclusion == Spec => []MutexInv
<1>1. IInv => MutexInv
    BY DEF IInv
<1> QED
    BY <1>1, Invariance, PTL

(* However many validations present a nonce together, the store accepts it   *)
(* once per incarnation (nonce.go:22-26).                                    *)
THEOREM NonceAcceptedOnce == Spec => []AcceptedOnce
<1>1. IInv => AcceptedOnce
    BY DEF IInv
<1> QED
    BY <1>1, Invariance, PTL

(* What a lookup saw still holds when the insertion acts on it               *)
(* (nonce.go:22-25).                                                         *)
THEOREM LookupNeverStale == Spec => []LookupFresh
<1>1. IInv => LookupFresh
    BY DEF IInv
<1> QED
    BY <1>1, Invariance, PTL

(* A NonceReuseError is reported only for a nonce that this incarnation      *)
(* accepted (nonce.go:22-24).                                                *)
THEOREM RefusalsJustified == Spec => []RefusalJustified
<1>1. IInv => RefusalJustified
    BY DEF IInv
<1> QED
    BY <1>1, Invariance, PTL

-----------------------------------------------------------------------------
AbstractStatus == [c \in Callers |-> StatusOf(c)]

(* Only the status of the caller that moves changes in the abstraction. *)
LEMMA StatusStep ==
    ASSUME NEW c \in Callers, NEW s,
           \A d \in Callers : d # c => StatusOf(d)' = StatusOf(d),
           StatusOf(c)' = s
    PROVE  AbstractStatus' = [AbstractStatus EXCEPT ![c] = s]
BY DEF AbstractStatus

(* The initial states of the locked map are initial states of the atomic     *)
(* store.                                                                    *)
LEMMA InitRefines == Init => Atomic!Init
BY DEF Init, NewMemNonceStore, Atomic!Init, StatusOf

(* Each step of a caller is a step of the atomic store or invisible to it:   *)
(* Add is Grant, a lookup that finds the nonce is Refuse, Lock, an           *)
(* unsuccessful lookup and Unlock are stutters.                              *)
LEMMA NextRefines == IInv /\ [Next]_vars => [Atomic!Next]_(Atomic!vars)
<1> SUFFICES ASSUME IInv, [Next]_vars PROVE [Atomic!Next]_(Atomic!vars)
    OBVIOUS
<1> USE DEF IInv, TypeOK, Labels, Answers
<1>1. CASE UNCHANGED vars
    BY <1>1 DEF vars, Atomic!vars, StatusOf
<1>2. ASSUME NEW c \in Callers, NEW n \in Nonces, Call(c, n)
      PROVE  Atomic!Ask(c, n)
  <2>1. StatusOf(c) = "idle" /\ StatusOf(c)' = "asked"
      BY <1>2 DEF Call, Goto, StatusOf
  <2>2. \A d \in Callers : d # c => StatusOf(d)' = StatusOf(d)
      BY <1>2 DEF Call, Goto, StatusOf
  <2> QED
      BY <1>2, <2>1, <2>2, StatusStep DEF Call, Atomic!Ask, AbstractStatus
<1>3. ASSUME NEW c \in Callers, Lock(c) \/ CheckUnseen(c) \/ Unlock(c)
      PROVE  UNCHANGED Atomic!vars
  <2>1. \A d \in Callers : StatusOf(d)' = StatusOf(d)
      BY <1>3 DEF Lock, CheckUnseen, Unlock, Goto, StatusOf
  <2> QED
      BY <1>3, <2>1 DEF Lock, CheckUnseen, Unlock, Atomic!vars
<1>4. ASSUME NEW c \in Callers, CheckSeen(c) PROVE Atomic!Refuse(c)
  <2>1. StatusOf(c) = "asked" /\ StatusOf(c)' = "refused"
      BY <1>4 DEF CheckSeen, Goto, StatusOf
  <2>2. \A d \in Callers : d # c => StatusOf(d)' = StatusOf(d)
      BY <1>4 DEF CheckSeen, Goto, StatusOf
  <2> QED
      BY <1>4, <2>1, <2>2, StatusStep
         DEF CheckSeen, Atomic!Refuse, AbstractStatus
<1>5. ASSUME NEW c \in Callers, Add(c) PROVE Atomic!Grant(c)
  <2>1. StatusOf(c) = "asked" /\ StatusOf(c)' = "granted"
      BY <1>5 DEF Add, Goto, StatusOf
  <2>2. \A d \in Callers : d # c => StatusOf(d)' = StatusOf(d)
      BY <1>5 DEF Add, Goto, StatusOf
  <2>3. arg[c] \notin seen
      BY <1>5 DEF Add, LookupFresh
  <2> QED
      BY <1>5, <2>1, <2>2, <2>3, StatusStep
         DEF Add, Atomic!Grant, AbstractStatus
<1>6. ASSUME NEW c \in Callers, Return(c) PROVE Atomic!Return(c)
  <2>1. StatusOf(c) \in {"granted", "refused"} /\ StatusOf(c)' = "idle"
      BY <1>6 DEF Return, Goto, StatusOf
  <2>2. \A d \in Callers : d # c => StatusOf(d)' = StatusOf(d)
      BY <1>6 DEF Return, Goto, StatusOf
  <2> QED
      BY <1>6, <2>1, <2>2, StatusStep DEF Return, Atomic!Return, AbstractStatus
<1>7. CASE Restart
  <2>1. Atomic!Restart
      BY <1>7 DEF Restart, Atomic!Restart, StatusOf
  <2> QED
      BY <2>1 DEF Atomic!Next
<1> QED
    BY <1>1, <1>2, <1>3, <1>4, <1>5, <1>6, <1>7
       DEF Next, CheckAndAdd, Atomic!Next

(* MemNonceStore implements the atomic CheckAndAdd that the pipeline relies  *)
(* on (validate.go:37-41).                                                   *)
THEOREM StoreImplementsAtomic == Spec => ImplementsAtomic
<1> QED
    BY InitRefines, NextRefines, Invariance, PTL
       DEF Spec, Atomic!Spec, ImplementsAtomic

-----------------------------------------------------------------------------
(* Every way out of CheckAndAdd leads to its end.                            *)

(* The guards of CheckAndAdd(c). *)
CanStep(c) == \/ pc[c] = "lock" /\ mu = NoCaller
              \/ pc[c] \in {"check", "add", "unlock", "return"}

(* A call that cannot go on waits for the one that owns the mutex, and that  *)
(* one can go on: the callers never all wait for each other                  *)
(* (nonce.go:20-21).                                                         *)
OwnerGoesOn ==
    \A c \in Callers : pc[c] # "idle" /\ ~CanStep(c) =>
                          mu \in Callers /\ CanStep(mu)

(* No deadlock, for any number of callers (nonce.go:20-21). *)
THEOREM NeverAllWaiting == Spec => []OwnerGoesOn
<1>1. IInv => OwnerGoesOn
    BY DEF IInv, TypeOK, MutexInv, CriticalSection, OwnerGoesOn, CanStep, Labels
<1> QED
    BY <1>1, Invariance, PTL

(* The steps a call has still to take, at most. *)
StepsLeft(c) == CASE pc[c] = "lock" -> 5
                  [] pc[c] = "check" -> 4
                  [] pc[c] = "add" -> 3
                  [] pc[c] = "unlock" -> 2
                  [] pc[c] = "return" -> 1
                  [] OTHER -> 0

(* Each step of a call brings it nearer to its end, and no step of another   *)
(* caller sends it back: whatever the interleaving, a call ends within five  *)
(* steps of its own (nonce.go:19-27).                                        *)
StepsCountDown ==
    [][\A c \in Callers :
          /\ CheckAndAdd(c) => StepsLeft(c)' < StepsLeft(c)
          /\ pc[c] # "idle" => StepsLeft(c)' <= StepsLeft(c)]_vars

(* Every call of CheckAndAdd counts down (nonce.go:19-27). *)
THEOREM CallsComeToAnEnd == Spec => StepsCountDown
<1>1. ASSUME IInv, [Next]_vars
      PROVE  [\A c \in Callers :
                 /\ CheckAndAdd(c) => StepsLeft(c)' < StepsLeft(c)
                 /\ pc[c] # "idle" => StepsLeft(c)' <= StepsLeft(c)]_vars
  <2> SUFFICES ASSUME Next, NEW c \in Callers
               PROVE  /\ CheckAndAdd(c) => StepsLeft(c)' < StepsLeft(c)
                      /\ pc[c] # "idle" => StepsLeft(c)' <= StepsLeft(c)
      BY <1>1
  <2> USE <1>1 DEF IInv, TypeOK, Labels, StepsLeft, Goto
  <2>1. ASSUME CheckAndAdd(c) PROVE StepsLeft(c)' < StepsLeft(c)
      BY <2>1 DEF CheckAndAdd, Lock, CheckSeen, CheckUnseen, Add, Unlock, Return
  <2>2. ASSUME NEW d \in Callers, NEW n \in Nonces, Call(d, n), pc[c] # "idle"
        PROVE  StepsLeft(c)' <= StepsLeft(c)
      BY <2>2 DEF Call
  <2>3. ASSUME NEW d \in Callers, CheckAndAdd(d), pc[c] # "idle", d # c
        PROVE  StepsLeft(c)' <= StepsLeft(c)
      BY <2>3 DEF CheckAndAdd, Lock, CheckSeen, CheckUnseen, Add, Unlock, Return
  <2>4. ASSUME Restart PROVE StepsLeft(c)' <= StepsLeft(c)
      BY <2>4 DEF Restart
  <2>5. StepsLeft(c) \in Nat /\ StepsLeft(c)' \in Nat
      OBVIOUS
  <2> QED
      BY <2>1, <2>2, <2>3, <2>4, <2>5 DEF Next
<1> QED
    BY <1>1, Invariance, PTL DEF Spec, StepsCountDown
=============================================================================
