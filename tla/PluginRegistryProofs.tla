------------------------ MODULE PluginRegistryProofs ------------------------
(* Proofs about the plugin registry, for any number of goroutines, plugins   *)
(* and schemes: types, the lock, the freshness of the check of Register,     *)
(* that a plugin is never replaced, and that the locked map implements the   *)
(* atomic registry.                                                          *)
EXTENDS PluginRegistry, Naturals, TLAPS

(* Where a goroutine is determines which operation it is in, and when it has *)
(* an answer.                                                                *)
CallShape ==
    \A c \in Callers :
        /\ op[c] = None <=> pc[c] \in {"idle", "run"}
        /\ pc[c] \in {"lock", "drain", "check", "write"} => op[c] \in Writes
        /\ pc[c] \in {"rlock", "read", "runlock"} => op[c] \in Reads
        /\ pc[c] = "check" => op[c].name = "Register"
        /\ reply[c] # None <=> pc[c] \in {"unlock", "runlock", "return"}

(* What Execute has found is a plugin, or nothing. *)
FoundIsPlugin ==
    \A c \in Callers : (op[c] # None /\ op[c].name = "Execute")
                          => \A p \in reply[c] : reply[c] # None => p \in Plugins

(* The inductive invariant: the lock keeps the check of Register fresh.      *)
IInv == /\ TypeOK
        /\ CallShape
        /\ FoundIsPlugin
        /\ LockInv
        /\ CheckFresh

(* A new registry satisfies the inductive invariant (plugin.go:76-78). *)
LEMMA InitIInv == Init => IInv
<1> SUFFICES ASSUME Init PROVE IInv
    OBVIOUS
<1>1. TypeOK
    BY DEF Init, NewPluginRegistry, TypeOK, Labels
<1>2. CallShape /\ FoundIsPlugin
    BY DEF Init, CallShape, FoundIsPlugin
<1>3. LockInv
    BY NoneAssumption DEF Init, NewPluginRegistry, LockInv, WriterSection
<1>4. CheckFresh
    BY DEF Init, CheckFresh
<1> QED
    BY <1>1, <1>2, <1>3, <1>4 DEF IInv

(* An operation of the registry has a name and an argument. *)
LEMMA OperationShape ==
    ASSUME NEW o \in Writes \cup Reads
    PROVE  /\ o # None
           /\ o.name \in {"Register", "Reset", "Find", "Execute", "Keys"}
           /\ o = [name |-> o.name, arg |-> o.arg]
           /\ o.name = "Register" => o.arg \in Plugins /\ o \in Writes
           /\ o.name \in {"Find", "Execute"} => o.arg \in Schemes
           /\ o.name \in {"Reset", "Keys"} => o.arg = None
           /\ o \in Writes <=> o.name \in {"Register", "Reset"}
           /\ o \in Reads <=> o.name \in {"Find", "Execute", "Keys"}
<1>1. o # None
    BY NoneAssumption
<1> QED
    BY <1>1 DEF Writes, Reads, Operation

(* What the operations answer is an answer, and None is not. *)
LEMMA AnswerShape ==
    /\ {"nil"} \in Answers /\ {"taken"} \in Answers
    /\ {} \in Answers
    /\ \A p \in Plugins \cup {None} : /\ {p} \ {None} \in Answers
                                     /\ {p} \ {None} \subseteq Plugins
    /\ \A S \in SUBSET Schemes : S \in Answers
    /\ \A answer \in Answers : answer # None
<1>1. \A S \in SUBSET Plugins : S \in Answers
    BY DEF Answers
<1>2. \A p \in Plugins \cup {None} : {p} \ {None} \in SUBSET Plugins
    OBVIOUS
<1>3. {"nil"} \in Answers /\ {"taken"} \in Answers
    BY DEF Answers
<1>4. \A S \in SUBSET Schemes : S \in Answers
    BY DEF Answers
<1>5. \A answer \in Answers : answer # None
    BY NoneAssumption
<1>6. \A p \in Plugins \cup {None} : /\ {p} \ {None} \in Answers
                                     /\ {p} \ {None} \subseteq Plugins
    BY <1>1, <1>2
<1>7. {} \in Answers
    BY <1>1
<1> QED
    BY <1>3, <1>4, <1>5, <1>6, <1>7

(* Every step of every goroutine preserves it (plugin.go:108-168). *)
LEMMA NextIInv == IInv /\ [Next]_vars => IInv'
<1> SUFFICES ASSUME IInv, [Next]_vars PROVE IInv'
    OBVIOUS
<1> USE NoneAssumption, SchemeAssumption
    DEF IInv, TypeOK, CallShape, FoundIsPlugin, LockInv, WriterSection,
        CheckFresh, Labels, Goto, Answer, Registered
<1>1. CASE UNCHANGED vars
    BY <1>1 DEF vars
<1>2. ASSUME NEW c \in Callers, InvokeWrite(c) PROVE IInv'
    BY <1>2, OperationShape DEF InvokeWrite, Invoke
<1>3. ASSUME NEW c \in Callers, InvokeRead(c) PROVE IInv'
    BY <1>3, OperationShape DEF InvokeRead, Invoke
<1>4. ASSUME NEW c \in Callers, Announce(c) PROVE IInv'
    BY <1>4 DEF Announce
<1>5. ASSUME NEW c \in Callers, Drained(c) PROVE IInv'
    BY <1>5, OperationShape DEF Drained
<1>6. ASSUME NEW c \in Callers, CheckTaken(c) PROVE IInv'
  <2>1. reply' = [reply EXCEPT ![c] = {"taken"}]
      BY <1>6 DEF CheckTaken
  <2>2. {"taken"} \in Answers /\ {"taken"} # None
      BY <1>6, AnswerShape, OperationShape DEF CheckTaken
  <2>3. TypeOK'
      BY <1>6, <2>1, <2>2, OperationShape DEF CheckTaken
  <2>4. CallShape' /\ LockInv' /\ CheckFresh'
      BY <1>6, <2>1, <2>2, OperationShape DEF CheckTaken
  <2>5. FoundIsPlugin'
      BY <1>6, <2>1, OperationShape, AnswerShape DEF CheckTaken
  <2> QED
      BY <2>3, <2>4, <2>5
<1>7. ASSUME NEW c \in Callers, CheckFree(c) PROVE IInv'
    BY <1>7, OperationShape DEF CheckFree
<1>8. ASSUME NEW c \in Callers, WritePlugin(c) PROVE IInv'
  <2>1. reply' = [reply EXCEPT ![c] = {"nil"}]
      BY <1>8 DEF WritePlugin
  <2>2. {"nil"} \in Answers /\ {"nil"} # None
      BY <1>8, AnswerShape, OperationShape DEF WritePlugin
  <2>3. TypeOK'
      BY <1>8, <2>1, <2>2, OperationShape DEF WritePlugin
  <2>4. CallShape' /\ LockInv' /\ CheckFresh'
      BY <1>8, <2>1, <2>2, OperationShape DEF WritePlugin
  <2>5. FoundIsPlugin'
      BY <1>8, <2>1, OperationShape, AnswerShape DEF WritePlugin
  <2> QED
      BY <2>3, <2>4, <2>5
<1>9. ASSUME NEW c \in Callers, WriteEmpty(c) PROVE IInv'
  <2>1. reply' = [reply EXCEPT ![c] = {}]
      BY <1>9 DEF WriteEmpty
  <2>2. {} \in Answers /\ {} # None
      BY <1>9, AnswerShape, OperationShape DEF WriteEmpty
  <2>3. TypeOK'
      BY <1>9, <2>1, <2>2, OperationShape DEF WriteEmpty
  <2>4. CallShape' /\ LockInv' /\ CheckFresh'
      BY <1>9, <2>1, <2>2, OperationShape DEF WriteEmpty
  <2>5. FoundIsPlugin'
      BY <1>9, <2>1, OperationShape, AnswerShape DEF WriteEmpty
  <2> QED
      BY <2>3, <2>4, <2>5
<1>10. ASSUME NEW c \in Callers, Unlock(c) PROVE IInv'
    BY <1>10, OperationShape DEF Unlock
<1>11. ASSUME NEW c \in Callers, RLock(c) PROVE IInv'
    BY <1>11, OperationShape DEF RLock
<1>12. ASSUME NEW c \in Callers, ReadPlugin(c) PROVE IInv'
  <2>1. reply' = [reply EXCEPT ![c] = {plugins[op[c].arg]} \ {None}]
      BY <1>12 DEF ReadPlugin
  <2>2. {plugins[op[c].arg]} \ {None} \in Answers /\ {plugins[op[c].arg]} \ {None} # None
      BY <1>12, AnswerShape, OperationShape DEF ReadPlugin
  <2>3. TypeOK'
      BY <1>12, <2>1, <2>2, OperationShape DEF ReadPlugin
  <2>4. CallShape' /\ LockInv' /\ CheckFresh'
      BY <1>12, <2>1, <2>2, OperationShape DEF ReadPlugin
  <2>5. FoundIsPlugin'
      BY <1>12, <2>1, OperationShape, AnswerShape DEF ReadPlugin
  <2> QED
      BY <2>3, <2>4, <2>5
<1>13. ASSUME NEW c \in Callers, ReadKeys(c) PROVE IInv'
  <2>1. {s \in Schemes : Registered(s)} \in SUBSET Schemes
      OBVIOUS
  <2>2. PICK keys \in Answers : reply' = [reply EXCEPT ![c] = keys]
      BY <1>13, <2>1, AnswerShape DEF ReadKeys
  <2>3. /\ pc[c] = "read" /\ pc' = [pc EXCEPT ![c] = "runlock"]
        /\ UNCHANGED <<plugins, writer, readers, op, running>>
        /\ op[c].name = "Keys" /\ keys # None
      BY <1>13, AnswerShape DEF ReadKeys
  <2>4. TypeOK'
      BY <2>2, <2>3, OperationShape
  <2>5. CallShape' /\ LockInv' /\ CheckFresh'
      BY <2>2, <2>3, OperationShape
  <2>6. op' = op /\ \A d \in Callers : d # c => reply'[d] = reply[d]
      BY <1>13, <2>2 DEF ReadKeys
  <2>7. FoundIsPlugin'
      BY <2>3, <2>6
  <2> QED
      BY <2>4, <2>5, <2>7
<1>14. ASSUME NEW c \in Callers, RUnlock(c) PROVE IInv'
    BY <1>14, OperationShape DEF RUnlock
<1>15. ASSUME NEW c \in Callers, Return(c) PROVE IInv'
    BY <1>15, OperationShape DEF Return, Finished
<1>16. ASSUME NEW c \in Callers, RunPlugin(c) PROVE IInv'
    BY <1>16, OperationShape DEF RunPlugin, Finished
<1>17. ASSUME NEW c \in Callers, PluginReturns(c) PROVE IInv'
    BY <1>17 DEF PluginReturns
<1> QED
    BY <1>1, <1>2, <1>3, <1>4, <1>5, <1>6, <1>7, <1>8, <1>9, <1>10, <1>11, <1>12, <1>13, <1>14, <1>15, <1>16, <1>17
       DEF Next, Step

(* The inductive invariant holds throughout, while plugins run too           *)
(* (plugin.go:108-168).                                                      *)
THEOREM Invariance == Spec => []IInv
<1> QED
    BY InitIInv, NextIInv, PTL DEF Spec

(* Type correctness of the registry and its callers. *)
THEOREM TypeCorrect == Spec => []TypeOK
<1>1. IInv => TypeOK
    BY DEF IInv
<1> QED
    BY <1>1, Invariance, PTL

(* Writers are alone, and a running plugin holds no lock                     *)
(* (plugin.go:116-142).                                                      *)
THEOREM LockDiscipline == Spec => []LockInv
<1>1. IInv => LockInv
    BY DEF IInv
<1> QED
    BY <1>1, Invariance, PTL

(* The scheme that Register found free is free when it writes                *)
(* (plugin.go:118-121).                                                      *)
THEOREM CheckNeverStale == Spec => []CheckFresh
<1>1. IInv => CheckFresh
    BY DEF IInv
<1> QED
    BY <1>1, Invariance, PTL

(* A step changes the map only in WritePlugin, of a free scheme, and in      *)
(* WriteEmpty.                                                               *)
LEMMA NextNeverReplaces ==
    ASSUME IInv, [Next]_vars
    PROVE  \A s \in Schemes : Registered(s) => plugins'[s] \in {plugins[s], None}
<1>1. CASE UNCHANGED vars
    BY <1>1 DEF vars
<1>2. ASSUME NEW c \in Callers, WritePlugin(c)
      PROVE  \A s \in Schemes :
                 Registered(s) => plugins'[s] \in {plugins[s], None}
    BY <1>2 DEF WritePlugin, IInv, TypeOK, CheckFresh, Registered
<1>3. ASSUME NEW c \in Callers, WriteEmpty(c)
      PROVE  \A s \in Schemes :
                 Registered(s) => plugins'[s] \in {plugins[s], None}
    BY <1>3 DEF WriteEmpty
<1>4. ASSUME NEW c \in Callers,
             \/ InvokeWrite(c) \/ InvokeRead(c) \/ Announce(c) \/ Drained(c)
             \/ CheckTaken(c) \/ CheckFree(c) \/ Unlock(c) \/ RLock(c)
             \/ ReadPlugin(c) \/ ReadKeys(c) \/ RUnlock(c) \/ Return(c)
             \/ RunPlugin(c) \/ PluginReturns(c)
      PROVE  plugins' = plugins
    BY <1>4 DEF InvokeWrite, InvokeRead, Invoke, Announce, Drained, CheckTaken,
                CheckFree, Unlock, RLock, ReadPlugin, ReadKeys, RUnlock, Return,
                RunPlugin, PluginReturns, Finished
<1> QED
    BY <1>1, <1>2, <1>3, <1>4 DEF Next, Step

(* A registered plugin is replaced by none but nil (plugin.go:118-121).      *)
THEOREM PluginsStay == Spec => NeverReplaced
<1>1. IInv /\ [Next]_vars
      => [\A s \in Schemes : Registered(s) => plugins'[s] \in {plugins[s], None}]_vars
    BY NextNeverReplaces
<1> QED
    BY <1>1, Invariance, PTL DEF Spec, NeverReplaced

-----------------------------------------------------------------------------
AbstractOps == [c \in Callers |-> AbstractOp(op[c])]

(* What the callers of the atomic registry see of an operation. *)
LEMMA AbstractShape ==
    ASSUME NEW o \in Writes \cup Reads
    PROVE  /\ AbstractOp(o) \in Atomic!Operations
           /\ AbstractOp(o) # None
           /\ AbstractOp(o).arg = o.arg
           /\ o.name = "Execute" => AbstractOp(o).name = "Find"
           /\ o.name # "Execute" => AbstractOp(o).name = o.name
<1>1. CASE o.name = "Execute"
  <2>1. o \in Operation("Execute", Schemes) /\ o.arg \in Schemes
      BY <1>1 DEF Writes, Reads, Operation
  <2>2. AbstractOp(o) = [name |-> "Find", arg |-> o.arg]
      BY <2>1 DEF AbstractOp
  <2>3. AbstractOp(o) \in Reads
      BY <2>1, <2>2 DEF Reads, Operation
  <2> QED
      BY <1>1, <2>1, <2>2, <2>3, OperationShape
         DEF Atomic!Operations, Atomic!Find
<1>2. CASE o.name # "Execute"
  <2>1. AbstractOp(o) = o
      BY <1>2 DEF AbstractOp, Operation
  <2> QED
      BY <1>2, <2>1, OperationShape
         DEF Atomic!Operations, Atomic!Find, Atomic!Register, Atomic!Keys,
             Atomic!Reset
<1> QED
    BY <1>1, <1>2

LEMMA AbstractNone == AbstractOp(None) = None
BY NoneAssumption DEF AbstractOp, Reads

(* A new registry is a new atomic registry. *)
LEMMA InitRefines == Init => Atomic!Init
BY AbstractNone DEF Init, NewPluginRegistry, Atomic!Init, Atomic!NoPlugins

(* A call is a call of the atomic registry. *)
LEMMA InvokeRefines ==
    ASSUME IInv, NEW c \in Callers, NEW o \in Writes \cup Reads, NEW label,
           Invoke(c, o, label)
    PROVE  Atomic!Invoke(c, AbstractOp(o))
<1>1. op \in [Callers -> Writes \cup Reads \cup {None}]
    BY DEF IInv, TypeOK
<1>2. AbstractOps' = [AbstractOps EXCEPT ![c] = AbstractOp(o)]
    BY <1>1 DEF Invoke, AbstractOps
<1>3. AbstractOps[c] = None
    BY AbstractNone DEF Invoke, AbstractOps
<1> QED
    BY <1>2, <1>3 DEF Invoke, Atomic!Invoke, AbstractOps

(* The end of a call is a return of the atomic registry. *)
LEMMA FinishedRefines ==
    ASSUME IInv, NEW c \in Callers, pc[c] = "return", Finished(c)
    PROVE  Atomic!Return(c)
<1>1. op \in [Callers -> Writes \cup Reads \cup {None}] /\ reply[c] # None
    BY DEF IInv, TypeOK, CallShape
<1>2. AbstractOps' = [AbstractOps EXCEPT ![c] = None]
    BY <1>1, AbstractNone DEF Finished, AbstractOps
<1> QED
    BY <1>1, <1>2 DEF Finished, Answer, Atomic!Return, AbstractOps

(* Inside a call, the atomic registry has the operation pending. *)
LEMMA InsideIsPending ==
    ASSUME IInv, NEW c \in Callers, pc[c] \in {"check", "write", "read"}
    PROVE  /\ op[c] \in Writes \cup Reads
           /\ AbstractOps[c] = AbstractOp(op[c])
           /\ Atomic!Pending(c, AbstractOp(op[c]).name)
<1>1. op[c] \in Writes \cup Reads /\ reply[c] = None
    BY DEF IInv, TypeOK, CallShape
<1> QED
    BY <1>1, AbstractShape DEF AbstractOps, Atomic!Pending

(* Each step of a goroutine is a step of the atomic registry or invisible to *)
(* it: CheckTaken is Reject, WritePlugin is Add, WriteEmpty is Clear, the    *)
(* reads are Lookup and List; taking and releasing the lock are stutters.    *)
LEMMA NextRefines == IInv /\ [Next]_vars => [Atomic!Next]_(Atomic!vars)
<1> SUFFICES ASSUME IInv, [Next]_vars PROVE [Atomic!Next]_(Atomic!vars)
    OBVIOUS
<1>1. CASE UNCHANGED vars
    BY <1>1 DEF vars, Atomic!vars
<1>2. ASSUME NEW c \in Callers, InvokeWrite(c) \/ InvokeRead(c)
      PROVE  \E o \in Atomic!Operations : Atomic!Invoke(c, o)
  <2>1. PICK o \in Writes \cup Reads, label \in {"lock", "rlock"} :
         Invoke(c, o, label)
      BY <1>2 DEF InvokeWrite, InvokeRead
  <2> QED
      BY <2>1, InvokeRefines, AbstractShape
<1>3. ASSUME NEW c \in Callers,
             \/ Announce(c) \/ Drained(c) \/ CheckFree(c) \/ Unlock(c)
             \/ RLock(c) \/ RUnlock(c) \/ PluginReturns(c)
      PROVE  UNCHANGED Atomic!vars
    BY <1>3 DEF Announce, Drained, CheckFree, Unlock, RLock, RUnlock,
                PluginReturns, Atomic!vars
<1>4. ASSUME NEW c \in Callers, CheckTaken(c) PROVE Atomic!Reject(c)
  <2>1. op[c].name = "Register"
      BY <1>4 DEF CheckTaken, IInv, CallShape
  <2> QED
      BY <1>4, <2>1, InsideIsPending, AbstractShape
         DEF CheckTaken, Answer, Registered, AbstractOps, Atomic!Reject,
             Atomic!Answer, Atomic!Registered
<1>5. ASSUME NEW c \in Callers, WritePlugin(c) PROVE Atomic!Add(c)
  <2>1. ~Registered(SchemeOf[op[c].arg])
      BY <1>5 DEF WritePlugin, IInv, CheckFresh
  <2> QED
      BY <1>5, <2>1, InsideIsPending, AbstractShape
         DEF WritePlugin, Answer, Registered, AbstractOps, Atomic!Add,
             Atomic!Answer, Atomic!Registered
<1>6. ASSUME NEW c \in Callers, WriteEmpty(c) PROVE Atomic!Clear(c)
    BY <1>6, InsideIsPending, AbstractShape
       DEF WriteEmpty, Answer, AbstractOps, Atomic!Clear, Atomic!Answer,
           Atomic!NoPlugins
<1>7. ASSUME NEW c \in Callers, ReadPlugin(c) PROVE Atomic!Lookup(c)
    BY <1>7, InsideIsPending, AbstractShape
       DEF ReadPlugin, Answer, AbstractOps, Atomic!Lookup, Atomic!Answer
<1>8. ASSUME NEW c \in Callers, ReadKeys(c) PROVE Atomic!List(c)
    BY <1>8, InsideIsPending, AbstractShape
       DEF ReadKeys, Answer, Registered, AbstractOps, Atomic!List,
           Atomic!Answer, Atomic!Registered
<1>9. ASSUME NEW c \in Callers, Return(c) \/ RunPlugin(c)
      PROVE  Atomic!Return(c)
    BY <1>9, FinishedRefines DEF Return, RunPlugin
<1> QED
    BY <1>1, <1>2, <1>3, <1>4, <1>5, <1>6, <1>7, <1>8, <1>9
       DEF Next, Step, Atomic!Next

(* The locked map implements the atomic registry (plugin.go:108-168).        *)
THEOREM RegistryImplementsAtomic == Spec => ImplementsAtomic
<1> QED
    BY InitRefines, NextRefines, Invariance, PTL
       DEF Spec, Atomic!Spec, ImplementsAtomic

-----------------------------------------------------------------------------
(* Every operation leads to its end.                                         *)

(* The guards of Step(c). *)
CanStep(c) == \/ pc[c] \in {"lock", "rlock"} /\ writer = None
              \/ pc[c] = "drain" /\ readers = {}
              \/ pc[c] \in {"check", "unlock", "runlock"}
              \/ pc[c] = "write" /\ op[c].name \in {"Register", "Reset"}
              \/ pc[c] = "read" /\ op[c].name \in {"Find", "Execute", "Keys"}
              \/ pc[c] = "return" /\ (op[c].name = "Execute" =>
                                         reply[c] = {} \/ \E p \in reply[c] : TRUE)

(* An operation that cannot go on waits for one that holds the lock and can: *)
(* the goroutines never all wait for each other, and none waits for a plugin *)
(* to return, the one that called it included (plugin.go:117-142).           *)
HolderGoesOn ==
    \A c \in Callers : op[c] # None /\ ~CanStep(c) =>
        \E d \in readers \cup {writer} : d \in Callers /\ CanStep(d)

(* No deadlock, for any number of goroutines (plugin.go:117-142). *)
THEOREM NeverAllWaiting == Spec => []HolderGoesOn
<1>1. ASSUME IInv PROVE HolderGoesOn
  <2> SUFFICES ASSUME NEW c \in Callers, op[c] # None, ~CanStep(c)
               PROVE  \E d \in readers \cup {writer} : d \in Callers /\ CanStep(d)
      BY DEF HolderGoesOn
  <2> USE <1>1, OperationShape
      DEF IInv, TypeOK, CallShape, LockInv, WriterSection, Labels
  <2>1. pc[c] \in {"lock", "rlock", "drain"}
      BY DEF CanStep
  <2>2. ASSUME NEW d \in readers PROVE d \in Callers /\ CanStep(d)
      BY <2>2 DEF CanStep
  <2>3. CASE readers # {}
      BY <2>2, <2>3
  <2>4. CASE readers = {}
    <3>1. writer \in Callers
        BY <2>1, <2>4 DEF CanStep
    <3>2. pc[writer] \in {"drain", "check", "write", "unlock"}
        BY <3>1
    <3>3. CanStep(writer)
        BY <2>4, <3>1, <3>2 DEF CanStep
    <3> QED
        BY <3>1, <3>3
  <2> QED
      BY <2>3, <2>4
<1> QED
    BY <1>1, Invariance, PTL

(* The steps an operation has still to take, at most. *)
StepsLeft(c) == CASE pc[c] = "lock" -> 6
                  [] pc[c] = "drain" -> 5
                  [] pc[c] \in {"check", "rlock"} -> 4
                  [] pc[c] \in {"write", "read"} -> 3
                  [] pc[c] \in {"unlock", "runlock"} -> 2
                  [] pc[c] = "return" -> 1
                  [] OTHER -> 0

(* Each step of an operation brings it nearer to its end, and no step of     *)
(* another goroutine sends it back: it ends within six steps of its own      *)
(* (plugin.go:108-168).                                                      *)
StepsCountDown ==
    [][\A c \in Callers :
          /\ Step(c) => StepsLeft(c)' < StepsLeft(c)
          /\ op[c] # None => StepsLeft(c)' <= StepsLeft(c)]_vars

(* Every operation counts down (plugin.go:108-168). *)
THEOREM OperationsComeToAnEnd == Spec => StepsCountDown
<1>1. ASSUME IInv, [Next]_vars
      PROVE  [\A c \in Callers :
                 /\ Step(c) => StepsLeft(c)' < StepsLeft(c)
                 /\ op[c] # None => StepsLeft(c)' <= StepsLeft(c)]_vars
  <2> SUFFICES ASSUME Next, NEW c \in Callers
               PROVE  /\ Step(c) => StepsLeft(c)' < StepsLeft(c)
                      /\ op[c] # None => StepsLeft(c)' <= StepsLeft(c)
      BY <1>1
  <2>1. StepsLeft(c) \in Nat /\ StepsLeft(c)' \in Nat
      BY DEF StepsLeft
  <2>2. DOMAIN pc = Callers
      BY <1>1 DEF IInv, TypeOK
  <2>3. ASSUME Step(c) PROVE StepsLeft(c)' < StepsLeft(c)
      BY <1>1, <2>2, <2>3
         DEF Step, Announce, Drained, CheckTaken, CheckFree, WritePlugin,
             WriteEmpty, Unlock, RLock, ReadPlugin, ReadKeys, RUnlock, Return,
             RunPlugin, Goto, StepsLeft
  <2>4. ASSUME NEW d \in Callers, Step(d), d # c PROVE pc'[c] = pc[c]
      BY <1>1, <2>2, <2>4
         DEF Step, Announce, Drained, CheckTaken, CheckFree, WritePlugin,
             WriteEmpty, Unlock, RLock, ReadPlugin, ReadKeys, RUnlock, Return,
             RunPlugin, Goto
  <2>5. ASSUME NEW d \in Callers,
               InvokeWrite(d) \/ InvokeRead(d) \/ PluginReturns(d),
               op[c] # None
        PROVE  pc'[c] = pc[c]
      BY <1>1, <2>2, <2>5
         DEF IInv, CallShape, InvokeWrite, InvokeRead, Invoke, PluginReturns, Goto
  <2>6. pc'[c] = pc[c] => StepsLeft(c)' = StepsLeft(c)
      BY DEF StepsLeft
  <2> QED
      BY <2>1, <2>3, <2>4, <2>5, <2>6 DEF Next
<1> QED
    BY <1>1, Invariance, PTL DEF Spec, StepsCountDown
=============================================================================
