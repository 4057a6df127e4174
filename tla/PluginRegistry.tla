--------------------------- MODULE PluginRegistry ---------------------------
(* PluginRegistry of plugin.go: a map guarded by a sync.RWMutex.  Execute    *)
(* looks a plugin up under the read lock and calls it after the release, so  *)
(* that a plugin may use the registry that runs it.                          *)
CONSTANTS Callers,   \* goroutines that use the registry
          Plugins,   \* plugins with a scheme
          Schemes,   \* scheme ids
          SchemeOf,  \* the scheme a plugin reports
          None       \* nil: no plugin, no operation, no answer yet

ASSUME SchemeAssumption == SchemeOf \in [Plugins -> Schemes]

VARIABLES plugins,  \* r.plugins, as a total function
          writer,   \* the caller that has announced or holds the write lock
          readers,  \* the callers that hold the read lock
          pc,       \* per caller: where it is
          op,       \* per caller: the operation in progress, or None
          reply,    \* per caller: what it returns, as a set, or None
          running   \* per caller: the plugin whose Execute it is in, or None

vars == <<plugins, writer, readers, pc, op, reply, running>>

Operation(name, args) == {[name |-> name, arg |-> a] : a \in args}
Writes == Operation("Register", Plugins) \cup Operation("Reset", {None})
Reads == Operation("Find", Schemes) \cup Operation("Execute", Schemes)
         \cup Operation("Keys", {None})

Labels == {"idle", "lock", "drain", "check", "write", "unlock",
           "rlock", "read", "runlock", "return", "run"}

Answers == {{"nil"}, {"taken"}}
           \cup (SUBSET Plugins) \cup (SUBSET Schemes)

ASSUME NoneAssumption == /\ None \notin Callers \cup Plugins \cup Writes \cup Reads
                         /\ \A answer \in Answers : None # answer

TypeOK == /\ plugins \in [Schemes -> Plugins \cup {None}]
          /\ writer \in Callers \cup {None}
          /\ readers \subseteq Callers
          /\ pc \in [Callers -> Labels]
          /\ op \in [Callers -> Writes \cup Reads \cup {None}]
          /\ DOMAIN reply = Callers
          /\ \A c \in Callers : reply[c] = None \/ reply[c] \in Answers
          /\ running \in [Callers -> Plugins \cup {None}]

(* NewPluginRegistry *)
NewPluginRegistry == /\ plugins = [s \in Schemes |-> None]
                     /\ writer = None
                     /\ readers = {}

Init == /\ NewPluginRegistry
        /\ pc = [c \in Callers |-> "idle"]
        /\ op = [c \in Callers |-> None]
        /\ reply = [c \in Callers |-> None]
        /\ running = [c \in Callers |-> None]

Goto(c, label) == pc' = [pc EXCEPT ![c] = label]
Answer(c, value) == reply' = [reply EXCEPT ![c] = value]

Registered(s) == plugins[s] # None

(* A goroutine calls an operation, from its own code or from a plugin that   *)
(* Execute is running on it.  A nil plugin or an empty scheme is refused     *)
(* before the lock and changes nothing; a plugin does not call Execute (this *)
(* bounds the depth of the calls).                                           *)
Invoke(c, o, label) == /\ op[c] = None
                       /\ op' = [op EXCEPT ![c] = o]
                       /\ Goto(c, label)
                       /\ UNCHANGED <<plugins, writer, readers, reply, running>>

InvokeWrite(c) == /\ pc[c] \in {"idle", "run"}
                  /\ \E o \in Writes : Invoke(c, o, "lock")

InvokeRead(c) == /\ \/ pc[c] = "idle" /\ \E o \in Reads : Invoke(c, o, "rlock")
                    \/ pc[c] = "run" /\ \E o \in Reads :
                          o.name # "Execute" /\ Invoke(c, o, "rlock")

(* Mutant: writers do not exclude each other. *)
AnnounceShared(c) == /\ pc[c] = "lock"
                     /\ writer' = c
                     /\ Goto(c, "drain")
                     /\ UNCHANGED <<plugins, readers, op, reply, running>>

(* r.mu.Lock(): the writer announces itself, which keeps new readers out,    *)
(* and then waits for the readers that are inside.                           *)
Announce(c) == /\ pc[c] = "lock"
               /\ writer = None
               /\ writer' = c
               /\ Goto(c, "drain")
               /\ UNCHANGED <<plugins, readers, op, reply, running>>

(* Mutant: the writer does not wait for the readers. *)
DrainedEarly(c) ==
    /\ pc[c] = "drain"
    /\ Goto(c, IF op[c].name = "Register" THEN "check" ELSE "write")
    /\ UNCHANGED <<plugins, writer, readers, op, reply, running>>

Drained(c) == /\ pc[c] = "drain"
              /\ readers = {}
              /\ Goto(c, IF op[c].name = "Register" THEN "check" ELSE "write")
              /\ UNCHANGED <<plugins, writer, readers, op, reply, running>>

(* The scheme is taken: the error is built and the function returns. *)
CheckTaken(c) == /\ pc[c] = "check"
                 /\ Registered(SchemeOf[op[c].arg])
                 /\ Answer(c, {"taken"})
                 /\ Goto(c, "unlock")
                 /\ UNCHANGED <<plugins, writer, readers, op, running>>

(* Mutant: the lock is released between the check and the write. *)
CheckFreeUnlocks(c) == /\ pc[c] = "check"
                       /\ ~Registered(SchemeOf[op[c].arg])
                       /\ writer' = None
                       /\ Goto(c, "write")
                       /\ UNCHANGED <<plugins, readers, op, reply, running>>

(* Mutant: a registered scheme is overwritten. *)
CheckFreeAlways(c) == /\ pc[c] = "check"
                      /\ Goto(c, "write")
                      /\ UNCHANGED <<plugins, writer, readers, op, reply,
                                     running>>

CheckFree(c) == /\ pc[c] = "check"
                /\ ~Registered(SchemeOf[op[c].arg])
                /\ Goto(c, "write")
                /\ UNCHANGED <<plugins, writer, readers, op, reply, running>>

(* r.plugins[s] = p *)
WritePlugin(c) == /\ pc[c] = "write"
                  /\ op[c].name = "Register"
                  /\ plugins' = [plugins EXCEPT ![SchemeOf[op[c].arg]] = op[c].arg]
                  /\ Answer(c, {"nil"})
                  /\ Goto(c, "unlock")
                  /\ UNCHANGED <<writer, readers, op, running>>

(* r.plugins = make(...) *)
WriteEmpty(c) == /\ pc[c] = "write"
                 /\ op[c].name = "Reset"
                 /\ plugins' = [s \in Schemes |-> None]
                 /\ Answer(c, {})
                 /\ Goto(c, "unlock")
                 /\ UNCHANGED <<writer, readers, op, running>>

(* The deferred r.mu.Unlock(). *)
Unlock(c) == /\ pc[c] = "unlock"
             /\ writer' = None
             /\ Goto(c, "return")
             /\ UNCHANGED <<plugins, readers, op, reply, running>>

(* r.mu.RLock() *)
RLock(c) == /\ pc[c] = "rlock"
            /\ writer = None
            /\ readers' = readers \cup {c}
            /\ Goto(c, "read")
            /\ UNCHANGED <<plugins, writer, op, reply, running>>

(* Mutant: a missing plugin is returned like a plugin. *)
ReadPluginUnchecked(c) == /\ pc[c] = "read"
                          /\ op[c].name \in {"Find", "Execute"}
                          /\ Answer(c, {plugins[op[c].arg]})
                          /\ Goto(c, "runlock")
                          /\ UNCHANGED <<plugins, writer, readers, op, running>>

ReadPlugin(c) == /\ pc[c] = "read"
                 /\ op[c].name \in {"Find", "Execute"}
                 /\ Answer(c, {plugins[op[c].arg]} \ {None})
                 /\ Goto(c, "runlock")
                 /\ UNCHANGED <<plugins, writer, readers, op, running>>

(* Len and Keys *)
ReadKeys(c) == /\ pc[c] = "read"
               /\ op[c].name = "Keys"
               /\ Answer(c, {s \in Schemes : Registered(s)})
               /\ Goto(c, "runlock")
               /\ UNCHANGED <<plugins, writer, readers, op, running>>

(* Mutant: Execute keeps the read lock while the plugin runs. *)
RUnlockNotInExecute(c) ==
    /\ pc[c] = "runlock"
    /\ readers' = IF op[c].name = "Execute" THEN readers ELSE readers \ {c}
    /\ Goto(c, "return")
    /\ UNCHANGED <<plugins, writer, op, reply, running>>

(* The deferred r.mu.RUnlock(). *)
RUnlock(c) == /\ pc[c] = "runlock"
              /\ readers' = readers \ {c}
              /\ Goto(c, "return")
              /\ UNCHANGED <<plugins, writer, op, reply, running>>

Finished(c) == /\ op' = [op EXCEPT ![c] = None]
               /\ Answer(c, None)
               /\ UNCHANGED <<plugins, writer, readers>>

(* The caller has its result, or goes on in the plugin that called. *)
Return(c) == /\ pc[c] = "return"
             /\ op[c].name # "Execute" \/ reply[c] = {}
             /\ Goto(c, IF running[c] = None THEN "idle" ELSE "run")
             /\ running' = running
             /\ Finished(c)

(* p.Execute(cap, ctx), with the lock released. *)
RunPlugin(c) == /\ pc[c] = "return"
                /\ op[c].name = "Execute"
                /\ \E p \in reply[c] : running' = [running EXCEPT ![c] = p]
                /\ Goto(c, "run")
                /\ Finished(c)

PluginReturns(c) == /\ pc[c] = "run"
                    /\ running' = [running EXCEPT ![c] = None]
                    /\ Goto(c, "idle")
                    /\ UNCHANGED <<plugins, writer, readers, op, reply>>

Step(c) == \/ Announce(c) \/ Drained(c) \/ CheckTaken(c) \/ CheckFree(c)
           \/ WritePlugin(c) \/ WriteEmpty(c) \/ Unlock(c)
           \/ RLock(c) \/ ReadPlugin(c) \/ ReadKeys(c) \/ RUnlock(c)
           \/ Return(c) \/ RunPlugin(c)

Next == \E c \in Callers : \/ InvokeWrite(c) \/ InvokeRead(c)
                           \/ Step(c) \/ PluginReturns(c)

Spec == Init /\ [][Next]_vars

(* A goroutine that can run is eventually run.  sync.RWMutex lets a waiting  *)
(* writer in before later readers, and the waiting readers in when a writer  *)
(* unlocks, hence strong fairness for the two locks.  A plugin need not      *)
(* return.                                                                   *)
Fairness == \A c \in Callers : /\ WF_vars(Step(c))
                               /\ SF_vars(Announce(c))
                               /\ SF_vars(RLock(c))

FairSpec == Spec /\ Fairness

-----------------------------------------------------------------------------
(* One writer alone, or readers alone, are inside; a plugin that runs holds  *)
(* no lock (plugin.go:117-142).                                              *)
WriterSection == {"drain", "check", "write", "unlock"}
LockInv ==
    \A c \in Callers : /\ pc[c] \in WriterSection <=> writer = c
                       /\ pc[c] \in {"read", "runlock"} <=> c \in readers
                       /\ pc[c] \in WriterSection \ {"drain"} => readers = {}

(* A Register that is about to write still has a free scheme: its check is   *)
(* not stale (plugin.go:119-122).                                            *)
CheckFresh ==
    \A c \in Callers : pc[c] = "write" /\ op[c].name = "Register" =>
                           ~Registered(SchemeOf[op[c].arg])

(* A registered plugin is never replaced by another, only removed by a Reset *)
(* (plugin.go:119-122, 146-150).                                             *)
NeverReplaced ==
    [][\A s \in Schemes : Registered(s) => plugins'[s] \in {plugins[s], None}]_vars

(* Every operation ends, one that a running plugin calls included            *)
(* (plugin.go:137-143): Execute must not hold the lock while the plugin runs.*)
CallsEnd == \A c \in Callers : op[c] # None ~> op[c] = None

-----------------------------------------------------------------------------
(* The registry implements the atomic one.  To its caller, the lookup of     *)
(* Execute is a Find that has returned when the plugin runs.                 *)
AbstractOp(o) == IF o \in Operation("Execute", Schemes)
                 THEN [name |-> "Find", arg |-> o.arg] ELSE o

Atomic == INSTANCE AtomicRegistry
          WITH op <- [c \in Callers |-> AbstractOp(op[c])]

(* Every operation takes effect at one point between its call and its return *)
(* (plugin.go:108-168).                                                      *)
ImplementsAtomic == Atomic!Spec
=============================================================================
