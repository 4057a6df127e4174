--------------------------- MODULE AtomicRegistry ---------------------------
(* What the plugin registry of plugin.go promises to its callers: every      *)
(* operation takes effect at one point between its call and its return.      *)
CONSTANTS Callers,   \* goroutines that use the registry
          Plugins,   \* plugins
          Schemes,   \* scheme ids
          SchemeOf,  \* the scheme a plugin reports
          None       \* nil: no plugin, no operation, no answer yet

VARIABLES plugins,  \* the plugin of each scheme, or None
          op,       \* per caller: the operation in progress, or None
          reply     \* per caller: what it returns, as a set, or None

vars == <<plugins, op, reply>>

Register(p) == [name |-> "Register", arg |-> p]
Find(s) == [name |-> "Find", arg |-> s]
Keys == [name |-> "Keys", arg |-> None]
Reset == [name |-> "Reset", arg |-> None]
Operations == {Register(p) : p \in Plugins} \cup {Find(s) : s \in Schemes}
              \cup {Keys, Reset}

NoPlugins == [s \in Schemes |-> None]
Registered(s) == plugins[s] # None

Init == /\ plugins = NoPlugins
        /\ op = [c \in Callers |-> None]
        /\ reply = [c \in Callers |-> None]

Invoke(c, o) == /\ op[c] = None
                /\ op' = [op EXCEPT ![c] = o]
                /\ UNCHANGED <<plugins, reply>>

Pending(c, name) == op[c] # None /\ op[c].name = name /\ reply[c] = None

Answer(c, value) == reply' = [reply EXCEPT ![c] = value] /\ UNCHANGED op

Add(c) == /\ Pending(c, "Register")
          /\ ~Registered(SchemeOf[op[c].arg])
          /\ plugins' = [plugins EXCEPT ![SchemeOf[op[c].arg]] = op[c].arg]
          /\ Answer(c, {"nil"})

Reject(c) == /\ Pending(c, "Register")
             /\ Registered(SchemeOf[op[c].arg])
             /\ Answer(c, {"taken"})
             /\ UNCHANGED plugins

Lookup(c) == /\ Pending(c, "Find")
             /\ Answer(c, {plugins[op[c].arg]} \ {None})
             /\ UNCHANGED plugins

List(c) == /\ Pending(c, "Keys")
           /\ Answer(c, {s \in Schemes : Registered(s)})
           /\ UNCHANGED plugins

Clear(c) == /\ Pending(c, "Reset")
            /\ plugins' = NoPlugins
            /\ Answer(c, {})

Return(c) == /\ reply[c] # None
             /\ op' = [op EXCEPT ![c] = None]
             /\ reply' = [reply EXCEPT ![c] = None]
             /\ UNCHANGED plugins

Next == \E c \in Callers : \/ \E o \in Operations : Invoke(c, o)
                           \/ Add(c) \/ Reject(c)
                           \/ Lookup(c) \/ List(c) \/ Clear(c)
                           \/ Return(c)

Spec == Init /\ [][Next]_vars
=============================================================================
