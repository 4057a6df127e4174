-------------------------- MODULE MCConstraintLoop --------------------------
(* Every list of at most two constraints over the three built-in types at    *)
(* their boundaries, an unknown type and a foreign scheme, in contexts on    *)
(* both sides of each boundary.                                              *)
EXTENDS ConstraintLoop, SequencesExt

CONSTANTS ip1, ip2

Edges == {0, 360, 1320}

MCConstraint(id, paramset) ==
    {[scheme |-> ConstraintScheme, id |-> id, params |-> p] : p \in paramset}

MCConstraints ==
    MCConstraint("allowed-cidr",
                 {<<{ip1}>>, <<Malformed, {ip1}>>, <<{ip1}, Malformed>>,
                  <<{ip2}, {ip1, ip2}>>, Malformed})
    \cup MCConstraint("max-concurrent", {0, 1, 1024, 1025, Malformed})
    \cup MCConstraint("time-window",
                      [start : Edges, end : Edges]
                      \cup {[start |-> Malformed, end |-> 0], Malformed})
    \cup MCConstraint("geo-fence", {Malformed})
    \cup {[scheme |-> "other/constraint-v2", id |-> "time-window",
           params |-> [start |-> 0, end |-> 1439]]}

MCLists == {<<>>} \cup {<<c>> : c \in MCConstraints}
                  \cup {<<c, d>> : c, d \in MCConstraints}

MCContexts ==
    [now : {0, 1, 359, 360, 361, 1319, 1320}, ip : {ip1}, count : {0}]
    \cup [now : {1439}, ip : {ip2, NoIP}, count : {0, 1023, 1024}]
=============================================================================
