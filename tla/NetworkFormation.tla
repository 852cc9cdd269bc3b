-------------------------- MODULE NetworkFormation --------------------------
(***************************************************************************)
(* What a project network is promised while it is formed: one anchor, in   *)
(* one network namespace, and members that join it one after the other,    *)
(* each once, on its own mount, in that namespace, and knowing exactly the *)
(* members that joined before it.                                          *)
(***************************************************************************)
CONSTANTS Member, Space, NoSpace

VARIABLES
    prepared,  \* bridge and anchor exist
    space,     \* the namespace the anchor was observed in
    mounted,   \* members that have their mount
    launched,  \* members that joined
    knows,     \* the members each was launched beside
    home       \* the namespace each was started in

formed == <<prepared, space, mounted, launched, knows, home>>

Init ==
    /\ prepared = FALSE /\ space = NoSpace
    /\ mounted = {} /\ launched = {}
    /\ knows = [m \in Member |-> {}] /\ home = [m \in Member |-> NoSpace]

Found ==
    /\ prepared' = TRUE
    /\ UNCHANGED <<space, mounted, launched, knows, home>>

Anchor(s) ==
    /\ prepared /\ space = NoSpace /\ space' = s
    /\ UNCHANGED <<prepared, mounted, launched, knows, home>>

Mount(m) ==
    /\ mounted' = mounted \cup {m}
    /\ UNCHANGED <<prepared, space, launched, knows, home>>

Join(m) ==
    /\ space # NoSpace /\ m \in mounted \ launched
    /\ launched' = launched \cup {m}
    /\ knows' = [knows EXCEPT ![m] = launched]
    /\ home' = [home EXCEPT ![m] = space]
    /\ UNCHANGED <<prepared, space, mounted>>

Next == \/ Found \/ \E s \in Space : Anchor(s)
        \/ \E m \in Member : Mount(m) \/ Join(m)

Spec == Init /\ [][Next]_formed
=============================================================================
