-------------------------- MODULE SharedOwnership --------------------------
(***************************************************************************)
(* What shared_pooled_ptr promises: handles refer to objects, an object    *)
(* lives exactly as long as some handle refers to it, and a new object is  *)
(* none that is still alive.  Pools, flags and counters do not appear.     *)
(***************************************************************************)
CONSTANTS
    Handles,  \* the smart pointers of all threads
    Objects,  \* the places an object may live at
    Null      \* what an empty handle refers to

VARIABLES
    ref,   \* per handle, the object it refers to or Null
    live   \* the objects that exist

vars == <<ref, live>>

Init ==
    /\ ref = [h \in Handles |-> Null]
    /\ live = {}

\* h gets a new object.
Create(h, b) ==
    /\ ref[h] = Null
    /\ b \notin live
    /\ ref' = [ref EXCEPT ![h] = b]
    /\ live' = live \cup {b}

\* The empty handle g becomes another reference to h's object.
Share(g, h) ==
    /\ ref[g] = Null
    /\ ref[h] # Null
    /\ ref' = [ref EXCEPT ![g] = ref[h]]
    /\ UNCHANGED live

\* Two handles trade what they refer to.
Exchange(g, h) ==
    /\ ref' = [ref EXCEPT ![g] = ref[h], ![h] = ref[g]]
    /\ UNCHANGED live

\* h lets go; the object dies with its last reference.
Drop(h) ==
    /\ ref[h] # Null
    /\ ref' = [ref EXCEPT ![h] = Null]
    /\ live' = IF \E g \in Handles \ {h} : ref[g] = ref[h]
               THEN live
               ELSE live \ {ref[h]}

Next ==
    \/ \E h \in Handles, b \in Objects : Create(h, b)
    \/ \E g, h \in Handles : Share(g, h) \/ Exchange(g, h)
    \/ \E h \in Handles : Drop(h)

Spec == Init /\ [][Next]_vars
=============================================================================
