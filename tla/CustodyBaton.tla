---------------------------- MODULE CustodyBaton ----------------------------
(* What the custody branch promises the scripts that share it: contents     *)
(* that only grow, changed by nobody but the holder of the baton, which is  *)
(* taken when it is free and given back by its holder.                      *)
CONSTANTS Session, Intent, NoWriter

VARIABLES holder, contents

Init == holder = NoWriter /\ contents = {}

Take(s) == holder = NoWriter /\ holder' = s /\ UNCHANGED contents
\* One intent at a time is written down, each once.
Extend(s) ==
  /\ holder = s
  /\ \E i \in Intent \ contents : contents' = contents \cup {i}
  /\ UNCHANGED holder
GiveBack(s) == holder = s /\ holder' = NoWriter /\ UNCHANGED contents

Next == \E s \in Session : Take(s) \/ Extend(s) \/ GiveBack(s)

Spec == Init /\ [][Next]_<<holder, contents>>
=============================================================================
