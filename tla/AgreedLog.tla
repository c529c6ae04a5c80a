------------------------------ MODULE AgreedLog ------------------------------
(***************************************************************************)
(* What a replicated log promises to the layers above it: every slot is    *)
(* decided at most once, a decision is never revoked, and a node only      *)
(* learns what was decided, and keeps it.                                  *)
(***************************************************************************)
CONSTANTS Node, Slots, Values

VARIABLES
  log,    \* slot -> the set of values decided for it
  known   \* node -> the slots whose decision the node has learned

Init ==
  /\ log = [s \in Slots |-> {}]
  /\ known = [n \in Node |-> {}]

Decide(s, v) ==
  /\ log[s] = {}
  /\ log' = [log EXCEPT ![s] = {v}]
  /\ UNCHANGED known

Learn(n, s) ==
  /\ log[s] # {}
  /\ known' = [known EXCEPT ![n] = @ \cup {s}]
  /\ UNCHANGED log

Next ==
  \/ \E s \in Slots, v \in Values : Decide(s, v)
  \/ \E n \in Node, s \in Slots : Learn(n, s)

Spec == Init /\ [][Next]_<<log, known>>
=============================================================================
