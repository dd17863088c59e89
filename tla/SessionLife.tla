---------------------------- MODULE SessionLife ----------------------------
(***************************************************************************)
(* What a sign-in session promises: it is opened once, it is closed for    *)
(* good, and while it closes its holder may still be served for a while.   *)
(***************************************************************************)
CONSTANT Sessions

VARIABLE life   \* life[s]: where session s is in its life

Steps ==
  {<<"none", "open">>,
   <<"open", "closing">>, <<"open", "closed">>,
   <<"closing", "closed">>}

Init == life \in [Sessions -> {"none", "open"}]

(* Several sessions may move at once: a password change closes them all.   *)
Next ==
  /\ life' \in [Sessions -> {"none", "open", "closing", "closed"}]
  /\ \A s \in Sessions : life'[s] # life[s] => <<life[s], life'[s]>> \in Steps

Spec == Init /\ [][Next]_life
=============================================================================
