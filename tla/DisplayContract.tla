--------------------------- MODULE DisplayContract ---------------------------
(***************************************************************************)
(* What the panel promises to whoever asks for a view (a key, the bridge,  *)
(* the attention poll): the last request wins.  At any moment the display  *)
(* shows either what it showed before or the scene asked for last; a       *)
(* request that was overtaken is never shown.  When the scene is shown is  *)
(* promised only to requests that come to an end: those that change their  *)
(* mind again and again may put the cut off for ever.                      *)
(*                                                                         *)
(* SceneTrans implements this specification; see SceneTrans!Contract.      *)
(***************************************************************************)
CONSTANT Scenes

VARIABLES
  want,    \* the scene requested last
  shown    \* the scene on the glass

Init == want \in Scenes /\ shown = want

\* A request replaces the one before; with motion reduced it takes effect at
\* once, otherwise the glass keeps the old scene for now.
Request(s) ==
  /\ want' = s
  /\ shown' \in {shown, s}

\* The cut: the glass shows the scene requested last, and no other.
Arrive ==
  /\ shown' = want
  /\ UNCHANGED want

Next == Arrive \/ \E s \in Scenes : Request(s)

\* Once the requests agree, the scene they ask for is on the glass for good.
Arrival == <>[][UNCHANGED want]_<<want, shown>> => <>[](shown = want)

Spec == Init /\ [][Next]_<<want, shown>> /\ Arrival
=============================================================================
