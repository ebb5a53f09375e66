----------------------------- MODULE BridgeSide ------------------------------
(***************************************************************************)
(* The two halves of the bridge that keep state, for TLC: the device link  *)
(* and the session registry share nothing but the snapshot one takes from  *)
(* the other, of which each keeps only what it needs.  A behaviour is one  *)
(* of `part'; the other half stays at its beginning.                       *)
(***************************************************************************)
EXTENDS SnapshotLink, TLC

CONSTANTS Sids, Threads, MaxTools, a, b, h1, h2

\* A key has a colon in it, the sid of a free thread has none.
ASSUME Bounds ==
  IsFiniteSet(Sids) /\ "none" \notin Sids /\ IsFiniteSet(Threads) /\ MaxTools \in Nat \ {0}

\* Snapshots, sessions and handler threads are interchangeable; a and b are the
\* snapshots of one half and the sessions of the other.
Symmetry == Permutations({a, b}) \union Permutations({h1, h2})

VARIABLES
  part,
  sess, thread, sweep, running, last     \* SessionRegistry

Sessions == INSTANCE SessionRegistry

registry == <<sess, thread, sweep, running, last>>

\* A half that is not played names no snapshot.
NoLink ==
  /\ reg = Nothing /\ wake = "clear" /\ lastJson = Nothing /\ due = "no"
  /\ tick = "wait" /\ snap = Nothing /\ handle = "current" /\ buffered = Nothing
  /\ session = "none" /\ opener = "none" /\ pc = [main |-> "open", rec |-> "dead"]
  /\ deadline = "ahead" /\ replay = Nothing /\ timer = "none"
  /\ port = "down" /\ device = "running" /\ panel = Nothing /\ clock = "unset" /\ untold = "no"

BridgeInit ==
  /\ Sessions!Init
  /\ \/ part = "link" /\ Init
     \/ part = "registry" /\ NoLink

Linking == part = "link" /\ Next /\ UNCHANGED <<part, registry>>

Registering == part = "registry" /\ Sessions!Next /\ UNCHANGED <<part, vars>>

BridgeNext == Linking \/ Registering

BridgeSpec == BridgeInit /\ [][BridgeNext]_<<part, vars, registry>>

OutcomeHolds == Sessions!OutcomeHolds

PromptHasAsker == Sessions!PromptHasAsker

QuestionStands == Sessions!QuestionStands
=============================================================================
