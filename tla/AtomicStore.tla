---------------------------- MODULE AtomicStore ----------------------------
(***************************************************************************)
(* What a project transaction promises its caller and the next reader      *)
(* (Doc/ProjectTransaction.md, section 1 and 6): the sources change all    *)
(* together or not at all, whatever fails or dies in between, and the      *)
(* answer says which.  Sources that a writer outside of the protocol       *)
(* touched meanwhile are exempt: for those only their own bytes count.     *)
(***************************************************************************)
CONSTANTS
  Path,  \* the sources
  File   \* what a source can be: its bytes, or missing

VARIABLES
  store,    \* the bytes of each source, as the next recovery leaves them
  touched,  \* sources edited from outside since the transaction began
  intent,   \* the mutations asked for: a function from some paths to File
  phase,    \* "idle", "running" or "committed"
  result    \* what the last transaction answered; "none": nothing

vars == <<store, touched, intent, phase, result>>

Results == {"none", "ok", "failed", "unknown"}

Init ==
  /\ store \in [Path -> File]
  /\ touched = {}
  /\ intent = <<>>
  /\ phase = "idle"
  /\ result = "none"

Unmoved == \A p \in Path \ touched' : store'[p] = store[p]

Begin ==
  /\ phase = "idle" /\ phase' = "running"
  /\ touched' \subseteq touched
  /\ intent' = <<>>
  /\ result' = "none"
  /\ store' = store

Ask ==
  /\ phase = "running" /\ intent = <<>>
  /\ intent' \in UNION {[S -> File] : S \in SUBSET Path}
  /\ UNCHANGED <<touched, phase, result>>
  /\ Unmoved

Commit ==
  /\ phase = "running" /\ phase' = "committed"
  /\ \A p \in Path \ touched' :
       store'[p] = IF p \in DOMAIN intent THEN intent[p] ELSE store[p]
  /\ UNCHANGED <<touched, intent, result>>

(* "ok" and "failed" are promises, "unknown" is not; a process that died   *)
(* answers nothing.                                                        *)
Finish ==
  /\ phase # "idle" /\ phase' = "idle"
  /\ result' \in Results
  /\ result' = "ok" => phase = "committed"
  /\ result' = "failed" => phase = "running"
  /\ intent' = <<>>
  /\ touched' = touched
  /\ Unmoved

Edit ==
  /\ touched \subseteq touched'
  /\ UNCHANGED <<intent, phase, result>>
  /\ store' \in [Path -> File]
  /\ Unmoved

Next == Begin \/ Ask \/ Commit \/ Finish \/ Edit

Spec == Init /\ [][Next]_vars
=============================================================================
