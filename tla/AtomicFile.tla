----------------------------- MODULE AtomicFile -----------------------------
(***************************************************************************)
(* What a user of fio.SafeFile is promised: the name refers to what it     *)
(* referred to before, or to everything that was written to one SafeFile;  *)
(* never to a part.  A SafeFile commits or aborts, once.  A crash may bring *)
(* back an earlier state of the name, whole as well.                        *)
(***************************************************************************)
EXTENDS Naturals

CONSTANTS
  SafeFile,   \* the SafeFiles created for the name
  Before      \* what the name may refer to at first

VARIABLES
  target,     \* what the name refers to: Before, or <<file, amount written>>
  past,       \* everything it has referred to
  text,       \* text[f]: how much was written to f
  outcome     \* outcome[f]: "open", "committed" or "aborted"

vars == <<target, past, text, outcome>>

Init ==
  /\ target \in Before
  /\ past = {target}
  /\ text = [f \in SafeFile |-> 0]
  /\ outcome = [f \in SafeFile |-> "open"]

Write(f) ==
  /\ outcome[f] # "committed"
  /\ text' = [text EXCEPT ![f] = @ + 1]
  /\ UNCHANGED <<target, past, outcome>>

Commit(f) ==
  /\ outcome[f] = "open"
  /\ outcome' = [outcome EXCEPT ![f] = "committed"]
  /\ target' = <<f, text[f]>>
  /\ past' = past \cup {target'}
  /\ UNCHANGED text

Abort(f) ==
  /\ outcome[f] = "open"
  /\ outcome' = [outcome EXCEPT ![f] = "aborted"]
  /\ UNCHANGED <<target, past, text>>

Crash ==
  /\ target' \in past
  /\ UNCHANGED <<past, text, outcome>>

Next ==
  \/ \E f \in SafeFile : Write(f) \/ Commit(f) \/ Abort(f)
  \/ Crash

Spec == Init /\ [][Next]_vars
=============================================================================
