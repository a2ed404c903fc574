---------------------------- MODULE TurnContract ----------------------------
(***************************************************************************)
(* What one conversation promises about its turns, whatever graph runs     *)
(* them: which effects a turn may have, given what the model has been      *)
(* shown and what the human has answered.  TurnCycle implements it.        *)
(***************************************************************************)
EXTENDS Naturals

CONSTANTS
    Calls,     \* identities a tool call may have within a turn
    Tools      \* the tools that have an effect outside the turn's own state

VARIABLES
    phase,     \* "idle", "running", or "waiting" for the human's answer
    exposed,   \* has the model been shown untrusted content in this turn?
    asked,     \* the calls the human is being asked about
    granted,   \* the calls of this turn the human approved
    effects,   \* what the turn did: its tools' effects, in no order
    result     \* "none" while no answer is out, then "replied" or "failed"

vars == <<phase, exposed, asked, granted, effects, result>>

Effect == [call : Calls, tool : Tools, source : {"inferred", "external"}]

TypeOK ==
    /\ phase \in {"idle", "running", "waiting"}
    /\ exposed \in BOOLEAN
    /\ asked \subseteq Calls
    /\ granted \subseteq Calls
    /\ effects \subseteq Effect
    /\ result \in {"none", "replied", "failed"}

Init ==
    /\ phase = "idle"
    /\ exposed = FALSE
    /\ asked = {}
    /\ granted = {}
    /\ effects = {}
    /\ result = "none"

(* A user message opens a turn: nothing of the last turn's authority is    *)
(* carried into it.                                                        *)
Begin ==
    /\ phase = "idle"
    /\ phase' = "running"
    /\ exposed' = FALSE
    /\ granted' = {}
    /\ effects' = {}
    /\ result' = "none"
    /\ UNCHANGED asked

(* Untrusted content is put before the model; only Begin takes that back.  *)
Expose ==
    /\ phase = "running"
    /\ exposed' = TRUE
    /\ UNCHANGED <<phase, asked, granted, effects, result>>

(* What an effect needs: core memory takes nothing from a model that has   *)
(* read untrusted content, archival memory takes it only as external, a    *)
(* gated write only happens for a call the human approved, and a write     *)
(* that leaves the workspace not even then.                                *)
Permitted(e) ==
    /\ e.tool = "core" => ~exposed
    /\ e.tool = "insert" /\ exposed => e.source = "external"
    /\ e.tool = "write" => e.call \in granted
    /\ e.tool # "escape"

(* A call has its effect once: no call is performed a second time.         *)
Perform ==
    /\ phase = "running"
    /\ \E e \in Effect :
          /\ \A f \in effects : f.call # e.call
          /\ Permitted(e)
          /\ effects' = effects \cup {e}
    /\ UNCHANGED <<phase, exposed, asked, granted, result>>

Ask ==
    /\ phase = "running"
    /\ phase' = "waiting"
    /\ \E cs \in SUBSET Calls :
          /\ cs # {}
          /\ \A e \in effects : e.call \notin cs
          /\ asked' = cs
    /\ UNCHANGED <<exposed, granted, effects, result>>

Answer(approved) ==
    /\ phase = "waiting"
    /\ phase' = "running"
    /\ asked' = {}
    /\ granted' = IF approved THEN granted \cup asked ELSE granted
    /\ UNCHANGED <<exposed, effects, result>>

(* The turn ends, with its reply or with an error the caller sees.         *)
End ==
    /\ phase = "running"
    /\ phase' = "idle"
    /\ result' \in {"replied", "failed"}
    /\ UNCHANGED <<exposed, asked, granted, effects>>

(* The context window is cleared: a question still open dies with it.      *)
Clear ==
    /\ phase \in {"idle", "waiting"}
    /\ phase' = "idle"
    /\ exposed' = FALSE
    /\ asked' = {}
    /\ granted' = {}
    /\ effects' = {}
    /\ result' = "none"

Next ==
    \/ Begin
    \/ Expose
    \/ Perform
    \/ Ask
    \/ \E approved \in BOOLEAN : Answer(approved)
    \/ End
    \/ Clear

Spec == Init /\ [][Next]_vars
=============================================================================
