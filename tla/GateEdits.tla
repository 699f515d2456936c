----------------------------- MODULE GateEdits ------------------------------
(***************************************************************************)
(* The native edits an agent makes to files, and to its task.md above all: *)
(* a hook decides before the edit from what it reads then (policy.py,      *)
(* gate_edit.py, codex_hooks.py), the provider applies the edit to the     *)
(* file as it is by then, and Codex's hook after it records the gate the   *)
(* edit closed.  In between, other sessions claim, hand over and close     *)
(* gates with their commands.                                              *)
(*                                                                         *)
(*   doc      the task document: its gates, each with its text and whether *)
(*            it is checked, its live owner and the monitor-board mark     *)
(*   cached   the session's current_state names the task                   *)
(*   call     the edit under way: none, admitted or applied                *)
(*   pending  what pending-gate-edit.json holds: the document before       *)
(*   recorded the closures in the chat log                                 *)
(*   closed   gates that were ever checked                                 *)
(*   replanned  a gate was reopened, or put in before others, or the first *)
(*            open one dropped, or the task is a monitor board             *)
(*   over     the session was let go                                       *)
(*   edits    how many edits of the document were admitted                 *)
(***************************************************************************)
EXTENDS Naturals, Sequences, FiniteSets, SequencesExt

CONSTANTS FirstGates, NewGate, MaxEdits

Gate == ToSet(FirstGates) \cup {NewGate}

\* A gate is known by its text: an edit must find the text it replaces once.
ASSUME GateAssumption ==
    /\ FirstGates \in Seq(Gate) /\ NewGate \notin ToSet(FirstGates) /\ MaxEdits \in Nat
    /\ \A i, j \in DOMAIN FirstGates : FirstGates[i] = FirstGates[j] => i = j

VARIABLES doc, cached, call, pending, recorded, closed, replanned, over, edits

gateVars == <<doc, cached, call, pending, recorded, closed, replanned, over, edits>>

Me == "me"
NoDoc == [gates |-> <<>>, owner |-> "none", board |-> FALSE]
NoCall == [at |-> "none"]

GateTypeOK ==
    /\ \A i \in DOMAIN doc.gates : doc.gates[i].text \in Gate /\ doc.gates[i].done \in BOOLEAN
    /\ doc.owner \in {Me, "other", "none"} /\ doc.board \in BOOLEAN
    /\ cached \in BOOLEAN /\ replanned \in BOOLEAN /\ over \in BOOLEAN /\ edits \in 0 .. MaxEdits
    /\ call.at \in {"none", "admitted", "applied"}
    /\ recorded \subseteq Gate /\ closed \subseteq Gate

GateInit ==
    /\ \E board \in BOOLEAN :
         /\ doc = [owner |-> "none", board |-> board,
                   gates |-> [i \in DOMAIN FirstGates |-> [text |-> FirstGates[i], done |-> FALSE]]]
         /\ replanned = board
    /\ cached = FALSE /\ call = NoCall /\ pending = NoDoc /\ recorded = {} /\ closed = {}
    /\ over = FALSE /\ edits = 0

---------------------------------------------------------------------------
(* The document (task_document.py) and changes to it                       *)

Open(d) == {i \in DOMAIN d.gates : ~d.gates[i].done}
DoneGates(d) == {d.gates[i].text : i \in DOMAIN d.gates \ Open(d)}
Done(d) == Cardinality(DoneGates(d))
FirstOpen(d) == {i \in Open(d) : \A j \in Open(d) : i <= j}
Find(d, g) == {i \in DOMAIN d.gates : d.gates[i].text = g}

\* One replaced piece of text: a gate is checked, reopened, dropped or put in
\* front, or a heading that is not the agent's to edit is changed.
GateChange == [op : {"check", "reopen", "drop"}, gate : Gate] \cup [op : {"insert"}, gate : {NewGate}]
HeadChange == [op : {"own", "board"}, gate : {NewGate}]

\* The text an edit replaces must be there, once.
Matches(d, c) ==
    CASE c.op = "check"  -> \E i \in Find(d, c.gate) : ~d.gates[i].done
      [] c.op = "reopen" -> \E i \in Find(d, c.gate) : d.gates[i].done
      [] c.op = "drop"   -> Find(d, c.gate) # {}
      [] c.op = "insert" -> Find(d, c.gate) = {}
      [] OTHER           -> TRUE

Changed(d, c) ==
    CASE c.op \in {"check", "reopen"} ->
           [d EXCEPT !.gates = [i \in DOMAIN @ |->
              IF @[i].text = c.gate THEN [text |-> c.gate, done |-> c.op = "check"] ELSE @[i]]]
      [] c.op = "drop"   -> [d EXCEPT !.gates = RemoveAt(@, CHOOSE i \in Find(d, c.gate) : TRUE)]
      [] c.op = "insert" -> [d EXCEPT !.gates = <<[text |-> c.gate, done |-> FALSE]>> \o @]
      [] c.op = "own"    -> [d EXCEPT !.owner = "none"]
      [] OTHER           -> [d EXCEPT !.board = ~@]

\* candidate_from_tool_input and candidate_from_apply_patch: every piece must
\* fit, or there is no candidate.  cs is a set of one change, or of two to
\* different gates, in any order; pieces that touch one gate come to one
\* change of it.
Fits(d, cs) == \A c \in cs : Matches(d, c)
Candidate(d, cs) ==
    LET c == CHOOSE c \in cs : TRUE
    IN IF cs = {c} THEN Changed(d, c) ELSE Changed(Changed(d, c), CHOOSE e \in cs \ {c} : TRUE)

---------------------------------------------------------------------------
(* Admission                                                               *)

\* Fault: a gate may be checked wherever it is.
ValidAnyGate(before, after) ==
    /\ after.owner = before.owner /\ after.board = before.board
    /\ before.board \/ Done(after) <= Done(before) + 1

\* validate_task_candidate
Valid(before, after) ==
    /\ after.owner = before.owner /\ after.board = before.board
    /\ \/ before.board
       \/ /\ Done(after) = Done(before) + 1
          /\ \E i \in FirstOpen(before) : i \in DOMAIN after.gates /\ after.gates[i].done
       \/ /\ Done(after) <= Done(before)
          /\ \/ Len(after.gates) >= Len(before.gates)
             \/ \A i \in FirstOpen(before) :
                  i \in DOMAIN after.gates /\ after.gates[i].text = before.gates[i].text

\* active_task_authority, _load_session_facts: the cache counts only as far
\* as the document agrees.
Active == cached /\ doc.owner = Me
Mismatch == cached /\ doc.owner # Me

Target == {"own task", "other task", "management", "code", "text"}

\* evaluate_tool_call, for a structured edit of one file.
PolicyAdmits(target, valid) ==
    /\ ~Mismatch
    /\ target \in {"own task", "other task"} => Active /\ target = "own task" /\ valid
    /\ target = "code" => Active

\* apply_patch_pre_decision, for a patch of the given files.
PatchAdmits(targets, valid) ==
    /\ ~Mismatch
    /\ IF targets \cap {"own task", "other task"} # {}
         THEN Active /\ "other task" \notin targets /\ valid
         ELSE Active \/ "code" \notin targets

---------------------------------------------------------------------------
(* One call: before, the provider, after                                   *)

Tool == {"Edit", "Write", "apply_patch"}

Edits == {{c} : c \in HeadChange}
         \cup {cs \in {{c, d} : c, d \in GateChange} : \A c, d \in cs : c # d => c.gate # d.gate}

\* An edit of the task document.  Codex's hook first forgets the call before
\* and then keeps the document for the hook that comes after.
Admit(tool, cs) ==
    /\ call = NoCall /\ ~over /\ edits < MaxEdits /\ edits' = edits + 1 /\ Fits(doc, cs)
    /\ LET valid == Valid(doc, Candidate(doc, cs)) IN
         IF tool = "apply_patch" THEN PatchAdmits({"own task"}, valid) ELSE PolicyAdmits("own task", valid)
    /\ call' = [at |-> "admitted", tool |-> tool, changes |-> IF tool = "Write" THEN {} ELSE cs,
                content |-> IF tool = "Write" THEN Candidate(doc, cs) ELSE NoDoc]
    /\ pending' = IF tool = "apply_patch" THEN doc ELSE pending
    /\ UNCHANGED <<doc, cached, recorded, closed, replanned, over>>

\* A refused patch, or one of other files, only forgets.
PatchElsewhere ==
    /\ call = NoCall /\ ~over /\ pending # NoDoc
    /\ pending' = NoDoc
    /\ UNCHANGED <<doc, cached, call, recorded, closed, replanned, over, edits>>

\* What the provider writes: the whole content, or the pieces where they fit.
WrittenText(tool, cs, content) == IF tool = "Write" THEN content ELSE Candidate(doc, cs)

NewlyDone(before, after) == DoneGates(after) \ DoneGates(before)

\* The gates that were there keep their order; some may be open again, or a
\* new one come before them.
Reorders(before, after) ==
    \/ \E i \in DOMAIN after.gates \cap Open(after) : after.gates[i].text \in closed
    \/ \E i \in DOMAIN after.gates : Find(before, after.gates[i].text) = {}

\* Or the first open one is dropped, and a later one comes first.
Replans(before, after) ==
    \/ Reorders(before, after)
    \/ \E i \in FirstOpen(before) : Find(after, before.gates[i].text) = {}

ApplyEdit ==
    /\ call.at = "admitted" /\ (call.tool = "Write" \/ Fits(doc, call.changes))
    /\ LET after == WrittenText(call.tool, call.changes, call.content) IN
         /\ doc' = after
         /\ closed' = closed \cup NewlyDone(doc, after)
         /\ replanned' = (replanned \/ Replans(doc, after))
    /\ call' = [at |-> "applied", tool |-> call.tool]
    /\ UNCHANGED <<cached, pending, recorded, over, edits>>

\* The text is not there any more; no hook comes after a failed edit.
EditFails ==
    /\ call.at = "admitted" /\ call.tool # "Write" /\ ~Fits(doc, call.changes)
    /\ call' = NoCall
    /\ UNCHANGED <<doc, cached, pending, recorded, closed, replanned, over, edits>>

\* gate_closure_from_documents
Closure(before, after) ==
    IF before.board
      THEN LET gs == {i \in DOMAIN before.gates : ~before.gates[i].done /\ after.gates[i].done}
           IN IF Len(before.gates) = Len(after.gates) /\ Cardinality(gs) = 1
                THEN {after.gates[i].text : i \in gs} ELSE {}
      ELSE IF Done(after) = Done(before) + 1 THEN {after.gates[i].text : i \in FirstOpen(before)} ELSE {}

\* apply_patch_post_context: the document as it is now against the one kept.
AfterEdit ==
    /\ call.at = "applied"
    /\ call' = NoCall
    /\ IF call.tool = "apply_patch" /\ pending # NoDoc
         THEN /\ recorded' = recorded \cup
                   (IF Valid(pending, doc) THEN Closure(pending, doc) ELSE {})
              /\ pending' = NoDoc
         ELSE UNCHANGED <<recorded, pending>>
    /\ UNCHANGED <<doc, cached, closed, replanned, over, edits>>

---------------------------------------------------------------------------
(* The session's prompts and its end, and the other sessions               *)

\* evaluate_stop, codex_stop_decision: open gates keep a session that works
\* on its task.  A turn without tools counts as a conversation, and every
\* turn of Codex does: prompts reset its counters and no hook raises them.
Stop(conversation) ==
    /\ call = NoCall /\ ~over /\ ~Mismatch
    /\ Active => (Open(doc) = {} \/ doc.board \/ conversation)
    /\ over' = TRUE
    /\ UNCHANGED <<doc, cached, call, pending, recorded, closed, replanned, edits>>

\* work: the claim and the cache (TaskClaims has them in detail).
TakeTask ==
    /\ ~over /\ doc.owner = "none" /\ doc' = [doc EXCEPT !.owner = Me] /\ cached' = TRUE
    /\ UNCHANGED <<call, pending, recorded, closed, replanned, over, edits>>

HandOver ==
    /\ ~over /\ doc.owner = Me /\ doc' = [doc EXCEPT !.owner = "other"]
    /\ UNCHANGED <<cached, call, pending, recorded, closed, replanned, over, edits>>

\* complete_next_gate, by the owner's command.
CompleteNext ==
    /\ ~over /\ doc.owner # "none"
    /\ \E i \in FirstOpen(doc) :
         /\ doc' = [doc EXCEPT !.gates[i].done = TRUE]
         /\ closed' = closed \cup {doc.gates[i].text}
    /\ UNCHANGED <<cached, call, pending, recorded, replanned, over, edits>>

GateNext ==
    \/ \E tool \in Tool, cs \in Edits : Admit(tool, cs)
    \/ PatchElsewhere \/ ApplyEdit \/ EditFails \/ AfterEdit
    \/ \E conversation \in BOOLEAN : Stop(conversation)
    \/ TakeTask \/ HandOver \/ CompleteNext

---------------------------------------------------------------------------

\* As long as nobody reopens a gate, puts one in front of others or drops the
\* first open one, gates are checked strictly in their order, whatever pieces
\* an edit is made of and whatever was written between its admission and its
\* application.
ClosedInOrder ==
    ~replanned => \A i, j \in DOMAIN doc.gates : i < j /\ doc.gates[j].done => doc.gates[i].done

\* A closure is recorded only of a gate that was closed.
RecordedWasClosed == recorded \subseteq closed

\* The two hooks, written separately, draw one boundary.
BoundariesAgree ==
    \A target \in Target, valid \in BOOLEAN :
      PolicyAdmits(target, valid) <=> PatchAdmits({target}, valid)

\* What the hooks around an edit promise together.
EditsInOrder == ClosedInOrder /\ RecordedWasClosed /\ BoundariesAgree
=============================================================================
