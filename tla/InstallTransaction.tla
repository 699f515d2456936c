------------------------ MODULE InstallTransaction ------------------------
(***************************************************************************)
(* What `pb-tasks init` promises of the files it manages: an installation  *)
(* takes effect as a whole or not at all, and one that ended half-way was  *)
(* killed or says so.  Between installations people write as they please.  *)
(* Reconcile is shown to implement it.                                     *)
(***************************************************************************)
EXTENDS Naturals

CONSTANTS
  File,       \* managed files
  Installer,  \* processes that run init
  Text,       \* what a file may hold, absence included
  Turn(_, _)  \* Turn(f, x): what an installation makes of f holding x

VARIABLES
  files,      \* files[f]: what f holds, as far as it counts
  outcome,    \* outcome[p]: how p stands
  touched,    \* touched[p]: files that people wrote since p began
  edits       \* how often people wrote

vars == <<files, outcome, touched, edits>>

Outcome == {"none", "running", "refused", "done", "failed", "partial", "killed"}

Init ==
  /\ files \in [File -> Text]
  /\ outcome = [p \in Installer |-> "none"]
  /\ touched = [p \in Installer |-> {}]
  /\ edits = 0

End(p, how) == outcome' = [outcome EXCEPT ![p] = how]

\* Files become what an installation makes of them, or stay.
Installs == \A f \in File : files'[f] \in {files[f], Turn(f, files[f])}

Begin(p) ==
  /\ outcome[p] # "running"
  /\ \E how \in {"running", "refused"} : End(p, how)
  /\ touched' = [touched EXCEPT ![p] = {}]
  /\ UNCHANGED <<files, edits>>

\* All of it: every file that nobody else wrote meanwhile.
Commit(p) ==
  /\ outcome[p] = "running"
  /\ Installs
  /\ \A f \in File \ touched[p] : files'[f] = Turn(f, files[f])
  /\ End(p, "done")
  /\ UNCHANGED <<touched, edits>>

\* Refused before the first write, or rolled back.
Abandon(p) ==
  /\ outcome[p] = "running"
  /\ \E how \in {"refused", "failed"} : End(p, how)
  /\ UNCHANGED <<files, touched, edits>>

\* Killed, or a rollback that reports what it could not restore.
Break(p) ==
  /\ outcome[p] = "running"
  /\ Installs
  /\ \E how \in {"partial", "killed"} : End(p, how)
  /\ UNCHANGED <<touched, edits>>

\* Somebody writes or removes a file.
Write(f) ==
  /\ \E x \in Text : files' = [files EXCEPT ![f] = x]
  /\ touched' = [p \in Installer |-> touched[p] \cup {f}]
  /\ edits' = edits + 1
  /\ UNCHANGED outcome

Next ==
  \/ \E p \in Installer : Begin(p) \/ Commit(p) \/ Abandon(p) \/ Break(p)
  \/ \E f \in File : Write(f)

Spec == Init /\ [][Next]_vars
=============================================================================
