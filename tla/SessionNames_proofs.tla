------------------------- MODULE SessionNames_proofs -------------------------
(***************************************************************************)
(* Proofs about SessionNames, for any conversations, lanes and names: type *)
(* correctness, and that no command that gives or reserves a name leaves   *)
(* two sessions with it.                                                   *)
(***************************************************************************)
EXTENDS SessionNames, TLAPS

States == {"none", "plain", "running", "stopped", "destroyed"}

\* s answers to n by the record.
Has(r, s, n) == r[s].state \notin {"none", "destroyed"} /\ r[s].name = n

Record == [state : States, name : Name \cup {Unnamed}, lane : Shell \cup {NoShell}]
Lane == [state : {"absent", "live", "destroyed"}, name : Name \cup {Unnamed},
         key : Convo \cup {NoConvo}, launch : {"idle", "new", "resume", "bound"}]
Reservation == [lane : Shell, name : Name \cup {Unnamed}] \cup {Unreserved}
Stripping == [at : {"strip"}, key : Convo, name : Name, through : SUBSET Convo]
Naming == [at : {"lane"}, key : Convo, name : Name]

\* The inductive invariant.  NamesHold says nothing of records that are not
\* there yet, nor that a claim under way names a record and no reservation.
NInv ==
    /\ NamesTypeOK
    /\ \A s \in Convo : rec[s].state = "none" => rec[s].name = Unnamed
    /\ \A n \in Name, s, t \in Convo : Has(rec, s, n) /\ Has(rec, t, n) => s = t
    /\ \A s, t \in Convo :
         reserved[s].name \in Name /\ Has(rec, t, reserved[s].name) => t = s
    /\ claim.at = "strip" =>
         /\ rec[claim.key].state \notin {"none", "destroyed"}
         /\ \A s \in Convo : Has(rec, s, claim.name) => s = claim.key \/ s \notin claim.through
         /\ \A s \in Convo : reserved[s].name # claim.name

\* A step that gives and reserves no name, and begins no claim.
Fewer ==
    /\ NamesTypeOK'
    /\ \A s \in Convo : rec'[s].state = "none" => rec'[s].name = Unnamed
    /\ \A n \in Name, s \in Convo : Has(rec', s, n) => Has(rec, s, n)
    /\ \A s \in Convo : reserved'[s].name \in Name => reserved'[s].name = reserved[s].name
    /\ claim'.at = "strip" =>
         /\ claim.at = "strip" /\ claim'.key = claim.key /\ claim'.name = claim.name
         /\ claim'.through \subseteq claim.through
         /\ rec'[claim.key].state = rec[claim.key].state
         /\ reserved' = reserved

---------------------------------------------------------------------------

LEMMA Typed ==
    NamesTypeOK <=>
      /\ rec \in [Convo -> Record] /\ nlane \in [Shell -> Lane] /\ reserved \in [Convo -> Reservation]
      /\ alive \subseteq Convo /\ claim \in {NoClaim} \cup Naming \cup Stripping
  BY DEF NamesTypeOK, Record, States, Lane, Reservation, Naming, Stripping

LEMMA TypedNext ==
    NamesTypeOK' <=>
      /\ rec' \in [Convo -> Record] /\ nlane' \in [Shell -> Lane]
      /\ reserved' \in [Convo -> Reservation]
      /\ alive' \subseteq Convo /\ claim' \in {NoClaim} \cup Naming \cup Stripping
  BY DEF NamesTypeOK, Record, States, Lane, Reservation, Naming, Stripping

LEMMA HoldersHave == ASSUME NEW n PROVE Holders(n) = {s \in Convo : Has(rec, s, n)}
  BY DEF Holders, Recorded, Has

LEMMA UnlockedIdle == Unlocked => claim.at = "idle"
  BY DEF Unlocked, NoClaim

LEMMA StripClaim == ASSUME NamesTypeOK, claim.at = "strip" PROVE claim \in Stripping
  BY Typed DEF NoClaim, Naming

LEMMA NamingClaim == ASSUME NamesTypeOK, claim.at = "lane" PROVE claim \in Naming
  BY Typed DEF NoClaim, Stripping

LEMMA FewerKeeps == ASSUME NInv, Fewer PROVE NInv'
<1>1. NamesTypeOK'
  BY DEF Fewer
<1>2. \A s \in Convo : rec'[s].state = "none" => rec'[s].name = Unnamed
  BY DEF Fewer
<1>3. \A n \in Name, s, t \in Convo : Has(rec', s, n) /\ Has(rec', t, n) => s = t
  BY DEF Fewer, NInv
<1>4. \A s, t \in Convo :
         reserved'[s].name \in Name /\ Has(rec', t, reserved'[s].name) => t = s
  BY DEF Fewer, NInv
<1>5. ASSUME claim'.at = "strip"
      PROVE  /\ rec'[claim'.key].state \notin {"none", "destroyed"}
             /\ \A s \in Convo : Has(rec', s, claim'.name) => s = claim'.key \/ s \notin claim'.through
             /\ \A s \in Convo : reserved'[s].name # claim'.name
  <2>1. claim \in Stripping
    BY <1>5, StripClaim DEF Fewer, NInv
  <2>2. claim.name \in Name
    BY <2>1 DEF Stripping
  <2>3. QED
    BY <1>5, <2>2 DEF Fewer, NInv
<1>6. QED
  BY <1>1, <1>2, <1>3, <1>4, <1>5 DEF NInv, Has

---------------------------------------------------------------------------
(* Steps that give and reserve no name                                     *)

LEMMA CrumbFewer == ASSUME NInv, NEW s \in Convo, Crumb(s) PROVE Fewer
<1>1. rec' = [rec EXCEPT ![s].state = "plain"] /\ alive' = alive \cup {s}
      /\ rec[s].state = "none" /\ claim'.at = "idle" /\ UNCHANGED <<nlane, reserved, claim>>
  BY UnlockedIdle DEF Crumb
<1>2. rec' \in [Convo -> Record]
  BY <1>1, Typed DEF Record, States, NInv
<1>3. NamesTypeOK'
  BY <1>1, <1>2, Typed, TypedNext DEF NInv
<1>4. QED
  BY <1>1, <1>3, Typed DEF Fewer, NInv, Has, Record, Unnamed, Name

LEMMA AgentEndsFewer == ASSUME NInv, NEW s \in Convo, AgentEnds(s) PROVE Fewer
<1>1. alive' = alive \ {s} /\ UNCHANGED <<rec, nlane, reserved>>
  BY DEF AgentEnds
<1>2. CASE claim.at = "strip"
  <2>1. claim \in Stripping
    BY <1>2, StripClaim DEF NInv
  <2>2. claim' = [claim EXCEPT !.through = @ \ {s}]
    BY <1>2 DEF AgentEnds
  <2>3. claim' \in Stripping /\ claim'.at = "strip" /\ claim'.key = claim.key
        /\ claim'.name = claim.name /\ claim'.through \subseteq claim.through
    BY <2>1, <2>2 DEF Stripping
  <2>4. NamesTypeOK'
    BY <1>1, <2>3, Typed, TypedNext DEF NInv
  <2>5. QED
    BY <1>1, <1>2, <2>3, <2>4 DEF Fewer, NInv, Has
<1>3. CASE claim.at # "strip"
  <2>1. claim' = claim
    BY <1>3 DEF AgentEnds
  <2>2. NamesTypeOK'
    BY <1>1, <2>1, Typed, TypedNext DEF NInv
  <2>3. QED
    BY <1>1, <1>3, <2>1, <2>2 DEF Fewer, NInv, Has
<1>4. QED
  BY <1>2, <1>3

\* Steps that touch the lanes alone.
LEMMA LanesFewer ==
    ASSUME NInv, nlane' \in [Shell -> Lane], UNCHANGED <<rec, reserved, alive>>,
           claim' = claim \/ claim' = NoClaim
    PROVE  Fewer
<1>1. claim' \in {NoClaim} \cup Naming \cup Stripping
  BY Typed DEF NInv
<1>2. NamesTypeOK'
  BY <1>1, Typed, TypedNext DEF NInv
<1>3. claim'.at = "strip" => claim' = claim
  BY DEF NoClaim
<1>4. QED
  BY <1>2, <1>3 DEF Fewer, NInv, Has

LEMMA OpenLaneFewer ==
    ASSUME NInv, NEW l \in Shell, NEW n \in Name \cup {Unnamed}, OpenLane(l, n) PROVE Fewer
<1>1. nlane' = [nlane EXCEPT ![l] = [@ EXCEPT !.state = "live", !.name = n]] /\ UNCHANGED <<rec, reserved, alive, claim>>
  BY DEF OpenLane
<1>2. nlane' \in [Shell -> Lane]
  BY <1>1, Typed, ZenonT(30) DEF NInv, Lane
<1>3. QED
  BY <1>1, <1>2, LanesFewer

LEMMA LaunchNewFewer == ASSUME NInv, NEW l \in Shell, LaunchNew(l) PROVE Fewer
<1>1. nlane' = [nlane EXCEPT ![l] = [@ EXCEPT !.launch = "new", !.key = NoConvo]] /\ UNCHANGED <<rec, reserved, alive, claim>>
  BY DEF LaunchNew
<1>2. nlane' \in [Shell -> Lane]
  BY <1>1, Typed, ZenonT(30) DEF NInv, Lane
<1>3. QED
  BY <1>1, <1>2, LanesFewer

LEMMA NameLaneFewer == ASSUME NInv, NameLane PROVE Fewer
<1>1. claim.at = "lane" /\ claim' = NoClaim /\ UNCHANGED <<rec, reserved, alive>>
  BY DEF NameLane
<1>2. claim.name \in Name
  BY <1>1, NamingClaim DEF NInv, Naming
<1>3. nlane' \in [Shell -> Lane]
  BY <1>2, Typed DEF NameLane, NInv, Lane
<1>4. QED
  BY <1>1, <1>3, LanesFewer

LEMMA ClaimKilledFewer == ASSUME NInv, ClaimKilled PROVE Fewer
<1>1. nlane' \in [Shell -> Lane]
  BY Typed DEF ClaimKilled, NInv
<1>2. QED
  BY <1>1, LanesFewer DEF ClaimKilled

\* Steps that only open a conversation.
LEMMA ReopenedFewer ==
    ASSUME NInv, NEW s \in Convo, Reopened(s), UNCHANGED <<rec, nlane, reserved, claim>> PROVE Fewer
<1>1. NamesTypeOK'
  BY Typed, TypedNext DEF Reopened, NInv
<1>2. QED
  BY <1>1 DEF Fewer, NInv, Has

LEMMA RestoreFewer ==
    ASSUME NInv, NEW n \in Name, NEW force \in BOOLEAN, NEW here \in BOOLEAN, Restore(n, force, here)
    PROVE  Fewer
<1>1. PICK s \in Picked(n) : Reopened(s)
  BY DEF Restore
<1>2. s \in Convo
  BY DEF Picked, Listed, ByLane, Recorded
<1>3. QED
  BY <1>1, <1>2, ReopenedFewer DEF Restore

LEMMA StripFewer == ASSUME NInv, NEW s \in Convo, Strip(s) PROVE Fewer
<1>1. /\ claim.at = "strip" /\ rec' = [rec EXCEPT ![s].name = Unnamed]
      /\ UNCHANGED <<nlane, reserved, alive, claim>>
  BY DEF Strip
<1>2. rec' \in [Convo -> Record]
  BY <1>1, Typed DEF NInv, Record
<1>3. NamesTypeOK'
  BY <1>1, <1>2, Typed, TypedNext DEF NInv
<1>4. claim.key \in Convo
  BY <1>1, StripClaim DEF NInv, Stripping
<1>5. \A t \in Convo : rec'[t].state = rec[t].state /\ rec'[t].name \in {rec[t].name, Unnamed}
  BY <1>1, Typed DEF NInv, Record
<1>6. \A n \in Name, t \in Convo : Has(rec', t, n) => Has(rec, t, n)
  BY <1>5 DEF Has, Name, Unnamed
<1>7. QED
  BY <1>1, <1>3, <1>4, <1>5, <1>6 DEF Fewer, NInv

\* Steps under the lock, while no claim is under way.
LEMMA IdleFewer ==
    ASSUME NInv, claim' = NoClaim, alive' \subseteq Convo,
           rec' \in [Convo -> Record], nlane' \in [Shell -> Lane], reserved' \in [Convo -> Reservation],
           \A s \in Convo : rec'[s].state = "none" => rec'[s].name = Unnamed,
           \A n \in Name, s \in Convo : Has(rec', s, n) => Has(rec, s, n),
           \A s \in Convo : reserved'[s].name \in Name => reserved'[s].name = reserved[s].name
    PROVE  Fewer
<1>1. NamesTypeOK'
  BY TypedNext
<1>2. claim'.at # "strip"
  BY DEF NoClaim
<1>3. QED
  BY <1>1, <1>2 DEF Fewer

\* The record of s that a step gives another state, and no other name.
LEMMA RestateKeeps ==
    ASSUME NInv, NEW s \in Convo, NEW r \in Record, rec' = [rec EXCEPT ![s] = r],
           r.name \in {rec[s].name, Unnamed},
           rec[s].state \in {"none", "destroyed"} => r.name = Unnamed,
           r.state = "none" => r.name = Unnamed
    PROVE  /\ rec' \in [Convo -> Record]
           /\ \A t \in Convo : rec'[t].state = "none" => rec'[t].name = Unnamed
           /\ \A n \in Name, t \in Convo : Has(rec', t, n) => Has(rec, t, n)
<1>1. rec \in [Convo -> Record]
  BY Typed DEF NInv
<1>2. \A t \in Convo : rec'[t] = IF t = s THEN r ELSE rec[t]
  BY <1>1
<1>3. ASSUME NEW n \in Name, NEW t \in Convo, Has(rec', t, n) PROVE Has(rec, t, n)
  BY <1>2, <1>3 DEF Has, Name, Unnamed
<1>4. QED
  BY <1>1, <1>2, <1>3 DEF NInv

LEMMA BoundTypes ==
    ASSUME NInv, NEW l \in Shell, NEW s \in Convo, Bound(l, s)
    PROVE  nlane' \in [Shell -> Lane] /\ alive' \subseteq Convo /\ claim' = claim
<1>1. nlane' = [nlane EXCEPT ![l] = [@ EXCEPT !.launch = "bound", !.key = s]]
  BY DEF Bound
<1>2. nlane' \in [Shell -> Lane]
  BY <1>1, Typed, ZenonT(30) DEF NInv, Lane
<1>3. QED
  BY <1>2, Typed DEF Bound, NInv

LEMMA BindNewFewer == ASSUME NInv, NEW l \in Shell, NEW s \in Convo, BindNew(l, s) PROVE Fewer
<1> DEFINE r == [state |-> "running", name |-> Unnamed, lane |-> l]
<1>1. r \in Record /\ rec' = [rec EXCEPT ![s] = r] /\ Bound(l, s) /\ reserved' = reserved /\ claim = NoClaim
  BY DEF BindNew, Record, States, Unlocked
<1>2. r.name = Unnamed
  OBVIOUS
<1> HIDE DEF r
<1>3. QED
  BY <1>1, <1>2, RestateKeeps, BoundTypes, IdleFewer, Typed DEF NInv

LEMMA BindResumeFewer == ASSUME NInv, NEW l \in Shell, NEW s \in Convo, BindResume(l, s) PROVE Fewer
<1> DEFINE r == [rec[s] EXCEPT !.state = "running", !.lane = l]
<1>1. rec[s] \in Record /\ rec[s].state = "stopped"
  BY Typed DEF BindResume, NInv
<1>2. r \in Record /\ r.name = rec[s].name /\ r.state = "running"
  BY <1>1 DEF Record, States
<1>3. /\ rec' = [rec EXCEPT ![s] = r] /\ Bound(l, s) /\ claim = NoClaim
      /\ reserved' = [reserved EXCEPT ![s] = Unreserved]
  BY DEF BindResume, Unlocked
<1> HIDE DEF r
<1>4. reserved' \in [Convo -> Reservation]
  BY <1>3, Typed DEF NInv, Reservation
<1>5. \A t \in Convo : reserved'[t].name \in Name => reserved'[t].name = reserved[t].name
  BY <1>3, Typed DEF NInv, Unreserved, Unnamed, Name
<1>6. QED
  BY <1>1, <1>2, <1>3, <1>4, <1>5, RestateKeeps, BoundTypes, IdleFewer

LEMMA LaunchLapsesFewer == ASSUME NInv, NEW l \in Shell, LaunchLapses(l) PROVE Fewer
<1>1. /\ nlane' = [nlane EXCEPT ![l].launch = "idle"] /\ claim = NoClaim
      /\ UNCHANGED <<rec, alive, claim>>
  BY DEF LaunchLapses, Unlocked
<1>2. reserved' = [s \in Convo |-> IF reserved[s].lane = l THEN Unreserved ELSE reserved[s]]
  BY DEF LaunchLapses
<1>3. nlane' \in [Shell -> Lane]
  BY <1>1, Typed DEF NInv, Lane
<1>4. reserved' \in [Convo -> Reservation]
  BY <1>2, Typed DEF NInv, Reservation
<1>5. \A t \in Convo : reserved'[t].name \in Name => reserved'[t].name = reserved[t].name
  BY <1>2 DEF Unreserved, Unnamed, Name
<1>6. QED
  BY <1>1, <1>3, <1>4, <1>5, IdleFewer, Typed DEF NInv, Has

LEMMA SettleFewer ==
    ASSUME NInv, NEW l \in Shell, NEW body \in {"ended", "open"}, Settle(l, body) PROVE Fewer
<1> DEFINE s == nlane[l].key
           launch == IF nlane[l].launch = "bound" THEN "idle" ELSE nlane[l].launch
           state == IF body = "ended" THEN "destroyed" ELSE "live"
<1>1. claim' = NoClaim /\ UNCHANGED <<reserved, alive>>
  BY DEF Settle, Unlocked
<1>2. rec' = [t \in Convo |-> IF t = s /\ rec[t].state = "running" /\ rec[t].lane = l
                                THEN [rec[t] EXCEPT !.state = "stopped"] ELSE rec[t]]
  BY DEF Settle
<1>3. nlane[l] \in Lane /\ nlane' = [nlane EXCEPT ![l] = [@ EXCEPT !.launch = launch, !.state = state]]
  BY Typed DEF Settle, NInv
<1>4. launch \in {"idle", "new", "resume", "bound"} /\ state \in {"absent", "live", "destroyed"}
  BY <1>3 DEF Lane
<1> HIDE DEF s, launch, state
<1>5. nlane' \in [Shell -> Lane]
  BY <1>3, <1>4, Typed DEF NInv, Lane
<1>6. rec' \in [Convo -> Record]
  BY <1>2, Typed DEF NInv, Record, States
<1>7. \A t \in Convo : /\ rec'[t].name = rec[t].name
                       /\ rec'[t].state \in {"none", "destroyed"} <=> rec[t].state \in {"none", "destroyed"}
                       /\ rec'[t].state = "none" <=> rec[t].state = "none"
  BY <1>2, Typed DEF NInv, Record, States
<1>8. QED
  BY <1>1, <1>5, <1>6, <1>7, IdleFewer, Typed DEF NInv, Has

LEMMA DestroyFewer == ASSUME NInv, NEW s \in Convo, Destroy(s) PROVE Fewer
<1> DEFINE r == [rec[s] EXCEPT !.state = "destroyed"]
<1>1. rec[s] \in Record /\ rec[s].state = "stopped"
  BY Typed DEF Destroy, NInv
<1>2. r \in Record /\ r.name = rec[s].name /\ r.state = "destroyed"
  BY <1>1 DEF Record, States
<1>3. rec' = [rec EXCEPT ![s] = r] /\ claim' = NoClaim /\ UNCHANGED <<nlane, reserved, alive>>
  BY DEF Destroy, Unlocked
<1> HIDE DEF r
<1>4. QED
  BY <1>1, <1>2, <1>3, RestateKeeps, IdleFewer, Typed DEF NInv

---------------------------------------------------------------------------
(* Steps that give or reserve a name, or begin a claim                     *)

LEMMA UnclaimedMeans ==
    ASSUME NEW s \in Convo, NEW n, Unclaimed(s, n)
    PROVE  /\ \A t \in Convo : Has(rec, t, n) => t = s
           /\ \A t \in Convo : reserved[t].name # n
  BY HoldersHave DEF Unclaimed

\* The name of s, where nobody else has it and no launch has reserved it.
LEMMA NamingKeeps ==
    ASSUME NInv, NEW s \in Convo, NEW r \in Record, rec' = [rec EXCEPT ![s] = r],
           r.state \notin {"none", "destroyed"},
           \A t \in Convo : Has(rec, t, r.name) => t = s,
           \A t \in Convo : reserved[t].name # r.name,
           UNCHANGED <<nlane, reserved, alive>>,
           claim' \in {NoClaim} \cup Naming
    PROVE  NInv'
<1>1. rec \in [Convo -> Record]
  BY Typed DEF NInv
<1>2. \A t \in Convo : rec'[t] = IF t = s THEN r ELSE rec[t]
  BY <1>1
<1>3. NamesTypeOK'
  BY <1>1, Typed, TypedNext DEF NInv
<1>4. claim'.at # "strip"
  BY DEF NoClaim, Naming
<1>5. \A t \in Convo, n \in Name : Has(rec', t, n) => (t = s /\ n = r.name) \/ (t # s /\ Has(rec, t, n))
  BY <1>2 DEF Has
<1>6. \A t \in Convo : rec'[t].state = "none" => rec'[t].name = Unnamed
  BY <1>2 DEF NInv
<1>7. \A n \in Name, t, u \in Convo : Has(rec', t, n) /\ Has(rec', u, n) => t = u
  BY <1>5 DEF NInv
<1>8. \A t, u \in Convo : reserved'[t].name \in Name /\ Has(rec', u, reserved'[t].name) => u = t
  BY <1>5 DEF NInv
<1>9. QED
  BY <1>3, <1>4, <1>6, <1>7, <1>8 DEF NInv, Has

LEMMA RenameKeeps ==
    ASSUME NInv, NEW s \in Convo, NEW n \in Name, RenameSession(s, n) PROVE NInv'
<1> DEFINE r == [rec[s] EXCEPT !.name = n]
<1>1. rec[s] \in Record /\ rec[s].state \notin {"none", "destroyed"}
  BY Typed DEF RenameSession, Recorded, NInv
<1>2. r \in Record /\ r.name = n /\ r.state = rec[s].state
  BY <1>1 DEF Record
<1>3. rec' = [rec EXCEPT ![s] = r] /\ claim' = NoClaim /\ UNCHANGED <<nlane, reserved, alive>>
  BY DEF RenameSession, Unlocked
<1>4. Unclaimed(s, n)
  BY DEF RenameSession
<1> HIDE DEF r
<1>5. QED
  BY <1>1, <1>2, <1>3, <1>4, UnclaimedMeans, NamingKeeps

LEMMA AdoptKeeps ==
    ASSUME NInv, NEW s \in Convo, NEW n \in Name \cup {Unnamed}, Adopt(s, n) PROVE NInv'
<1>1. rec[s] \in Record /\ rec[s].state = "plain"
  BY Typed DEF Adopt, NInv
<1>2. claim' = NoClaim /\ UNCHANGED <<nlane, reserved, alive>>
  BY DEF Adopt, Unlocked
<1> DEFINE name == IF n = Unnamed THEN rec[s].name ELSE n
           r == [rec[s] EXCEPT !.state = "stopped", !.name = name]
<1>3. rec' = [rec EXCEPT ![s] = r]
  BY DEF Adopt
<1>4. name \in Name \cup {Unnamed}
  BY <1>1 DEF Record
<1> HIDE DEF name
<1>5. r \in Record /\ r.name = name /\ r.state = "stopped"
  BY <1>1, <1>4 DEF Record, States
<1> HIDE DEF r
<1>6. CASE n = Unnamed
  <2>1. name = rec[s].name
    BY <1>6 DEF name
  <2>2. /\ rec' \in [Convo -> Record]
        /\ \A t \in Convo : rec'[t].state = "none" => rec'[t].name = Unnamed
        /\ \A m \in Name, t \in Convo : Has(rec', t, m) => Has(rec, t, m)
    BY <1>1, <1>3, <1>5, <2>1, RestateKeeps
  <2>3. /\ alive' \subseteq Convo /\ nlane' \in [Shell -> Lane]
        /\ reserved' \in [Convo -> Reservation]
    BY <1>2, Typed DEF NInv
  <2>4. \A t \in Convo : reserved'[t].name \in Name => reserved'[t].name = reserved[t].name
    BY <1>2
  <2>5. Fewer
    BY <1>2, <2>2, <2>3, <2>4, IdleFewer
  <2>6. QED
    BY <2>5, FewerKeeps
<1>7. CASE n # Unnamed
  <2>1. name = n /\ Unclaimed(s, n)
    BY <1>7 DEF Adopt, name
  <2>2. /\ \A t \in Convo : Has(rec, t, n) => t = s
        /\ \A t \in Convo : reserved[t].name # n
    BY <2>1, UnclaimedMeans
  <2>3. r.name = n /\ r.state \notin {"none", "destroyed"}
    BY <1>5, <2>1
  <2>4. QED
    BY <1>2, <1>3, <1>5, <2>2, <2>3, NamingKeeps
<1>8. QED
  BY <1>6, <1>7

LEMMA GiveKeeps == ASSUME NInv, Give PROVE NInv'
<1> DEFINE s == claim.key
           n == claim.name
           r == [rec[s] EXCEPT !.name = n]
<1>1. claim.at = "strip" /\ Holders(n) \subseteq {s} /\ UNCHANGED <<nlane, reserved, alive>>
      /\ rec' = [rec EXCEPT ![s] = r]
  BY DEF Give
<1>2. s \in Convo /\ n \in Name
  BY <1>1, StripClaim DEF NInv, Stripping
<1>3. rec[s] \in Record /\ rec[s].state \notin {"none", "destroyed"}
      /\ \A t \in Convo : reserved[t].name # n
  BY <1>1, <1>2, Typed DEF NInv
<1>4. r \in Record /\ r.name = n /\ r.state = rec[s].state
  BY <1>2, <1>3 DEF Record
<1>5. claim' \in Naming
  BY <1>2 DEF Give, Naming
<1>6. \A t \in Convo : Has(rec, t, n) => t = s
  BY <1>1, HoldersHave
<1> HIDE DEF r, s, n
<1>7. QED
  BY <1>1, <1>2, <1>3, <1>4, <1>5, <1>6, NamingKeeps

LEMMA ClaimKeeps ==
    ASSUME NInv, NEW s \in Convo, NEW keep \in BOOLEAN, Claim(s, keep) PROVE NInv'
<1>1. s \in alive /\ s \in Recorded /\ UNCHANGED <<rec, nlane, reserved, alive>>
  BY DEF Claim
<1>2. PICK n \in Name : FreeFor(s, n) /\ claim' = [at |-> "strip", key |-> s, name |-> n, through |-> alive \ {s}]
  BY DEF Claim
<1>3. claim' \in Stripping /\ claim'.key = s /\ claim'.name = n /\ claim'.through = alive \ {s}
  BY <1>2, Typed DEF NInv, Stripping
<1>4. NamesTypeOK'
  BY <1>1, <1>3, Typed, TypedNext DEF NInv
<1>5. \A t \in Convo : reserved[t].name # n
  BY <1>2 DEF FreeFor, Held
<1>6. \A t \in Convo : Has(rec, t, n) => t = s \/ t \notin alive
  BY <1>2, HoldersHave DEF FreeFor, SeemsOpen
<1>7. QED
  BY <1>1, <1>3, <1>4, <1>5, <1>6 DEF NInv, Has, Recorded

LEMMA LaunchResumeKeeps ==
    ASSUME NInv, NEW l \in Shell, NEW s \in Convo, LaunchResume(l, s) PROVE NInv'
<1> DEFINE n == rec[s].name
<1>1. /\ claim' = NoClaim /\ UNCHANGED <<rec, alive>>
      /\ nlane' = [nlane EXCEPT ![l] = [@ EXCEPT !.launch = "resume", !.key = NoConvo]]
      /\ reserved' = [reserved EXCEPT ![s] = [lane |-> l, name |-> n]]
  BY DEF LaunchResume, Unlocked
<1>2. n \in Name \cup {Unnamed}
  BY Typed DEF NInv, Record
<1>3. nlane' \in [Shell -> Lane]
  BY <1>1, Typed, ZenonT(30) DEF NInv, Lane
<1>4. reserved' \in [Convo -> Reservation]
  BY <1>1, <1>2, Typed DEF NInv, Reservation
<1>5. NamesTypeOK'
  BY <1>1, <1>3, <1>4, Typed, TypedNext DEF NInv
<1>6. n \in Name => \A t \in Convo : Has(rec, t, n) => t = s
  BY UnclaimedMeans DEF LaunchResume, Name, Unnamed
<1>7. \A t \in Convo : reserved'[t].name = IF t = s THEN n ELSE reserved[t].name
  BY <1>1, Typed DEF NInv
<1> HIDE DEF n
<1>8. \A t, u \in Convo : reserved'[t].name \in Name /\ Has(rec, u, reserved'[t].name) => u = t
  BY <1>6, <1>7 DEF NInv
<1>9. claim'.at # "strip"
  BY <1>1 DEF NoClaim
<1>10. QED
  BY <1>1, <1>5, <1>8, <1>9 DEF NInv, Has

---------------------------------------------------------------------------

LEMMA InitNInv == NamesInit => NInv
<1> SUFFICES ASSUME NamesInit PROVE NInv
  OBVIOUS
<1>1. rec \in [Convo -> Record] /\ nlane \in [Shell -> Lane] /\ reserved \in [Convo -> Reservation]
  BY DEF NamesInit, Record, States, Lane, Reservation
<1>2. NamesTypeOK
  BY <1>1, Typed DEF NamesInit
<1>3. claim.at # "strip"
  BY DEF NamesInit, NoClaim
<1>4. \A s \in Convo : rec[s].name = Unnamed /\ reserved[s].name = Unnamed
  BY DEF NamesInit, Unreserved
<1>5. QED
  BY <1>2, <1>3, <1>4 DEF NInv, Has, Name, Unnamed

LEMMA NextNInv == NInv /\ [NamesNext]_nameVars => NInv'
<1> SUFFICES ASSUME NInv, [NamesNext]_nameVars PROVE NInv'
  OBVIOUS
<1>1. CASE UNCHANGED nameVars
  BY <1>1 DEF nameVars, NInv, NamesTypeOK, Has
<1>2. CASE NamesNext
  <2>1. ASSUME NEW s \in Convo,
               Crumb(s) \/ AgentEnds(s) \/ Destroy(s) \/ Strip(s) PROVE NInv'
    BY <2>1, CrumbFewer, AgentEndsFewer, DestroyFewer, StripFewer, FewerKeeps
  <2>2. ASSUME NEW s \in Convo, OpenElsewhere(s) PROVE NInv'
    BY <2>2, ReopenedFewer, FewerKeeps DEF OpenElsewhere
  <2>3. ASSUME NEW s \in Convo, NEW l \in Shell, LaunchResume(l, s) \/ BindNew(l, s) \/ BindResume(l, s)
        PROVE NInv'
    BY <2>3, LaunchResumeKeeps, BindNewFewer, BindResumeFewer, FewerKeeps
  <2>4. ASSUME NEW l \in Shell, LaunchNew(l) \/ LaunchLapses(l) PROVE NInv'
    BY <2>4, LaunchNewFewer, LaunchLapsesFewer, FewerKeeps
  <2>5. ASSUME NEW l \in Shell, NEW n \in Name \cup {Unnamed}, OpenLane(l, n) PROVE NInv'
    BY <2>5, OpenLaneFewer, FewerKeeps
  <2>6. ASSUME NEW l \in Shell, NEW body \in {"ended", "open"}, Settle(l, body) PROVE NInv'
    BY <2>6, SettleFewer, FewerKeeps
  <2>7. ASSUME NEW n \in Name, NEW force \in BOOLEAN, NEW here \in BOOLEAN, Restore(n, force, here)
        PROVE NInv'
    BY <2>7, RestoreFewer, FewerKeeps
  <2>8. CASE NameLane \/ ClaimKilled
    BY <2>8, NameLaneFewer, ClaimKilledFewer, FewerKeeps
  <2>9. Wanted \in Name
    BY NamesAssumption DEF Wanted, Name
  <2>10. ASSUME NEW s \in Convo, RenameSession(s, Wanted) PROVE NInv'
    BY <2>9, <2>10, RenameKeeps
  <2>11. ASSUME NEW s \in Convo, NEW n \in {Wanted, Unnamed}, Adopt(s, n) PROVE NInv'
    BY <2>9, <2>11, AdoptKeeps
  <2>12. QED
    BY <1>2, <2>1, <2>2, <2>3, <2>4, <2>5, <2>6, <2>7, <2>8, <2>10, <2>11, ClaimKeeps, GiveKeeps
       DEF NamesNext
<1>3. QED
  BY <1>1, <1>2

LEMMA NInvHolds == NamesSpec => []NInv
  BY InitNInv, NextNInv, PTL DEF NamesSpec

\* Every record, lane, reservation and claim keeps its shape (the records of
\* session_state.py as session_cli.py writes them).
THEOREM NamesTypes == NamesSpec => []NamesTypeOK
<1>1. NInv => NamesTypeOK
  BY DEF NInv
<1>2. QED
  BY <1>1, NInvHolds, PTL

\* Who has a name by its record is all a restore by that name finds.
LEMMA PickedHolder ==
    ASSUME NInv, NEW n \in Name, NEW s \in Convo, s \in Holders(n) PROVE Picked(n) = {s}
<1>1. \A t \in Convo : t \in Holders(n) => t = s
  BY HoldersHave DEF NInv
<1>2. n # Unnamed
  BY DEF Name, Unnamed
<1>3. s \in Listed(n)
  BY <1>2 DEF Listed, AnswersTo, Holders
<1>4. ASSUME NEW t \in Listed(n) PROVE t = s
  <2>1. t \in Convo /\ t \in Recorded /\ n \in AnswersTo(t)
    BY DEF Listed, Recorded
  <2>2. CASE rec[t].name # Unnamed
    BY <1>1, <2>1, <2>2 DEF AnswersTo, Holders
  <2>3. CASE rec[t].name = Unnamed
    <3>1. \E l \in Shell : n = nlane[l].name /\ Holders(nlane[l].name) = {}
      BY <2>1, <2>3 DEF AnswersTo
    <3>2. QED
      BY <3>1
  <2>4. QED
    BY <2>2, <2>3
<1>5. QED
  BY <1>3, <1>4 DEF Picked

\* No two sessions have one name, a restore by it finds the one that has it,
\* a session that runs through a claim keeps its name, and a reserved name
\* goes to nobody else, for any number of sessions, lanes and names
\* (claim_session_name, rename_session, adopt_session, reserve_launch).
THEOREM NamesAlwaysHold == NamesSpec => []NamesHold
<1>1. NInv => NamesHold
  <2> SUFFICES ASSUME NInv PROVE NamesHold
    OBVIOUS
  <2>1. \A n \in Name, s, t \in Convo : s \in Holders(n) /\ t \in Holders(n) => s = t
    BY HoldersHave DEF NInv
  <2>2. \A n \in Name, s \in Convo : s \in Holders(n) => Picked(n) = {s}
    BY PickedHolder
  <2>3. ASSUME claim.at = "strip"
        PROVE \A s \in Holders(claim.name) : s = claim.key \/ s \notin claim.through
    BY <2>3, HoldersHave DEF NInv
  <2>4. \A s \in Convo : reserved[s].name \in Name => Holders(reserved[s].name) \subseteq {s}
    BY HoldersHave DEF NInv
  <2>5. QED
    BY <2>1, <2>2, <2>3, <2>4 DEF NamesHold
<1>2. QED
  BY <1>1, NInvHolds, PTL
=============================================================================
