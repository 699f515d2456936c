---------------------------- MODULE SessionNames ----------------------------
(***************************************************************************)
(* The names of sessions and lanes (session_cli.py), and the restores that *)
(* go by them (tasks/resume.py).  A session is named by its own agent, by  *)
(* its launcher or its first task (claim_session_name), by a person        *)
(* (rename, adopt) or not at all; a lane is named as it is created, and    *)
(* follows its conversation.  Names are given under the lock of the        *)
(* sessions; agents start and end, and restores look, without it.          *)
(*                                                                         *)
(*   rec[s]     the session's record: its name, whether it is managed, and *)
(*              the lane it last ran in                                    *)
(*   nlane[l]   the lane: its name, the conversation it last ran, and the  *)
(*              launch it has reserved or the agent it runs                *)
(*   reserved[s]    the lane and the name in the reservation of a resume   *)
(*   alive      conversations with a process                               *)
(*   claim      the claim under way, with what it found under the lock     *)
(*                                                                         *)
(* Everybody wants name 1; a claim that cannot have it takes the same name  *)
(* with -2, -3 and so on appended, which are the other names.              *)
(***************************************************************************)
EXTENDS Naturals, FiniteSets

CONSTANTS Convo, Shell, NoConvo, NoShell, MaxName

ASSUME NamesAssumption ==
    NoConvo \notin Convo /\ NoShell \notin Shell /\ MaxName \in Nat \ {0}

VARIABLES rec, nlane, reserved, alive, claim

nameVars == <<rec, nlane, reserved, alive, claim>>

Name == 1 .. MaxName
Wanted == 1
Unnamed == 0
Unreserved == [lane |-> NoShell, name |-> Unnamed]
NoClaim == [at |-> "idle"]

NamesTypeOK ==
    /\ rec \in [Convo -> [state : {"none", "plain", "running", "stopped", "destroyed"},
                          name : Name \cup {Unnamed}, lane : Shell \cup {NoShell}]]
    /\ nlane \in [Shell -> [state : {"absent", "live", "destroyed"}, name : Name \cup {Unnamed},
                            key : Convo \cup {NoConvo}, launch : {"idle", "new", "resume", "bound"}]]
    /\ reserved \in [Convo -> [lane : Shell, name : Name \cup {Unnamed}] \cup {Unreserved}]
    /\ alive \subseteq Convo
    /\ claim \in {NoClaim} \cup [at : {"lane"}, key : Convo, name : Name]
                \cup [at : {"strip"}, key : Convo, name : Name, through : SUBSET Convo]

NamesInit ==
    /\ rec = [s \in Convo |-> [state |-> "none", name |-> Unnamed, lane |-> NoShell]]
    /\ nlane = [l \in Shell |-> [state |-> "absent", name |-> Unnamed, key |-> NoConvo, launch |-> "idle"]]
    /\ reserved = [s \in Convo |-> Unreserved] /\ alive = {}
    /\ claim = NoClaim

Unlocked == claim = NoClaim
Recorded == {s \in Convo : rec[s].state \notin {"none", "destroyed"}}
Managed == {s \in Convo : rec[s].state \in {"running", "stopped"}}
Holders(n) == {s \in Recorded : rec[s].name = n}
LanesNamed(n) == {l \in Shell : nlane[l].state = "live" /\ nlane[l].name = n}
Pending(s) == reserved[s] # Unreserved

\* running_session_keys: what the process table shows.
SeemsOpen(s) == s \in alive

\* No other record and no launch has the name; lanes are not asked.
Unclaimed(s, n) == Holders(n) \subseteq {s} /\ \A t \in Convo : reserved[t].name # n

---------------------------------------------------------------------------
(* Conversations and lanes come and go                                     *)

\* A hook of a session started outside pb-session leaves its record.
Crumb(s) ==
    /\ Unlocked /\ rec[s].state = "none"
    /\ rec' = [rec EXCEPT ![s].state = "plain"] /\ alive' = alive \cup {s}
    /\ UNCHANGED <<nlane, reserved, claim>>

AgentEnds(s) ==
    /\ s \in alive /\ alive' = alive \ {s}
    /\ claim' = IF claim.at = "strip" THEN [claim EXCEPT !.through = @ \ {s}] ELSE claim
    /\ UNCHANGED <<rec, nlane, reserved>>

OpenLane(l, n) ==
    /\ Unlocked /\ nlane[l].state = "absent" /\ (n = Unnamed \/ LanesNamed(n) = {})
    /\ nlane' = [nlane EXCEPT ![l] = [@ EXCEPT !.state = "live", !.name = n]]
    /\ UNCHANGED <<rec, reserved, alive, claim>>

\* A launch of a new conversation reserves no name: its lane holds it.
LaunchNew(l) ==
    /\ Unlocked /\ nlane[l].state = "live" /\ nlane[l].launch = "idle"
    /\ nlane' = [nlane EXCEPT ![l] = [@ EXCEPT !.launch = "new", !.key = NoConvo]]
    /\ UNCHANGED <<rec, reserved, alive, claim>>

\* A resume reserves the name the conversation has, in its own lane if that
\* is idle.
LaunchResume(l, s) ==
    /\ Unlocked /\ nlane[l].state = "live" /\ nlane[l].launch = "idle"
    /\ rec[s].state = "stopped" /\ ~Pending(s)
    /\ \A k \in Shell : k = rec[s].lane => l = k \/ nlane[k].state # "live" \/ nlane[k].launch # "idle"
    /\ rec[s].name # Unnamed => Unclaimed(s, rec[s].name)
    /\ nlane' = [nlane EXCEPT ![l] = [@ EXCEPT !.launch = "resume", !.key = NoConvo]]
    /\ reserved' = [reserved EXCEPT ![s] = [lane |-> l, name |-> rec[s].name]]
    /\ UNCHANGED <<rec, alive, claim>>

Bound(l, s) ==
    /\ nlane' = [nlane EXCEPT ![l] = [@ EXCEPT !.launch = "bound", !.key = s]]
    /\ alive' = alive \cup {s}
    /\ UNCHANGED <<claim>>

BindNew(l, s) ==
    /\ Unlocked /\ nlane[l].state = "live" /\ nlane[l].launch = "new" /\ rec[s].state = "none"
    /\ rec' = [rec EXCEPT ![s] = [state |-> "running", name |-> Unnamed, lane |-> l]]
    /\ Bound(l, s) /\ UNCHANGED reserved

\* A name that changed since the reservation refuses the bind.
BindResume(l, s) ==
    /\ Unlocked /\ nlane[l].state = "live" /\ rec[s].state = "stopped"
    /\ reserved[s] = [lane |-> l, name |-> rec[s].name]
    /\ rec' = [rec EXCEPT ![s] = [@ EXCEPT !.state = "running", !.lane = l]]
    /\ reserved' = [reserved EXCEPT ![s] = Unreserved]
    /\ Bound(l, s)

\* Fault: a launch that lapses keeps its name.
LaunchLapsesNamed(l) ==
    /\ Unlocked /\ nlane[l].launch \in {"new", "resume"}
    /\ nlane' = [nlane EXCEPT ![l].launch = "idle"]
    /\ reserved' = [s \in Convo |-> IF reserved[s].lane = l THEN [reserved[s] EXCEPT !.lane = NoShell]
                                     ELSE reserved[s]]
    /\ UNCHANGED <<rec, alive, claim>>

\* cancelled, expired, or revoked by the lane's next launch
LaunchLapses(l) ==
    /\ Unlocked /\ nlane[l].launch \in {"new", "resume"}
    /\ nlane' = [nlane EXCEPT ![l].launch = "idle"]
    /\ reserved' = [s \in Convo |-> IF reserved[s].lane = l THEN Unreserved ELSE reserved[s]]
    /\ UNCHANGED <<rec, alive, claim>>

\* settle_lane: the agent ended, or the whole body did.
Settle(l, body) ==
    LET s == nlane[l].key
        launch == IF nlane[l].launch = "bound" THEN "idle" ELSE nlane[l].launch
        state == IF body = "ended" THEN "destroyed" ELSE "live" IN
    /\ Unlocked /\ nlane[l].state = "live" /\ s \notin alive
    /\ body = "ended" \/ nlane[l].launch = "bound"
    /\ nlane' = [nlane EXCEPT ![l] = [@ EXCEPT !.launch = launch, !.state = state]]
    /\ rec' = [t \in Convo |-> IF t = s /\ rec[t].state = "running" /\ rec[t].lane = l
                                THEN [rec[t] EXCEPT !.state = "stopped"] ELSE rec[t]]
    /\ UNCHANGED <<reserved, alive, claim>>

Destroy(s) ==
    /\ Unlocked /\ rec[s].state = "stopped" /\ ~Pending(s)
    /\ rec' = [rec EXCEPT ![s].state = "destroyed"]
    /\ UNCHANGED <<nlane, reserved, alive, claim>>

---------------------------------------------------------------------------
(* claim_session_name, from within the session                             *)

OwnLane(s) == {l \in Shell : nlane[l].state = "live" /\ nlane[l].key = s}
Held(s) == {nlane[l].name : l \in {k \in Shell : nlane[k].state = "live"} \ OwnLane(s)}
             \cup {reserved[t].name : t \in Convo}

\* Fault: what runs is not asked.
FreeForUnasked(s, n) == n \notin Held(s)

\* No other lane or launch has it, and no running session.
FreeFor(s, n) == n \notin Held(s) /\ \A t \in Holders(n) \ {s} : ~SeemsOpen(t)

\* The first name of the row that is free or one's own.  through is who has
\* been running ever since.
Claim(s, keep) ==
    /\ Unlocked /\ s \in alive \cap Recorded /\ (keep => rec[s].name = Unnamed)
    /\ \E n \in Name :
         /\ FreeFor(s, n) /\ n # rec[s].name
         /\ \A m \in 1 .. n - 1 : ~FreeFor(s, m) /\ m # rec[s].name
         /\ claim' = [at |-> "strip", key |-> s, name |-> n, through |-> alive \ {s}]
    /\ UNCHANGED <<rec, nlane, reserved, alive>>

\* The sessions that had the name give it up, one after the other,
Strip(s) ==
    /\ claim.at = "strip" /\ s \in Holders(claim.name) \ {claim.key}
    /\ rec' = [rec EXCEPT ![s].name = Unnamed]
    /\ UNCHANGED <<nlane, reserved, alive, claim>>

\* then it is given,
Give ==
    /\ claim.at = "strip" /\ Holders(claim.name) \subseteq {claim.key}
    /\ rec' = [rec EXCEPT ![claim.key].name = claim.name]
    /\ claim' = [at |-> "lane", key |-> claim.key, name |-> claim.name]
    /\ UNCHANGED <<nlane, reserved, alive>>

\* and the lane is named alike.
NameLane ==
    /\ claim.at = "lane" /\ claim' = NoClaim
    /\ nlane' = [l \in Shell |-> IF l \in OwnLane(claim.key) THEN [nlane[l] EXCEPT !.name = claim.name]
                                 ELSE nlane[l]]
    /\ UNCHANGED <<rec, reserved, alive>>

ClaimKilled ==
    /\ ~Unlocked /\ claim' = NoClaim
    /\ UNCHANGED <<rec, nlane, reserved, alive>>

---------------------------------------------------------------------------
(* rename_session and adopt_session                                        *)

RenameSession(s, n) ==
    /\ Unlocked /\ s \in Recorded /\ ~Pending(s) /\ n # rec[s].name /\ Unclaimed(s, n)
    /\ rec' = [rec EXCEPT ![s].name = n]
    /\ UNCHANGED <<nlane, reserved, alive, claim>>

\* Adoption asks the lanes, before it takes the lock: a lane that gets the
\* name in between is one that was there when the session was renamed.
Adopt(s, n) ==
    LET name == IF n = Unnamed THEN rec[s].name ELSE n IN
    /\ Unlocked /\ rec[s].state = "plain"
    /\ n # Unnamed => LanesNamed(n) = {} /\ Unclaimed(s, n)
    /\ rec' = [rec EXCEPT ![s] = [@ EXCEPT !.state = "stopped", !.name = name]]
    /\ UNCHANGED <<nlane, reserved, alive, claim>>

---------------------------------------------------------------------------
(* restore, by name                                                        *)

\* conversation_name: its own name, or that of the lane it last ran in,
\* unless another session has taken it.
AnswersTo(s) ==
    IF rec[s].name # Unnamed THEN {rec[s].name}
    ELSE {nlane[l].name : l \in {k \in Shell : k = rec[s].lane /\ nlane[k].key = s
                                              /\ Holders(nlane[k].name) = {}}} \ {Unnamed}

\* list_recent_sessions: the conversations that answer to the name.
Listed(n) == {s \in Recorded : n \in AnswersTo(s)}

\* resolve_conversation, where no session has the name: what its lane ran.
ByLane(n) == {nlane[l].key : l \in {k \in Shell : nlane[k].name = n}} \cap Recorded

Picked(n) == IF Listed(n) # {} THEN Listed(n) ELSE ByLane(n)

LaneRuns(s) == rec[s].state = "running" /\ SeemsOpen(s)

\* route_restore: one that runs in its lane is attached to, one that looks
\* open elsewhere is refused unless forced, a conversation of a lane comes
\* back by LaunchResume unless it is wanted here.
ComesBackHere(s, force, here) ==
    ~LaneRuns(s) /\ (SeemsOpen(s) => force) /\ (s \in Managed => here)

\* plan_restore: the provider's own resume, in this terminal.
Reopened(s) == alive' = alive \cup {s}

Restore(n, force, here) ==
    /\ \E s \in Picked(n) : ComesBackHere(s, force, here) /\ Reopened(s)
    /\ UNCHANGED <<rec, nlane, reserved, claim>>

\* Somebody types the provider's own command.
OpenElsewhere(s) ==
    /\ s \in Recorded /\ Reopened(s)
    /\ UNCHANGED <<rec, nlane, reserved, claim>>

NamesNext ==
    \/ \E s \in Convo :
         \/ Crumb(s) \/ AgentEnds(s) \/ Destroy(s) \/ Strip(s)
         \/ \E keep \in BOOLEAN : Claim(s, keep)
         \/ RenameSession(s, Wanted)
         \/ \E n \in {Wanted, Unnamed} : Adopt(s, n)
         \/ OpenElsewhere(s)
         \/ \E l \in Shell : LaunchResume(l, s) \/ BindNew(l, s) \/ BindResume(l, s)
    \/ \E l \in Shell :
         \/ LaunchNew(l) \/ LaunchLapses(l)
         \/ \E n \in Name \cup {Unnamed} : OpenLane(l, n)
         \/ \E body \in {"ended", "open"} : Settle(l, body)
    \/ Give \/ NameLane \/ ClaimKilled
    \/ \E n \in Name, force, here \in BOOLEAN : Restore(n, force, here)

NamesSpec == NamesInit /\ [][NamesNext]_nameVars

---------------------------------------------------------------------------

\* No two sessions have one name, whatever becomes of the commands that give
\* it, and a restore by that name finds the one that has it, whatever its
\* lane is called since; a session that has been running since a claim began
\* keeps its name through it; and a name a resume has reserved goes to
\* nobody else before that resume has bound or lapsed.
NamesHold ==
    /\ \A n \in Name, s, t \in Convo : s \in Holders(n) /\ t \in Holders(n) => s = t
    /\ \A n \in Name, s \in Convo : s \in Holders(n) => Picked(n) = {s}
    /\ claim.at = "strip" =>
         \A s \in Holders(claim.name) : s = claim.key \/ s \notin claim.through
    /\ \A s \in Convo : reserved[s].name \in Name => Holders(reserved[s].name) \subseteq {s}
=============================================================================
