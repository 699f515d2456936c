------------------------------ MODULE ChatLog -------------------------------
(***************************************************************************)
(* chat_log.md and its counter (tasks/chat_state.py): hooks that append a  *)
(* message or an event, prepare-merge, which moves the branch's messages   *)
(* behind those of the target branch, and tag, which rewrites the whole    *)
(* file.  All of them take one lock; a process killed with the lock loses  *)
(* it wherever it was.                                                     *)
(*                                                                         *)
(*   log      the entries: their identity (scope and event key), the       *)
(*            number of a message (0 for an event, and for a message of    *)
(*            the old format, which has none) and the session name         *)
(*   counter  chat_log_counter, 0 if it is not there                       *)
(*   owner    who holds the lock                                           *)
(*   named    the name in the session's record                             *)
(*   hook[h]  where hook h is, and the name it read before the lock        *)
(*   tried    how often each hook was run; a hook that answers has written *)
(*   kept     the identities that were answered for                        *)
(*   mover, tagger    where prepare-merge and tag are; what tag has read   *)
(*                                                                         *)
(* A message takes a fresh key each time its hook runs; the key of an      *)
(* event is derived from the transition, so its hook may be run again.     *)
(***************************************************************************)
EXTENDS Integers, Sequences, FiniteSets

CONSTANTS Message, Event, BaseMid, TargetMid, MaxTries, MaxKills

Hook == Message \cup Event

ASSUME ChatAssumption ==
    /\ Message \cap Event = {} /\ Hook \cap {"old", "free", "mover"} = {}
    /\ BaseMid \in Nat /\ TargetMid \in Nat /\ BaseMid <= TargetMid
    /\ MaxTries \in Nat \ {0} /\ MaxKills \in Nat

VARIABLES log, counter, owner, named, hook, tried, kept, mover, tagger, kills

chatVars == <<log, counter, owner, named, hook, tried, kept, mover, tagger, kills>>

Names == {"before", "after"}
Free == [who |-> "free"]
Mover == [who |-> "mover"]

\* An identity is the hook, and for a message the attempt as well.
Key(h) == <<h, IF h \in Message THEN tried[h] ELSE 0>>

Old == {<<"old", i>> : i \in 1 .. 2}

Mids(entries) == {entries[i].mid : i \in DOMAIN entries} \ {0}
Highest(entries) == IF Mids(entries) = {} THEN 0
                    ELSE CHOOSE n \in Mids(entries) : \A m \in Mids(entries) : m <= n

Written(key) == \E i \in DOMAIN log : log[i].key = key

ChatTypeOK ==
    /\ \A i \in DOMAIN log : log[i].mid \in Nat /\ log[i].name \in Names
    /\ counter \in Nat /\ named \in Names
    /\ owner \in {Free, Mover} \cup {[who |-> h] : h \in Hook}
    /\ \A h \in Hook : hook[h].at \in {"idle", "named", "counter", "done", "refused"}
    /\ tried \in [Hook -> 0 .. MaxTries]
    /\ mover \in {"off", "idle", "counter", "done"}
    /\ kills \in 0 .. MaxKills

\* A log of the old format, or one of a branch that is to be merged: the
\* messages it shares with the target, and then its own.
ChatInit ==
    /\ \/ /\ mover = "off"
          /\ log \in {[i \in 1 .. n |-> [key |-> <<"old", i>>, mid |-> 0, name |-> "before"]] : n \in {0, 2}}
       \/ /\ mover = "idle"
          /\ log = [i \in 1 .. BaseMid + 1 |-> [key |-> <<"old", i>>, mid |-> i, name |-> "before"]]
    /\ counter = Highest(log)
    /\ owner = Free /\ named = "before"
    /\ hook = [h \in Hook |-> [at |-> "idle", name |-> "before"]]
    /\ tried = [h \in Hook |-> 0] /\ kept = {}
    /\ tagger = [at |-> "idle", read |-> <<>>] /\ kills = 0

---------------------------------------------------------------------------
(* _append_entry                                                           *)

\* _recorded_session_name: read before the lock is asked for.
ReadName(h) ==
    /\ hook[h].at = "idle" /\ tried[h] < MaxTries
    /\ hook' = [hook EXCEPT ![h] = [at |-> "named", name |-> named]]
    /\ tried' = [tried EXCEPT ![h] = @ + 1]
    /\ UNCHANGED <<log, counter, owner, named, kept, mover, tagger, kills>>

\* _migrate_old_entries: messages of the old format are numbered in order,
\* if none has a number yet.
Migrated ==
    IF Mids(log) # {} THEN log
    ELSE LET Rank(i) == Cardinality({j \in 1 .. i : log[j].key \in Old})
         IN [i \in DOMAIN log |-> IF log[i].key \in Old THEN [log[i] EXCEPT !.mid = Rank(i)] ELSE log[i]]

\* Fault: the counter is believed.
NextMidByCounter == counter + 1

NextMid == (IF Highest(Migrated) > counter THEN Highest(Migrated) ELSE counter) + 1

\* The entry is there already: answered if it says the same of the session.
Replay(h) ==
    /\ hook[h].at = "named" /\ owner = Free /\ Written(Key(h))
    /\ IF \E i \in DOMAIN log : log[i].key = Key(h) /\ log[i].name = hook[h].name
         THEN hook' = [hook EXCEPT ![h].at = "done"] /\ kept' = kept \cup {Key(h)}
         ELSE hook' = [hook EXCEPT ![h].at = "refused"] /\ UNCHANGED kept
    /\ UNCHANGED <<log, counter, owner, named, tried, mover, tagger, kills>>

AppendEntry(h) ==
    /\ hook[h].at = "named" /\ owner = Free /\ ~Written(Key(h))
    /\ log' = Append(Migrated, [key |-> Key(h), name |-> hook[h].name,
                                mid |-> IF h \in Message THEN NextMid ELSE 0])
    /\ IF h \in Message
         THEN hook' = [hook EXCEPT ![h].at = "counter"] /\ owner' = [who |-> h] /\ UNCHANGED kept
         ELSE hook' = [hook EXCEPT ![h].at = "done"] /\ kept' = kept \cup {Key(h)} /\ UNCHANGED owner
    /\ UNCHANGED <<counter, named, tried, mover, tagger, kills>>

WriteCounter(h) ==
    /\ hook[h].at = "counter"
    /\ \E i \in DOMAIN log : log[i].key = Key(h) /\ counter' = log[i].mid
    /\ hook' = [hook EXCEPT ![h].at = "done"] /\ owner' = Free /\ kept' = kept \cup {Key(h)}
    /\ UNCHANGED <<log, named, tried, mover, tagger, kills>>

\* The provider runs the hook again, or a command repeats its transition.
Again(h) ==
    /\ hook[h].at \in {"done", "refused"} /\ tried[h] < MaxTries
    /\ hook' = [hook EXCEPT ![h].at = "idle"]
    /\ UNCHANGED <<log, counter, owner, named, tried, kept, mover, tagger, kills>>

Rename ==
    /\ named = "before" /\ named' = "after"
    /\ UNCHANGED <<log, counter, owner, hook, tried, kept, mover, tagger, kills>>

---------------------------------------------------------------------------
(* _prepare_merge_chatlog                                                  *)

Own == {m \in Mids(log) : m > BaseMid}
Offset == TargetMid - BaseMid

\* Nothing is moved when there is nothing of the branch, or it is behind the
\* target's last message already, or the target has not advanced.
MustMove == Own # {} /\ (\E m \in Own : m <= TargetMid) /\ Offset > 0

Moved(entries, by) ==
    [i \in DOMAIN entries |-> IF entries[i].mid > BaseMid THEN [entries[i] EXCEPT !.mid = @ + by]
                              ELSE entries[i]]

Resequence ==
    /\ mover = "idle" /\ owner = Free
    /\ IF MustMove
         THEN log' = Moved(log, Offset) /\ mover' = "counter" /\ owner' = Mover
         ELSE mover' = "done" /\ UNCHANGED <<log, owner>>
    /\ UNCHANGED <<counter, named, hook, tried, kept, tagger, kills>>

MoveCounter ==
    /\ mover = "counter"
    /\ mover' = "done" /\ owner' = Free /\ counter' = Highest(log)
    /\ UNCHANGED <<log, named, hook, tried, kept, tagger, kills>>

\* The counter cannot be written: the log is put back.
MoveFails ==
    /\ mover = "counter"
    /\ mover' = "idle" /\ owner' = Free /\ log' = Moved(log, -Offset)
    /\ kills < MaxKills /\ kills' = kills + 1
    /\ UNCHANGED <<counter, named, hook, tried, kept, tagger>>

---------------------------------------------------------------------------
(* tag: read under the lock, tagged without it, written under it if the    *)
(* log is still what was read.                                             *)

TagRead ==
    /\ tagger.at = "idle" /\ owner = Free
    /\ tagger' = [at |-> "read", read |-> log]
    /\ UNCHANGED <<log, counter, owner, named, hook, tried, kept, mover, kills>>

\* Tags change no entry.
TagWrite ==
    /\ tagger.at = "read" /\ owner = Free
    /\ log' = IF log = tagger.read THEN tagger.read ELSE log
    /\ tagger' = [at |-> "done", read |-> <<>>]
    /\ UNCHANGED <<counter, owner, named, hook, tried, kept, mover, kills>>

---------------------------------------------------------------------------

\* Killed with or without the lock; a killed hook may be run again.
HookKilled(h) ==
    /\ kills < MaxKills /\ kills' = kills + 1
    /\ hook[h].at \in {"named", "counter"}
    /\ hook' = [hook EXCEPT ![h].at = "refused"]
    /\ owner' = IF hook[h].at = "counter" THEN Free ELSE owner
    /\ UNCHANGED <<log, counter, named, tried, kept, mover, tagger>>

\* A killed prepare-merge is run again.
MoverKilled ==
    /\ kills < MaxKills /\ kills' = kills + 1
    /\ mover = "counter" /\ mover' = "idle" /\ owner' = Free
    /\ UNCHANGED <<log, counter, named, hook, tried, kept, tagger>>

ChatNext ==
    \/ \E h \in Hook :
         ReadName(h) \/ Replay(h) \/ AppendEntry(h) \/ WriteCounter(h) \/ Again(h) \/ HookKilled(h)
    \/ Rename \/ Resequence \/ MoveCounter \/ MoveFails \/ TagRead \/ TagWrite \/ MoverKilled

---------------------------------------------------------------------------

\* Every entry is in the log once, also when its hook is run again after it
\* was killed between log and counter; none that was answered for is lost to
\* a rewrite of the file; and messages are numbered upwards in the order of
\* the log, the branch's behind the target's once they were moved.
EntriesOnceInOrder ==
    /\ \A i, j \in DOMAIN log :
         i < j => /\ log[i].key # log[j].key
                  /\ log[i].mid # 0 /\ log[j].mid # 0 => log[i].mid < log[j].mid
    /\ \A key \in kept : Written(key)
    /\ mover = "done" /\ Offset > 0 => \A m \in Mids(log) : m > BaseMid => m > TargetMid
=============================================================================
