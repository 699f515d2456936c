---------------------------- MODULE Texts_proofs ----------------------------
(***************************************************************************)
(* Proofs about the texts that hooks and commands write: the chat log, for *)
(* any hooks, messages and retries; task.md under an agent's edits, for    *)
(* any gates and number of edits; and the hook files of the providers, for *)
(* any hooks of people's and number of edits.                              *)
(***************************************************************************)
EXTENDS ChatLog, GateEdits, HookFiles, FiniteSetTheorems, SequenceTheorems, WellFoundedInduction, TLAPS

---------------------------------------------------------------------------
(* The chat log: type correctness, and that the entries of every writer    *)
(* stay in their order and are there once.                                 *)

ChatSpec == ChatInit /\ [][ChatNext]_chatVars

Keys == (Hook \cup {"old"}) \X Nat
LogEntry == [key : Keys, mid : Nat, name : Names]
HookState == [at : {"idle", "named", "counter", "done", "refused"}, name : Names]

\* The messages are numbered upwards and no entry is there twice; some message
\* has the highest number.
Ordered(written) ==
    /\ written \in Seq(LogEntry)
    /\ \A i, j \in DOMAIN written :
         i < j => /\ written[i].key # written[j].key
                  /\ written[i].mid # 0 /\ written[j].mid # 0 => written[i].mid < written[j].mid
    /\ Mids(written) # {} => \E i \in DOMAIN written :
                               written[i].mid # 0 /\ \A m \in Mids(written) : m <= written[i].mid

\* A log without numbers holds no message of the old format but the two it
\* began with.
OldFirst(written) ==
    Mids(written) = {} =>
      \/ \A i \in DOMAIN written : written[i].key \notin Old
      \/ /\ Len(written) >= 2 /\ written[1].key = <<"old", 1>> /\ written[2].key = <<"old", 2>>
         /\ \A i \in DOMAIN written : i > 2 => written[i].key \notin Old

Behind(written) == Offset > 0 => \A m \in Mids(written) : m > BaseMid => m > TargetMid

ChatInv ==
    /\ Ordered(log) /\ OldFirst(log)
    /\ counter \in Nat /\ named \in Names /\ kills \in 0 .. MaxKills
    /\ owner \in {Free, Mover} \cup {[who |-> h] : h \in Hook}
    /\ hook \in [Hook -> HookState] /\ tried \in [Hook -> 0 .. MaxTries]
    /\ mover \in {"off", "idle", "counter", "done"}
    /\ \A h \in Hook : hook[h].at = "counter" => owner = [who |-> h]
    /\ mover = "counter" => owner = Mover /\ Offset > 0
    /\ mover # "off" => \E m \in Mids(log) : m > BaseMid
    /\ mover \in {"counter", "done"} => Behind(log)
    /\ \A key \in kept : Written(key)

LEMMA ChatLogged ==
    ASSUME NEW written, Ordered(written)
    PROVE  /\ Len(written) \in Nat /\ DOMAIN written = 1 .. Len(written)
           /\ \A i \in DOMAIN written : /\ written[i] \in LogEntry /\ written[i].mid \in Nat
                                        /\ written[i].key \in Keys /\ written[i].name \in Names
           /\ \A m \in Mids(written) : m \in Nat /\ m # 0
           /\ \A i \in DOMAIN written : written[i].mid # 0 => written[i].mid \in Mids(written)
  <1>1. written \in Seq(LogEntry)
    BY DEF Ordered
  <1>2. Len(written) \in Nat /\ DOMAIN written = 1 .. Len(written)
    BY <1>1, LenProperties
  <1>3. \A i \in DOMAIN written : written[i] \in LogEntry
    BY <1>1, <1>2, ElementOfSeq
  <1> QED BY <1>2, <1>3 DEF LogEntry, Mids

\* The highest number is that of the last message.
LEMMA HighestIs ==
    ASSUME NEW written, Ordered(written)
    PROVE  /\ Highest(written) \in Nat
           /\ \A m \in Mids(written) : m <= Highest(written)
  <1>1. CASE Mids(written) = {}
    BY <1>1 DEF Highest
  <1>2. CASE Mids(written) # {}
    <2>1. \E n \in Mids(written) : \A m \in Mids(written) : m <= n
      BY <1>2, ChatLogged DEF Ordered
    <2>2. Highest(written) \in Mids(written) /\ \A m \in Mids(written) : m <= Highest(written)
      BY <1>2, <2>1 DEF Highest
    <2> QED BY <2>2, ChatLogged
  <1> QED BY <1>1, <1>2

\* Numbering the messages of the old format keeps the log in order, and all
\* its entries where they are.
LEMMA MigrationKeeps ==
    ASSUME Ordered(log), OldFirst(log)
    PROVE  /\ Ordered(Migrated) /\ Len(Migrated) = Len(log) /\ DOMAIN Migrated = DOMAIN log
           /\ \A i \in DOMAIN log : Migrated[i].key = log[i].key /\ Migrated[i].name = log[i].name
           /\ Mids(log) # {} => Migrated = log
           /\ OldFirst(Migrated)
  <1>1. CASE Mids(log) # {}
    BY <1>1 DEF Migrated
  <1>2. CASE Mids(log) = {} /\ \A i \in DOMAIN log : log[i].key \notin Old
    <2>1. Migrated = [i \in DOMAIN log |-> log[i]]
      BY <1>2 DEF Migrated
    <2>2. Migrated = log
      BY <2>1 DEF Ordered
    <2> QED BY <2>2
  <1>3. CASE /\ Mids(log) = {} /\ Len(log) >= 2 /\ log[1].key = <<"old", 1>> /\ log[2].key = <<"old", 2>>
             /\ \A i \in DOMAIN log : i > 2 => log[i].key \notin Old
    <2> DEFINE Rank(i) == Cardinality({j \in 1 .. i : log[j].key \in Old})
    <2>1. <<"old", 1>> \in Old /\ <<"old", 2>> \in Old
      BY DEF Old
    <2>2. Rank(1) = 1
      <3>1. {j \in 1 .. 1 : log[j].key \in Old} = {1}
        BY <1>3, <2>1
      <3> QED BY <3>1, FS_Singleton
    <2>3. Rank(2) = 2
      <3>1. {j \in 1 .. 2 : log[j].key \in Old} = {1} \cup {2}
        BY <1>3, <2>1
      <3>2. Cardinality({1} \cup {2}) = 2
        <4>1. IsFiniteSet({1}) /\ Cardinality({1}) = 1
          BY FS_Singleton
        <4>2. Cardinality({1} \cup {2}) = 1 + 1
          <5>1. 2 \notin {1}
            OBVIOUS
          <5> QED BY <4>1, <5>1, FS_AddElement
        <4> QED BY <4>2
      <3> QED BY <3>1, <3>2
    <2> DEFINE new == [i \in DOMAIN log |->
                         IF log[i].key \in Old THEN [log[i] EXCEPT !.mid = Rank(i)] ELSE log[i]]
    <2>4. Migrated = new
      BY <1>3 DEF Migrated
    <2>5. DOMAIN log = 1 .. Len(log) /\ Len(log) \in Nat /\ log \in Seq(LogEntry)
          /\ \A i \in DOMAIN log : log[i] \in LogEntry /\ log[i].mid = 0
      BY <1>3, ChatLogged DEF Ordered
    <2> HIDE DEF Rank
    <2>6. /\ \A i \in DOMAIN log : /\ new[i] \in LogEntry
                                   /\ new[i].key = log[i].key /\ new[i].name = log[i].name
                                   /\ new[i].mid = IF i = 1 THEN 1 ELSE IF i = 2 THEN 2 ELSE 0
      <3> SUFFICES ASSUME NEW i \in DOMAIN log
                   PROVE  /\ new[i] \in LogEntry
                          /\ new[i].key = log[i].key /\ new[i].name = log[i].name
                          /\ new[i].mid = IF i = 1 THEN 1 ELSE IF i = 2 THEN 2 ELSE 0
        OBVIOUS
      <3>1. CASE i = 1
        <4>1. new[i] = [log[i] EXCEPT !.mid = 1]
          BY <1>3, <2>1, <2>2, <3>1
        <4> QED BY <2>5, <3>1, <4>1 DEF LogEntry
      <3>2. CASE i = 2
        <4>1. new[i] = [log[i] EXCEPT !.mid = 2]
          BY <1>3, <2>1, <2>3, <3>2
        <4> QED BY <2>5, <3>2, <4>1 DEF LogEntry
      <3>3. CASE i # 1 /\ i # 2
        <4>1. i > 2
          BY <2>5, <3>3
        <4>2. new[i] = log[i]
          BY <1>3, <4>1
        <4> QED BY <2>5, <3>3, <4>2
      <3> QED BY <3>1, <3>2, <3>3
    <2>7. DOMAIN new = DOMAIN log /\ new \in [1 .. Len(log) -> LogEntry]
      BY <2>5, <2>6
    <2> HIDE DEF new
    <2>8. new \in Seq(LogEntry) /\ Len(new) = Len(log)
      BY <2>5, <2>7, SeqDef, LenProperties
    <2>9. 1 \in DOMAIN log /\ 2 \in DOMAIN log
      BY <1>3, <2>5
    <2>10. Mids(new) = {1, 2}
      BY <2>6, <2>7, <2>9 DEF Mids
    <2>11. Ordered(new)
      <3>1. \A i, j \in DOMAIN new :
               i < j => /\ new[i].key # new[j].key
                        /\ new[i].mid # 0 /\ new[j].mid # 0 => new[i].mid < new[j].mid
        BY <2>5, <2>6, <2>7 DEF Ordered
      <3>2. new[2].mid # 0 /\ \A m \in Mids(new) : m <= new[2].mid
        BY <2>6, <2>9, <2>10
      <3> QED BY <2>7, <2>8, <2>9, <3>1, <3>2 DEF Ordered
    <2> QED BY <1>3, <2>4, <2>6, <2>7, <2>8, <2>10, <2>11 DEF OldFirst
  <1> QED BY <1>1, <1>2, <1>3 DEF OldFirst

\* What is added to a log with a key of its own, and above its messages.
LEMMA AppendOrdered ==
    ASSUME NEW written, Ordered(written), NEW e \in LogEntry,
           \A i \in DOMAIN written : written[i].key # e.key,
           e.mid # 0 => \A m \in Mids(written) : m < e.mid
    PROVE  /\ Ordered(Append(written, e)) /\ Len(Append(written, e)) = Len(written) + 1
           /\ \A i \in DOMAIN written : i \in DOMAIN Append(written, e) /\ Append(written, e)[i] = written[i]
           /\ DOMAIN Append(written, e) = DOMAIN written \cup {Len(written) + 1}
           /\ Append(written, e)[Len(written) + 1] = e
           /\ Mids(Append(written, e)) = Mids(written) \cup ({e.mid} \ {0})
  <1> DEFINE new == Append(written, e)
             n == Len(written)
  <1>1. /\ new \in Seq(LogEntry) /\ Len(new) = n + 1 /\ n \in Nat
        /\ DOMAIN written = 1 .. n /\ DOMAIN new = 1 .. n + 1
        /\ \A i \in 1 .. n : new[i] = written[i]
        /\ new[n + 1] = e
    BY AppendProperties, LenProperties DEF Ordered
  <1>2. \A i \in DOMAIN written : written[i].mid \in Nat
    BY ChatLogged
  <1> HIDE DEF new, n
  <1>3. \A i : i \in 1 .. n + 1 <=> i \in 1 .. n \/ i = n + 1
    BY <1>1
  <1>4. Mids(new) = Mids(written) \cup ({e.mid} \ {0})
    <2>1. {new[i].mid : i \in 1 .. n + 1} = {written[i].mid : i \in 1 .. n} \cup {e.mid}
      BY <1>1, <1>3
    <2> QED BY <1>1, <2>1 DEF Mids
  <1>5. \A i, j \in DOMAIN new :
           i < j => /\ new[i].key # new[j].key
                    /\ new[i].mid # 0 /\ new[j].mid # 0 => new[i].mid < new[j].mid
    <2> SUFFICES ASSUME NEW i \in DOMAIN new, NEW j \in DOMAIN new, i < j
                 PROVE  /\ new[i].key # new[j].key
                        /\ new[i].mid # 0 /\ new[j].mid # 0 => new[i].mid < new[j].mid
      OBVIOUS
    <2>1. i \in 1 .. n /\ new[i] = written[i]
      BY <1>1
    <2>2. CASE j \in 1 .. n
      BY <1>1, <2>1, <2>2 DEF Ordered
    <2>3. CASE j = n + 1
      <3>1. new[i].mid # 0 => new[i].mid \in Mids(written)
        BY <1>1, <2>1 DEF Mids
      <3> QED BY <1>1, <2>1, <2>3, <3>1
    <2> QED BY <1>1, <1>3, <2>2, <2>3
  <1>6. ASSUME Mids(new) # {}
        PROVE  \E i \in DOMAIN new : new[i].mid # 0 /\ \A m \in Mids(new) : m <= new[i].mid
    <2>1. CASE e.mid # 0
      <3>1. \A m \in Mids(new) : m <= new[n + 1].mid
        <4>1. \A m \in Mids(written) : m \in Nat /\ m < e.mid
          BY <2>1, ChatLogged
        <4>2. e.mid \in Nat
          BY DEF LogEntry
        <4> QED BY <1>1, <1>4, <4>1, <4>2
      <3> QED BY <1>1, <1>3, <2>1, <3>1
    <2>2. CASE e.mid = 0
      <3>1. Mids(new) = Mids(written)
        BY <1>4, <2>2
      <3>2. PICK i \in DOMAIN written : written[i].mid # 0 /\ \A m \in Mids(written) : m <= written[i].mid
        BY <1>6, <3>1 DEF Ordered
      <3> QED BY <1>1, <1>3, <3>1, <3>2
    <2> QED BY <2>1, <2>2
  <1>7. Ordered(new)
    BY <1>1, <1>5, <1>6 DEF Ordered
  <1>8. DOMAIN new = DOMAIN written \cup {n + 1}
    BY <1>1, <1>3
  <1> QED BY <1>1, <1>3, <1>4, <1>7, <1>8 DEF new, n

\* The branch's messages are moved behind the target's, or back again.
LEMMA MoveOrdered ==
    ASSUME NEW written, Ordered(written), NEW by \in Int,
           \A m \in Mids(written) : m > BaseMid => m + by > BaseMid
    PROVE  /\ Ordered(Moved(written, by)) /\ Len(Moved(written, by)) = Len(written)
           /\ DOMAIN Moved(written, by) = DOMAIN written
           /\ \A i \in DOMAIN written : Moved(written, by)[i].key = written[i].key
           /\ Mids(Moved(written, by)) = {IF m > BaseMid THEN m + by ELSE m : m \in Mids(written)}
  <1> DEFINE Up(m) == IF m > BaseMid THEN m + by ELSE m
             new == Moved(written, by)
  <1>1. /\ written \in Seq(LogEntry) /\ Len(written) \in Nat /\ DOMAIN written = 1 .. Len(written)
        /\ \A i \in DOMAIN written : written[i] \in LogEntry /\ written[i].mid \in Nat
        /\ \A i \in DOMAIN written : written[i].mid # 0 => written[i].mid \in Mids(written)
        /\ \A m \in Mids(written) : m \in Nat /\ m # 0
        /\ BaseMid \in Nat
    BY ChatLogged, ChatAssumption DEF Ordered
  <1>2. \A i \in DOMAIN written : written[i].mid > BaseMid => written[i].mid + by > BaseMid
    BY <1>1
  <1>3. ASSUME NEW i \in DOMAIN written
        PROVE  /\ new[i] \in LogEntry /\ new[i].key = written[i].key
               /\ new[i].mid = Up(written[i].mid) /\ (new[i].mid = 0 <=> written[i].mid = 0)
    <2>1. CASE written[i].mid > BaseMid
      <3>1. new[i] = [written[i] EXCEPT !.mid = written[i].mid + by]
        BY <2>1 DEF Moved
      <3>2. written[i].mid + by \in Nat /\ written[i].mid + by # 0
        BY <1>1, <1>2, <2>1
      <3> QED BY <1>1, <2>1, <3>1, <3>2, SMTT(30) DEF LogEntry
    <2>2. CASE ~(written[i].mid > BaseMid)
      <3>1. new[i] = written[i]
        BY <2>2 DEF Moved
      <3> QED BY <1>1, <2>2, <3>1
    <2> QED BY <2>1, <2>2
  <1>4. DOMAIN new = DOMAIN written /\ new \in [1 .. Len(written) -> LogEntry]
    <2>1. new = [i \in DOMAIN written |-> new[i]]
      BY DEF Moved
    <2> QED BY <1>1, <1>3, <2>1
  <1>5. new \in Seq(LogEntry) /\ Len(new) = Len(written)
    BY <1>1, <1>4, SeqDef, LenProperties
  <1> HIDE DEF new
  <1>6. Mids(new) = {Up(m) : m \in Mids(written)}
    <2>1. ASSUME NEW x \in Mids(new) PROVE \E m \in Mids(written) : x = Up(m)
      <3>1. PICK i \in DOMAIN new : x = new[i].mid /\ x # 0
        BY DEF Mids
      <3> QED BY <1>1, <1>3, <1>4, <3>1
    <2>2. ASSUME NEW m \in Mids(written) PROVE Up(m) \in Mids(new)
      <3>1. PICK i \in DOMAIN written : m = written[i].mid /\ m # 0
        BY DEF Mids
      <3>2. new[i].mid = Up(m) /\ new[i].mid # 0 /\ i \in DOMAIN new
        BY <1>3, <1>4, <3>1
      <3> QED BY <3>2 DEF Mids
    <2> QED BY <2>1, <2>2
  <1>7. \A m, n \in Nat : m < n /\ (m > BaseMid => m + by > BaseMid) /\ (n > BaseMid => n + by > BaseMid)
                          => Up(m) < Up(n)
    BY <1>1
  <1> HIDE DEF Up
  <1>8. ASSUME NEW i \in DOMAIN new, NEW j \in DOMAIN new, i < j
        PROVE  /\ new[i].key # new[j].key
               /\ new[i].mid # 0 /\ new[j].mid # 0 => new[i].mid < new[j].mid
    <2>1. /\ written[i].key # written[j].key
          /\ written[i].mid # 0 /\ written[j].mid # 0 => written[i].mid < written[j].mid
      BY <1>4, <1>8 DEF Ordered
    <2> QED BY <1>1, <1>2, <1>3, <1>4, <1>7, <2>1
  <1>9. ASSUME Mids(new) # {}
        PROVE  \E i \in DOMAIN new : new[i].mid # 0 /\ \A m \in Mids(new) : m <= new[i].mid
    <2>1. Mids(written) # {}
      BY <1>6, <1>9
    <2>2. PICK i \in DOMAIN written : written[i].mid # 0 /\ \A m \in Mids(written) : m <= written[i].mid
      BY <2>1 DEF Ordered
    <2>3. \A m \in Mids(written) : Up(m) <= Up(written[i].mid)
      <3>1. ASSUME NEW m \in Mids(written) PROVE Up(m) <= Up(written[i].mid)
        <4>1. m \in Nat /\ written[i].mid \in Nat /\ (m = written[i].mid \/ m < written[i].mid)
          BY <1>1, <2>2
        <4>2. CASE m < written[i].mid
          <5>1. Up(m) < Up(written[i].mid)
            BY <1>2, <1>7, <4>1, <4>2
          <5> QED BY <1>1, <4>1, <5>1 DEF Up
        <4>3. CASE m = written[i].mid
          BY <1>1, <4>1, <4>3 DEF Up
        <4> QED BY <4>1, <4>2, <4>3
      <3> QED BY <3>1
    <2>4. new[i].mid = Up(written[i].mid) /\ new[i].mid # 0 /\ i \in DOMAIN new
      BY <1>3, <1>4, <2>2
    <2> QED BY <1>6, <2>3, <2>4
  <1>10. Ordered(new)
    BY <1>5, <1>8, <1>9 DEF Ordered
  <1> QED BY <1>3, <1>4, <1>5, <1>6, <1>10 DEF new, Up

LEMMA ChatStart == ChatInit => ChatInv
  <1> SUFFICES ASSUME ChatInit PROVE ChatInv
    OBVIOUS
  <1>1. /\ BaseMid \in Nat /\ TargetMid \in Nat /\ MaxTries \in Nat /\ MaxKills \in Nat
        /\ "before" \in Names /\ Offset \in Int
    BY ChatAssumption DEF Names, Offset
  <1>2. ASSUME NEW n \in Nat, NEW numbered \in BOOLEAN,
               log = [i \in 1 .. n |-> [key |-> <<"old", i>>, mid |-> IF numbered THEN i ELSE 0,
                                        name |-> "before"]]
        PROVE  /\ Ordered(log) /\ Len(log) = n
               /\ \A i \in 1 .. n : log[i].key = <<"old", i>>
               /\ Mids(log) = IF numbered THEN 1 .. n ELSE {}
    <2>1. \A i \in 1 .. n : [key |-> <<"old", i>>, mid |-> IF numbered THEN i ELSE 0,
                             name |-> "before"] \in LogEntry
      <3>1. \A i \in 1 .. n : <<"old", i>> \in Keys /\ (IF numbered THEN i ELSE 0) \in Nat
        BY DEF Keys
      <3> QED BY <1>1, <3>1 DEF LogEntry
    <2>2. /\ log \in Seq(LogEntry) /\ Len(log) = n /\ DOMAIN log = 1 .. n
          /\ \A i \in 1 .. n : log[i].key = <<"old", i>> /\ log[i].mid = IF numbered THEN i ELSE 0
      BY <1>2, <2>1, SeqDef, LenProperties
    <2>3. Mids(log) = IF numbered THEN 1 .. n ELSE {}
      <3>1. CASE numbered
        <4>1. {log[i].mid : i \in 1 .. n} = 1 .. n
          BY <2>2, <3>1
        <4>2. 0 \notin 1 .. n
          OBVIOUS
        <4> QED BY <2>2, <3>1, <4>1, <4>2 DEF Mids
      <3>2. CASE ~numbered
        BY <2>2, <3>2 DEF Mids
      <3> QED BY <3>1, <3>2
    <2>4. Ordered(log)
      <3>1. ASSUME NEW i \in DOMAIN log, NEW j \in DOMAIN log, i < j
            PROVE  /\ log[i].key # log[j].key
                   /\ log[i].mid # 0 /\ log[j].mid # 0 => log[i].mid < log[j].mid
        BY <2>2, <3>1
      <3>2. ASSUME Mids(log) # {}
            PROVE  \E i \in DOMAIN log : log[i].mid # 0 /\ \A m \in Mids(log) : m <= log[i].mid
        <4>1. numbered /\ Mids(log) = 1 .. n /\ n \in 1 .. n /\ n # 0
          BY <2>3, <3>2
        <4> QED BY <2>2, <4>1
      <3> QED BY <2>2, <3>1, <3>2 DEF Ordered
    <2> QED BY <2>2, <2>3, <2>4
  <1>3. CASE mover = "off" /\ log \in {[i \in 1 .. n |-> [key |-> <<"old", i>>, mid |-> 0, name |-> "before"]] :
                                      n \in {0, 2}}
    <2>1. PICK n \in {0, 2} :
             log = [i \in 1 .. n |-> [key |-> <<"old", i>>, mid |-> 0, name |-> "before"]]
      BY <1>3
    <2>2. /\ Ordered(log) /\ Len(log) = n /\ Mids(log) = {}
          /\ \A i \in 1 .. n : log[i].key = <<"old", i>>
      BY <1>2, <2>1
    <2>3. OldFirst(log)
      BY <2>2, LenProperties DEF OldFirst, Ordered
    <2> QED BY <1>1, <1>3, <2>2, <2>3, HighestIs DEF ChatInit, ChatInv, HookState
  <1>4. CASE /\ mover = "idle"
             /\ log = [i \in 1 .. BaseMid + 1 |-> [key |-> <<"old", i>>, mid |-> i, name |-> "before"]]
    <2>1. Ordered(log) /\ Mids(log) = 1 .. BaseMid + 1
      <3>1. log = [i \in 1 .. BaseMid + 1 |-> [key |-> <<"old", i>>, mid |-> IF TRUE THEN i ELSE 0,
                                               name |-> "before"]]
        BY <1>4
      <3>2. BaseMid + 1 \in Nat
        BY <1>1
      <3> QED BY <1>2, <3>1, <3>2
    <2>2. BaseMid + 1 \in Mids(log) /\ BaseMid + 1 > BaseMid
      BY <1>1, <2>1
    <2>3. OldFirst(log)
      BY <2>2 DEF OldFirst
    <2>4. \E m \in Mids(log) : m > BaseMid
      BY <2>2
    <2>5. Highest(log) \in Nat
      BY <2>1, HighestIs
    <2>6. /\ counter = Highest(log) /\ owner = Free /\ named = "before" /\ kills = 0 /\ kept = {}
          /\ hook = [h \in Hook |-> [at |-> "idle", name |-> "before"]] /\ tried = [h \in Hook |-> 0]
      BY DEF ChatInit
    <2>7. /\ counter \in Nat /\ named \in Names /\ kills \in 0 .. MaxKills /\ owner = Free
          /\ tried \in [Hook -> 0 .. MaxTries]
      BY <1>1, <2>5, <2>6
    <2>8. hook \in [Hook -> HookState] /\ \A h \in Hook : hook[h].at # "counter"
      BY <1>1, <2>6 DEF HookState
    <2> QED BY <1>4, <2>1, <2>3, <2>4, <2>6, <2>7, <2>8 DEF ChatInv
  <1> QED BY <1>3, <1>4 DEF ChatInit

\* The entries, what they are about and the numbers of a log that stays.
LEMMA LogStays ==
    ASSUME ChatInv, log' = log,
           \A key \in kept' : key \in kept \/ Written(key)
    PROVE  /\ Ordered(log') /\ OldFirst(log') /\ (Behind(log) <=> Behind(log)')
           /\ (\A key \in kept : Written(key))'
  BY SMTT(30) DEF ChatInv, Ordered, OldFirst, Behind, Written

LEMMA HookSteps ==
    ASSUME ChatInv, NEW h \in Hook, ReadName(h) \/ Replay(h) \/ WriteCounter(h) \/ Again(h) \/ HookKilled(h)
    PROVE  ChatInv'
  <1>1. /\ hook \in [Hook -> HookState] /\ hook[h] \in HookState /\ tried \in [Hook -> 0 .. MaxTries]
        /\ named \in Names /\ MaxTries \in Nat /\ MaxKills \in Nat /\ kills \in 0 .. MaxKills
        /\ owner \in {Free, Mover} \cup {[who |-> g] : g \in Hook}
    BY ChatAssumption DEF ChatInv
  <1>2. log' = log /\ UNCHANGED <<named, mover>>
    BY DEF ReadName, Replay, WriteCounter, Again, HookKilled
  <1>3. \A key \in kept' : key \in kept \/ Written(key)
    BY DEF ReadName, Replay, WriteCounter, Again, HookKilled, Written
  <1>4. hook' \in [Hook -> HookState]
    <2>1. CASE ReadName(h)
      BY <1>1, <2>1 DEF ReadName, HookState
    <2>2. CASE Replay(h) \/ WriteCounter(h)
      BY <1>1, <2>2 DEF Replay, WriteCounter, HookState
    <2>3. CASE Again(h) \/ HookKilled(h)
      BY <1>1, <2>3 DEF Again, HookKilled, HookState
    <2> QED BY <2>1, <2>2, <2>3
  <1>5. tried' \in [Hook -> 0 .. MaxTries] /\ kills' \in 0 .. MaxKills
    BY <1>1 DEF ReadName, Replay, WriteCounter, Again, HookKilled
  <1>6. counter' \in Nat
    <2>1. CASE WriteCounter(h)
      <3>1. \A i \in DOMAIN log : log[i].mid \in Nat
        BY ChatLogged DEF ChatInv
      <3> QED BY <2>1, <3>1 DEF WriteCounter
    <2>2. CASE ~WriteCounter(h)
      BY <2>2 DEF ChatInv, ReadName, Replay, Again, HookKilled
    <2> QED BY <2>1, <2>2
  <1>7. owner' = owner \/ owner' = Free
    BY DEF ReadName, Replay, WriteCounter, Again, HookKilled
  <1>8. \A g \in Hook : [who |-> g] # Mover /\ [who |-> g] # Free
    BY ChatAssumption DEF Mover, Free
  <1>9. mover = "counter" => owner' = owner
    <2>1. ASSUME mover = "counter", owner' # owner PROVE FALSE
      <3>1. hook[h].at = "counter"
        BY <2>1 DEF ReadName, Replay, WriteCounter, Again, HookKilled
      <3> QED BY <1>8, <2>1, <3>1 DEF ChatInv
    <2> QED BY <2>1
  <1>10. ASSUME NEW g \in Hook, hook'[g].at = "counter" PROVE owner' = [who |-> g]
    <2>1. hook[g].at = "counter" /\ g # h
      <3>1. CASE ReadName(h)
        BY <1>1, <1>10, <3>1 DEF ReadName
      <3>2. CASE Replay(h) \/ WriteCounter(h)
        BY <1>1, <1>10, <3>2 DEF Replay, WriteCounter, HookState
      <3>3. CASE Again(h) \/ HookKilled(h)
        BY <1>1, <1>10, <3>3 DEF Again, HookKilled, HookState
      <3> QED BY <3>1, <3>2, <3>3
    <2>2. owner = [who |-> g]
      BY <2>1 DEF ChatInv
    <2>3. owner' # owner => hook[h].at = "counter"
      BY DEF ReadName, Replay, WriteCounter, Again, HookKilled
    <2>4. hook[h].at = "counter" => owner = [who |-> h]
      BY DEF ChatInv
    <2>5. [who |-> h] = [who |-> g] => h = g
      <3>1. [who |-> h].who = h /\ [who |-> g].who = g
        OBVIOUS
      <3> QED BY <3>1
    <2> QED BY <2>1, <2>2, <2>3, <2>4, <2>5
  <1>11. owner' \in {Free, Mover} \cup {[who |-> g] : g \in Hook}
    BY <1>1, <1>7
  <1> QED BY <1>1, <1>2, <1>3, <1>4, <1>5, <1>6, <1>9, <1>10, <1>11, LogStays DEF ChatInv

\* An entry that is appended is new, and a message comes above all others.
LEMMA AppendEntryKeeps ==
    ASSUME ChatInv, NEW h \in Hook, AppendEntry(h) PROVE ChatInv'
  <1> DEFINE mid == IF h \in Message THEN NextMid ELSE 0
             e == [key |-> Key(h), name |-> hook[h].name, mid |-> mid]
  <1>1. /\ hook \in [Hook -> HookState] /\ hook[h] \in HookState /\ tried \in [Hook -> 0 .. MaxTries]
        /\ named \in Names /\ MaxTries \in Nat /\ counter \in Nat
        /\ owner = Free /\ ~Written(Key(h)) /\ log' = Append(Migrated, e)
        /\ UNCHANGED <<counter, named, tried, mover, kills>>
        /\ BaseMid \in Nat /\ TargetMid \in Nat
    BY ChatAssumption DEF ChatInv, AppendEntry
  <1>2. /\ Ordered(Migrated) /\ Len(Migrated) = Len(log) /\ DOMAIN Migrated = DOMAIN log
        /\ \A i \in DOMAIN log : Migrated[i].key = log[i].key /\ Migrated[i].name = log[i].name
        /\ Mids(log) # {} => Migrated = log
        /\ OldFirst(Migrated)
    BY MigrationKeeps DEF ChatInv
  <1>3. /\ NextMid \in Nat /\ NextMid # 0 /\ \A m \in Mids(Migrated) : m \in Nat /\ m < NextMid
    <2>1. /\ Highest(Migrated) \in Nat /\ \A m \in Mids(Migrated) : m \in Nat /\ m <= Highest(Migrated)
      BY <1>2, HighestIs, ChatLogged
    <2> QED BY <1>1, <2>1 DEF NextMid
  <1>4. Key(h) \in Keys /\ Key(h) \notin Old
    <2>1. h # "old" /\ tried[h] \in Nat
      BY <1>1, ChatAssumption
    <2> QED BY <2>1 DEF Key, Keys, Old
  <1>5. e \in LogEntry /\ e.key = Key(h) /\ e.mid = mid
    BY <1>1, <1>3, <1>4 DEF LogEntry, HookState
  <1>6. mid # 0 => \A m \in Mids(Migrated) : m < mid
    BY <1>3
  <1>7. \A i \in DOMAIN Migrated : Migrated[i].key # e.key
    BY <1>1, <1>2, <1>5 DEF Written
  <1> HIDE DEF e
  <1>8. /\ Ordered(log') /\ Len(log') = Len(log) + 1
        /\ \A i \in DOMAIN log : i \in DOMAIN log' /\ log'[i] = Migrated[i]
        /\ DOMAIN log' = DOMAIN log \cup {Len(log) + 1}
        /\ log'[Len(log) + 1] = e
        /\ Mids(log') = Mids(Migrated) \cup ({mid} \ {0})
    BY <1>1, <1>2, <1>5, <1>6, <1>7, AppendOrdered
  <1> HIDE DEF mid
  <1>9. Len(log) \in Nat /\ DOMAIN log = 1 .. Len(log)
    BY ChatLogged DEF ChatInv
  <1>10. OldFirst(log')
    <2>1. ASSUME Mids(log') = {}
          PROVE  \/ \A i \in DOMAIN log' : log'[i].key \notin Old
                 \/ /\ Len(log') >= 2 /\ log'[1].key = <<"old", 1>> /\ log'[2].key = <<"old", 2>>
                    /\ \A i \in DOMAIN log' : i > 2 => log'[i].key \notin Old
      <3>1. Mids(Migrated) = {}
        BY <1>8, <2>1
      <3>2. CASE \A i \in DOMAIN Migrated : Migrated[i].key \notin Old
        BY <1>2, <1>4, <1>5, <1>8, <3>2
      <3>3. CASE /\ Len(Migrated) >= 2 /\ Migrated[1].key = <<"old", 1>> /\ Migrated[2].key = <<"old", 2>>
                 /\ \A i \in DOMAIN Migrated : i > 2 => Migrated[i].key \notin Old
        <4>1. 1 \in DOMAIN log /\ 2 \in DOMAIN log
          BY <1>2, <1>9, <3>3
        <4> QED BY <1>2, <1>4, <1>5, <1>8, <1>9, <3>3, <4>1
      <3> QED BY <1>2, <3>1, <3>2, <3>3 DEF OldFirst
    <2> QED BY <2>1 DEF OldFirst
  <1>11. \A i \in DOMAIN log : log'[i].key = log[i].key
    BY <1>2, <1>8
  <1>12. (\A key \in kept : Written(key))'
    <2>1. \A key \in kept' : key \in kept \/ key = Key(h)
      BY DEF AppendEntry
    <2>2. ASSUME NEW key \in kept PROVE \E i \in DOMAIN log' : log'[i].key = key
      <3>1. PICK i \in DOMAIN log : log[i].key = key
        BY DEF ChatInv, Written
      <3> QED BY <1>8, <1>11, <3>1
    <2>3. \E i \in DOMAIN log' : log'[i].key = Key(h)
      BY <1>5, <1>8
    <2>4. \A key \in kept' : \E i \in DOMAIN log' : log'[i].key = key
      BY <2>1, <2>2, <2>3
    <2> QED BY <2>4 DEF Written
  <1>13. mover # "off" => /\ \E m \in Mids(log') : m > BaseMid
                          /\ Mids(log') = Mids(log) \cup ({mid} \ {0})
    <2> SUFFICES ASSUME mover # "off"
                 PROVE  /\ \E m \in Mids(log') : m > BaseMid
                        /\ Mids(log') = Mids(log) \cup ({mid} \ {0})
      OBVIOUS
    <2>1. PICK m \in Mids(log) : m > BaseMid
      BY DEF ChatInv
    <2>2. Migrated = log
      BY <1>2, <2>1
    <2> QED BY <1>8, <2>1, <2>2
  <1>14. mover # "counter"
    <2>1. Mover # Free
      BY DEF Mover, Free
    <2> QED BY <1>1, <2>1 DEF ChatInv
  <1>15. ASSUME mover = "done", Offset > 0 PROVE \A m \in Mids(log') : m > BaseMid => m > TargetMid
    <2>1. PICK k \in Mids(log) : k > BaseMid
      BY <1>15 DEF ChatInv
    <2>2. /\ \A m \in Mids(log) : m > BaseMid => m > TargetMid
          /\ k > TargetMid
      BY <1>15, <2>1 DEF ChatInv, Behind
    <2>3. Migrated = log
      BY <1>2, <2>1
    <2>4. mid # 0 => mid > TargetMid
      <3>1. mid # 0 => mid = NextMid
        BY DEF mid
      <3>2. k \in Nat /\ k < NextMid
        BY <1>3, <2>3
      <3> QED BY <1>1, <1>3, <2>2, <3>1, <3>2
    <2> QED BY <1>13, <1>15, <2>2, <2>4
  <1>16. /\ hook' \in [Hook -> HookState] /\ owner' \in {Free, [who |-> h]}
         /\ \A g \in Hook : hook'[g].at = "counter" => g = h /\ owner' = [who |-> h]
    <2>1. \A g \in Hook : hook[g].at # "counter"
      <3>1. \A g \in Hook : [who |-> g] # Free
        BY ChatAssumption DEF Free
      <3> QED BY <1>1, <3>1 DEF ChatInv
    <2>2. CASE h \in Message
      BY <1>1, <2>1, <2>2, ZenonT(30) DEF AppendEntry, HookState
    <2>3. CASE h \notin Message
      BY <1>1, <2>1, <2>3, ZenonT(30) DEF AppendEntry, HookState
    <2> QED BY <2>2, <2>3
  <1>17. Behind(log)' = (Offset > 0 => \A m \in Mids(log') : m > BaseMid => m > TargetMid)
    BY DEF Behind, Mids, Offset
  <1>18. ((mover # "off" => \E m \in Mids(log) : m > BaseMid) /\ (mover \in {"counter", "done"} => Behind(log)))'
    BY <1>1, <1>13, <1>14, <1>15, <1>17
  <1> QED BY <1>1, <1>8, <1>10, <1>12, <1>14, <1>16, <1>18 DEF ChatInv

\* prepare-merge moves the branch's messages behind the target's, and puts
\* them back when the counter cannot be written.
LEMMA MoverSteps ==
    ASSUME ChatInv, Resequence \/ MoveCounter \/ MoveFails \/ MoverKilled PROVE ChatInv'
  <1>1. /\ Ordered(log) /\ OldFirst(log) /\ UNCHANGED <<named, hook, tried, kept>>
        /\ mover \in {"idle", "counter"} /\ mover' \in {"idle", "counter", "done"}
        /\ owner' \in {Free, Mover} /\ kills' \in 0 .. MaxKills /\ Mover # Free
        /\ BaseMid \in Nat /\ TargetMid \in Nat /\ Offset = TargetMid - BaseMid /\ Offset \in Int
        /\ counter \in Nat /\ kills \in 0 .. MaxKills /\ MaxKills \in Nat
    BY ChatAssumption DEF ChatInv, Resequence, MoveCounter, MoveFails, MoverKilled, Offset, Mover, Free
  <1>2. \A m \in Mids(log) : m \in Nat
    BY <1>1, ChatLogged
  <1>3. \A h \in Hook : hook[h].at # "counter"
    <2>1. \A h \in Hook : [who |-> h] # Mover /\ [who |-> h] # Free
      BY ChatAssumption DEF Mover, Free
    <2>2. owner \in {Free, Mover}
      BY DEF ChatInv, Resequence, MoveCounter, MoveFails, MoverKilled
    <2> QED BY <2>1, <2>2 DEF ChatInv
  <1>4. counter' \in Nat
    BY <1>1, HighestIs DEF Resequence, MoveCounter, MoveFails, MoverKilled
  <1>5. mover' = "counter" => owner' = Mover /\ Offset > 0
    BY <1>1 DEF Resequence, MoveCounter, MoveFails, MoverKilled, MustMove
  <1>6. PICK n \in Mids(log) : n > BaseMid
    BY <1>1 DEF ChatInv
  <1>7. Behind(log)' = (Offset > 0 => \A m \in Mids(log') : m > BaseMid => m > TargetMid)
    BY DEF Behind, Mids, Offset
  \* It is enough to know how the file was written.
  <1>8. ASSUME NEW by \in Int, log' = Moved(log, by) \/ (log' = log /\ by = 0),
               \A m \in Mids(log) : m > BaseMid => m + by > BaseMid,
               mover' \in {"counter", "done"} /\ Offset > 0 =>
                 \A m \in Mids(log) : m > BaseMid => m + by > TargetMid
        PROVE  ChatInv'
    <2>1. /\ Ordered(log') /\ Len(log') = Len(log) /\ DOMAIN log' = DOMAIN log
          /\ \A i \in DOMAIN log : log'[i].key = log[i].key
          /\ Mids(log') = {IF m > BaseMid THEN m + by ELSE m : m \in Mids(log)}
      <3>1. CASE log' = log /\ by = 0
        <4>1. Mids(log) = {IF m > BaseMid THEN m + by ELSE m : m \in Mids(log)}
          BY <1>2, <3>1
        <4> QED BY <1>1, <3>1, <4>1
      <3>2. CASE log' = Moved(log, by)
        BY <1>1, <1>8, <3>2, MoveOrdered
      <3> QED BY <1>8, <3>1, <3>2
    <2>2. \E m \in Mids(log') : m > BaseMid
      BY <1>6, <1>8, <2>1
    <2>3. OldFirst(log')
      BY <2>2 DEF OldFirst
    <2>4. (\A key \in kept : Written(key))'
      <3>1. \A key \in kept : \E i \in DOMAIN log' : log'[i].key = key
        BY <2>1 DEF ChatInv, Written
      <3> QED BY <1>1, <3>1 DEF Written
    <2>5. mover' \in {"counter", "done"} => Behind(log)'
      <3> SUFFICES ASSUME mover' \in {"counter", "done"}, Offset > 0, NEW m \in Mids(log'), m > BaseMid
                   PROVE  m > TargetMid
        BY <1>7
      <3>1. PICK k \in Mids(log) : m = IF k > BaseMid THEN k + by ELSE k
        BY <2>1
      <3> QED BY <1>8, <3>1
    <2>6. ((mover # "off" => \E m \in Mids(log) : m > BaseMid))'
      BY <2>2
    <2> QED BY <1>1, <1>3, <1>4, <1>5, <2>1, <2>3, <2>4, <2>5, <2>6 DEF ChatInv
  <1>9. CASE Resequence
    <2>1. CASE MustMove
      <3>1. log' = Moved(log, Offset) /\ Offset > 0
        BY <1>9, <2>1 DEF Resequence, MustMove
      <3>2. \A m \in Mids(log) : m > BaseMid => m + Offset > BaseMid /\ m + Offset > TargetMid
        BY <1>1, <1>2, <3>1
      <3> QED BY <1>1, <1>8, <3>1, <3>2
    <2>2. CASE ~MustMove
      <3>1. log' = log
        BY <1>9, <2>2 DEF Resequence
      <3>2. Offset > 0 => \A m \in Mids(log) : m > BaseMid => m > TargetMid
        BY <1>1, <1>2, <2>2 DEF MustMove, Own
      <3>3. \A m \in Mids(log) : m + 0 = m
        BY <1>2
      <3>4. 0 \in Int
        OBVIOUS
      <3> QED BY <1>8, <3>1, <3>2, <3>3, <3>4
    <2> QED BY <2>1, <2>2
  <1>10. CASE MoveCounter \/ MoverKilled
    <2>1. log' = log /\ mover = "counter" /\ Behind(log)
      BY <1>10 DEF MoveCounter, MoverKilled, ChatInv
    <2>2. 0 \in Int /\ \A m \in Mids(log) : m + 0 = m
      BY <1>2
    <2> QED BY <1>8, <2>1, <2>2 DEF Behind
  <1>11. CASE MoveFails
    <2>1. log' = Moved(log, -Offset) /\ mover = "counter" /\ mover' = "idle" /\ Behind(log) /\ Offset > 0
      BY <1>11 DEF MoveFails, ChatInv
    <2>2. -Offset \in Int /\ \A m \in Mids(log) : m > BaseMid => m + (-Offset) > BaseMid
      BY <1>1, <1>2, <2>1 DEF Behind
    <2> QED BY <1>8, <2>1, <2>2
  <1> QED BY <1>9, <1>10, <1>11

LEMMA OtherChatSteps ==
    ASSUME ChatInv, Rename \/ TagRead \/ TagWrite \/ UNCHANGED chatVars PROVE ChatInv'
  <1>1. /\ log' = log /\ named' \in Names
        /\ UNCHANGED <<counter, owner, hook, tried, kept, mover, kills>>
    BY DEF Rename, TagRead, TagWrite, chatVars, ChatInv, Names
  <1> QED BY <1>1, LogStays DEF ChatInv

LEMMA ChatInvHolds == ChatSpec => []ChatInv
  <1>1. ASSUME ChatInv, [ChatNext]_chatVars PROVE ChatInv'
    <2>1. ASSUME NEW h \in Hook,
                 ReadName(h) \/ Replay(h) \/ AppendEntry(h) \/ WriteCounter(h) \/ Again(h) \/ HookKilled(h)
          PROVE  ChatInv'
      BY <1>1, <2>1, HookSteps, AppendEntryKeeps
    <2>2. CASE Resequence \/ MoveCounter \/ MoveFails \/ MoverKilled
      BY <1>1, <2>2, MoverSteps
    <2>3. CASE Rename \/ TagRead \/ TagWrite \/ UNCHANGED chatVars
      BY <1>1, <2>3, OtherChatSteps
    <2> QED BY <1>1, <2>1, <2>2, <2>3 DEF ChatNext
  <1> QED BY <1>1, ChatStart, PTL DEF ChatSpec

\* The variables of the chat log have their types.
THEOREM ChatTypes == ChatSpec => []ChatTypeOK
  <1>1. ASSUME ChatInv PROVE ChatTypeOK
    <2>1. \A i \in DOMAIN log : log[i].mid \in Nat /\ log[i].name \in Names
      BY <1>1, ChatLogged DEF ChatInv
    <2>2. \A h \in Hook : hook[h].at \in {"idle", "named", "counter", "done", "refused"}
      BY <1>1 DEF ChatInv, HookState
    <2> QED BY <1>1, <2>1, <2>2 DEF ChatInv, ChatTypeOK
  <1>2. ChatInv => ChatTypeOK
    BY <1>1
  <1> QED BY <1>2, ChatInvHolds, PTL

\* However often hooks are run again, wherever they and prepare-merge are
\* killed, every entry is in the chat log once, what was answered for stays in
\* it, and messages are numbered upwards, the branch's behind the target's.
THEOREM EntriesAlwaysInOrder == ChatSpec => []EntriesOnceInOrder
  <1>1. ChatInv => EntriesOnceInOrder
    BY DEF ChatInv, Ordered, Behind, EntriesOnceInOrder
  <1> QED BY <1>1, ChatInvHolds, PTL

---------------------------------------------------------------------------
(* Edits: type correctness, and that gates are checked in their order.     *)

GateSpec == GateInit /\ [][GateNext]_gateVars

GateLine == [text : Gate, done : BOOLEAN]
Docs == [gates : Seq(GateLine), owner : {Me, "other", "none"}, board : BOOLEAN]

\* A document names no gate twice, and its gates were checked in their order.
Distinct(d) == \A i, j \in DOMAIN d.gates : d.gates[i].text = d.gates[j].text => i = j
InOrder(d) == \A i, j \in DOMAIN d.gates : i < j /\ d.gates[j].done => d.gates[i].done

\* A document has a gate, checked or not.
HasGate(d, g, b) == \E i \in DOMAIN d.gates : d.gates[i].text = g /\ d.gates[i].done = b

\* Of a document and the changes still to be made to it: the gates in X are
\* going to be dropped, the others are in order; and a gate that is going to
\* be checked has no other open one before it.
GoneGates(cs) == {c.gate : c \in {c \in cs : c.op = "drop"}}
OrderBut(d, X) ==
    \A i, j \in DOMAIN d.gates : i < j /\ d.gates[j].done => d.gates[i].done \/ d.gates[i].text \in X
MayCheck(d, g, X) ==
    \A i, j \in DOMAIN d.gates : i < j /\ d.gates[j].text = g => d.gates[i].done \/ d.gates[i].text \in X
Ready(d, cs) ==
    /\ OrderBut(d, GoneGates(cs))
    /\ \A c \in cs : c.op = "check" => MayCheck(d, c.gate, GoneGates(cs))

\* Changes that keep the gates' order: none is opened again or put in front.
Onward(cs) == \A c \in cs : c.op \in {"check", "drop"}

\* What was admitted: a content, or pieces.
CallOK ==
    \/ call = NoCall
    \/ call = [at |-> "applied", tool |-> call.tool] /\ call.tool \in Tool
    \/ /\ call = [at |-> "admitted", tool |-> "Write", changes |-> {}, content |-> call.content]
       /\ call.content \in Docs /\ Distinct(call.content) /\ call.content.board = doc.board
       /\ ~replanned /\ ~Reorders(doc, call.content) => InOrder(call.content)
    \/ /\ call = [at |-> "admitted", tool |-> call.tool, changes |-> call.changes, content |-> NoDoc]
       /\ call.tool \in Tool \ {"Write"} /\ call.changes \in Edits /\ call.changes \subseteq GateChange
       /\ ~replanned /\ Onward(call.changes) => Ready(doc, call.changes)

\* The inductive invariant.
GateInv ==
    /\ doc \in Docs /\ Distinct(doc) /\ pending \in Docs
    /\ cached \in BOOLEAN /\ replanned \in BOOLEAN /\ over \in BOOLEAN /\ edits \in 0 .. MaxEdits
    /\ DoneGates(doc) \subseteq closed /\ recorded \subseteq closed /\ closed \subseteq Gate
    /\ ~replanned => InOrder(doc)
    /\ doc.board => replanned
    /\ CallOK

---------------------------------------------------------------------------
(* Documents                                                               *)

\* Of a nonempty set of positions one is the first.
LEMMA FirstPosition == ASSUME NEW T \in SUBSET Nat, T # {} PROVE \E x \in T : \A y \in T : x <= y
<1> DEFINE R == OpToRel(<, Nat)
<1>1. IsWellFoundedOn(R, Nat)
  BY NatLessThanWellFounded
<1>2. \A x, y \in Nat : x < y => <<x, y>> \in R
  BY SMT DEF OpToRel
<1> HIDE DEF R
<1>3. PICK x \in T : \A y \in T : ~(<<y, x>> \in R)
  BY <1>1, WFMin, Zenon
<1>4. ASSUME NEW y \in T PROVE x <= y
  <2>1. x \in Nat /\ y \in Nat /\ ~(<<y, x>> \in R)
    BY <1>3
  <2>2. ~(y < x)
    BY <1>2, <2>1
  <2>3. QED
    BY <2>1, <2>2
<1>5. QED
  BY <1>4

\* The gates of a document, by position.
LEMMA DocShape ==
    ASSUME NEW d \in Docs
    PROVE  /\ d = [gates |-> d.gates, owner |-> d.owner, board |-> d.board]
           /\ d.gates \in Seq(GateLine) /\ d.board \in BOOLEAN /\ d.owner \in {Me, "other", "none"}
           /\ Len(d.gates) \in Nat /\ DOMAIN d.gates = 1 .. Len(d.gates)
           /\ \A i \in DOMAIN d.gates :
                 /\ d.gates[i] \in GateLine /\ d.gates[i].text \in Gate /\ d.gates[i].done \in BOOLEAN
                 /\ i \in Nat
<1>1. /\ d = [gates |-> d.gates, owner |-> d.owner, board |-> d.board]
      /\ d.gates \in Seq(GateLine) /\ d.board \in BOOLEAN /\ d.owner \in {Me, "other", "none"}
  BY DEF Docs
<1>2. Len(d.gates) \in Nat /\ DOMAIN d.gates = 1 .. Len(d.gates)
  BY <1>1, LenProperties
<1>3. \A i \in DOMAIN d.gates : d.gates[i] \in GateLine
  BY <1>1, <1>2, ElementOfSeq
<1>4. QED
  BY <1>1, <1>2, <1>3 DEF GateLine

LEMMA GatesFinite == IsFiniteSet(Gate)
<1>1. FirstGates \in [1 .. Len(FirstGates) -> Gate] /\ Len(FirstGates) \in Nat
  BY GateAssumption, LenProperties
<1>2. FirstGates \in [1 .. Len(FirstGates) -> ToSet(FirstGates)]
  BY <1>1 DEF ToSet
<1>3. FirstGates \in Surjection(1 .. Len(FirstGates), ToSet(FirstGates))
  BY <1>1, <1>2 DEF Surjection, ToSet
<1>4. IsFiniteSet(ToSet(FirstGates))
  BY <1>1, <1>3, FS_Interval, FS_Surjection
<1>5. QED
  BY <1>4, FS_AddElement DEF Gate

\* The number of gates that are done is one, for it to be compared.
LEMMA DoneCounts ==
    ASSUME NEW d \in Docs
    PROVE  /\ IsFiniteSet(DoneGates(d)) /\ Done(d) \in Nat /\ DoneGates(d) \subseteq Gate
           /\ \A g : g \in DoneGates(d) <=> HasGate(d, g, TRUE)
<1>1. DoneGates(d) \subseteq Gate /\ \A g : g \in DoneGates(d) <=> HasGate(d, g, TRUE)
  BY DocShape DEF DoneGates, HasGate, Open
<1>2. IsFiniteSet(DoneGates(d))
  BY <1>1, GatesFinite, FS_Subset
<1>3. QED
  BY <1>1, <1>2, FS_CardinalityType DEF Done

---------------------------------------------------------------------------
(* What one change does, by position                                       *)

\* Checking a gate, or opening it again, leaves every gate where it is.
LEMMA MarkDoes ==
    ASSUME NEW d \in Docs, NEW c \in GateChange, c.op \in {"check", "reopen"}
    PROVE  LET e == Changed(d, c) IN
           /\ e \in Docs /\ e.owner = d.owner /\ e.board = d.board /\ Len(e.gates) = Len(d.gates)
           /\ \A i \in DOMAIN d.gates :
                 /\ e.gates[i].text = d.gates[i].text
                 /\ e.gates[i].done = IF d.gates[i].text = c.gate THEN c.op = "check" ELSE d.gates[i].done
<1> DEFINE mark(i) == IF d.gates[i].text = c.gate THEN [text |-> c.gate, done |-> c.op = "check"]
                      ELSE d.gates[i]
           gates == [i \in DOMAIN d.gates |-> mark(i)]
           e == Changed(d, c)
<1>1. c.gate \in Gate
  BY DEF GateChange, Gate
<1>2. \A i \in DOMAIN d.gates : mark(i) \in GateLine
  <2>1. (c.op = "check") \in BOOLEAN
    OBVIOUS
  <2>2. \A i \in DOMAIN d.gates : d.gates[i] \in GateLine
    BY DocShape
  <2>3. [text |-> c.gate, done |-> c.op = "check"] \in GateLine
    BY <1>1, <2>1 DEF GateLine
  <2>4. QED
    BY <2>2, <2>3
<1>3. e = [gates |-> gates, owner |-> d.owner, board |-> d.board]
  <2>1. e = [d EXCEPT !.gates = gates]
    BY DEF Changed
  <2> HIDE DEF e, gates
  <2>2. QED
    BY <2>1, DocShape
<1>4. gates \in [1 .. Len(d.gates) -> GateLine]
  BY <1>2, DocShape
<1>5. gates \in Seq(GateLine) /\ Len(gates) = Len(d.gates)
  BY <1>4, DocShape, SeqDef, LenProperties, SMTT(30)
<1>6. e \in Docs /\ e.owner = d.owner /\ e.board = d.board /\ Len(e.gates) = Len(d.gates)
  BY <1>3, <1>5, DocShape DEF Docs
<1>7. \A i \in DOMAIN d.gates : e.gates[i] = mark(i)
  BY <1>3
<1>8. QED
  BY <1>6, <1>7

\* Dropping a gate moves those behind it forward.
LEMMA DropDoes ==
    ASSUME NEW d \in Docs, NEW c \in GateChange, c.op = "drop", Matches(d, c)
    PROVE  LET e == Changed(d, c) IN
           /\ e \in Docs /\ e.owner = d.owner /\ e.board = d.board
           /\ \E k \in DOMAIN d.gates :
                /\ d.gates[k].text = c.gate
                /\ Len(e.gates) = Len(d.gates) - 1
                /\ \A i \in DOMAIN e.gates :
                     e.gates[i] = IF i < k THEN d.gates[i] ELSE d.gates[i + 1]
<1> DEFINE k == CHOOSE i \in Find(d, c.gate) : TRUE
           s == d.gates
           n == Len(s)
           e == Changed(d, c)
<1>1. k \in Find(d, c.gate)
  BY DEF Matches
<1>2. k \in DOMAIN s /\ s[k].text = c.gate
  BY <1>1 DEF Find
<1>3. e = [gates |-> RemoveAt(s, k), owner |-> d.owner, board |-> d.board]
  BY DocShape DEF Changed
<1> HIDE DEF k
<1>4. n \in Nat /\ k \in 1 .. n /\ DOMAIN s = 1 .. n /\ \A i \in 1 .. n : s[i] \in GateLine
  BY <1>2, DocShape
<1> HIDE DEF s
<1>5. /\ SubSeq(s, 1, k - 1) \in Seq(GateLine) /\ Len(SubSeq(s, 1, k - 1)) = k - 1
      /\ \A i \in 1 .. k - 1 : SubSeq(s, 1, k - 1)[i] = s[i]
  <2>1. /\ SubSeq(s, 1, k - 1) \in Seq(GateLine)
        /\ Len(SubSeq(s, 1, k - 1)) = IF 1 <= k - 1 THEN (k - 1) - 1 + 1 ELSE 0
        /\ \A i \in 1 .. (k - 1) - 1 + 1 : SubSeq(s, 1, k - 1)[i] = s[1 + i - 1]
    BY <1>4, SubSeqProperties
  <2>2. QED
    BY <1>4, <2>1
<1>6. /\ SubSeq(s, k + 1, n) \in Seq(GateLine) /\ Len(SubSeq(s, k + 1, n)) = n - k
      /\ \A i \in 1 .. n - k : SubSeq(s, k + 1, n)[i] = s[k + i]
  <2>1. /\ SubSeq(s, k + 1, n) \in Seq(GateLine)
        /\ Len(SubSeq(s, k + 1, n)) = IF k + 1 <= n THEN n - (k + 1) + 1 ELSE 0
        /\ \A i \in 1 .. n - (k + 1) + 1 : SubSeq(s, k + 1, n)[i] = s[(k + 1) + i - 1]
    BY <1>4, SubSeqProperties
  <2>2. QED
    BY <1>4, <2>1
<1>7. /\ RemoveAt(s, k) \in Seq(GateLine) /\ Len(RemoveAt(s, k)) = n - 1
      /\ \A i \in 1 .. n - 1 : RemoveAt(s, k)[i] = IF i < k THEN s[i] ELSE s[i + 1]
  <2> DEFINE a == SubSeq(s, 1, k - 1)
             b == SubSeq(s, k + 1, n)
  <2>1. a \o b \in Seq(GateLine) /\ Len(a \o b) = Len(a) + Len(b)
        /\ \A i \in 1 .. Len(a) + Len(b) : (a \o b)[i] = IF i <= Len(a) THEN a[i] ELSE b[i - Len(a)]
    BY <1>5, <1>6, ConcatProperties
  <2>2. RemoveAt(s, k) = a \o b
    BY DEF RemoveAt
  <2> HIDE DEF a, b
  <2>3. Len(a) = k - 1 /\ Len(b) = n - k
        /\ (\A i \in 1 .. k - 1 : a[i] = s[i]) /\ \A i \in 1 .. n - k : b[i] = s[k + i]
    BY <1>5, <1>6 DEF a, b
  <2>4. Len(a) + Len(b) = n - 1
    BY <1>4, <2>3
  <2>5. ASSUME NEW i \in 1 .. n - 1 PROVE (a \o b)[i] = IF i < k THEN s[i] ELSE s[i + 1]
    <3>1. (a \o b)[i] = IF i <= k - 1 THEN a[i] ELSE b[i - (k - 1)]
      BY <2>1, <2>3, <2>4
    <3>2. CASE i < k
      <4>1. i \in 1 .. k - 1 /\ i <= k - 1
        BY <1>4, <3>2
      <4>2. QED
        BY <2>3, <3>1, <3>2, <4>1
    <3>3. CASE ~(i < k)
      <4>1. i - (k - 1) \in 1 .. n - k /\ ~(i <= k - 1) /\ k + (i - (k - 1)) = i + 1
        BY <1>4, <3>3
      <4>2. b[i - (k - 1)] = s[i + 1]
        BY <2>3, <4>1
      <4>3. QED
        BY <3>1, <3>3, <4>1, <4>2
    <3>4. QED
      BY <3>2, <3>3
  <2>6. QED
    BY <2>1, <2>2, <2>4, <2>5
<1>8. e.gates = RemoveAt(s, k) /\ e.owner = d.owner /\ e.board = d.board
  BY <1>3
<1>9. e \in Docs
  BY <1>3, <1>7, DocShape DEF Docs
<1>10. DOMAIN e.gates = 1 .. n - 1
  BY <1>7, <1>8, <1>9, DocShape
<1> HIDE DEF e
<1>11. k \in DOMAIN d.gates /\ d.gates[k].text = c.gate
  BY <1>2 DEF s
<1>12. Len(e.gates) = Len(d.gates) - 1
  BY <1>7, <1>8 DEF s
<1>13. \A i \in DOMAIN e.gates : e.gates[i] = IF i < k THEN d.gates[i] ELSE d.gates[i + 1]
  BY <1>7, <1>8, <1>10 DEF s
<1>14. QED
  BY <1>8, <1>9, <1>11, <1>12, <1>13 DEF e

\* A new gate in front moves the others back.
LEMMA InsertDoes ==
    ASSUME NEW d \in Docs, NEW c \in GateChange, c.op = "insert"
    PROVE  LET e == Changed(d, c) IN
           /\ e \in Docs /\ e.owner = d.owner /\ e.board = d.board
           /\ Len(e.gates) = Len(d.gates) + 1
           /\ e.gates[1] = [text |-> c.gate, done |-> FALSE]
           /\ \A i \in DOMAIN d.gates : e.gates[i + 1] = d.gates[i]
<1> DEFINE new == [text |-> c.gate, done |-> FALSE]
           e == Changed(d, c)
<1>1. new \in GateLine
  BY DEF GateChange, Gate, GateLine
<1>2. e = [gates |-> <<new>> \o d.gates, owner |-> d.owner, board |-> d.board]
  <2> DEFINE gates == <<new>> \o d.gates
  <2>1. e = [d EXCEPT !.gates = gates]
    BY DEF Changed
  <2> HIDE DEF e, gates
  <2>2. e = [gates |-> gates, owner |-> d.owner, board |-> d.board]
    BY <2>1, DocShape
  <2>3. QED
    BY <2>2 DEF gates
<1> HIDE DEF new
<1>3. <<new>> \in Seq(GateLine) /\ Len(<<new>>) = 1 /\ <<new>>[1] = new
  BY <1>1
<1>4. /\ <<new>> \o d.gates \in Seq(GateLine) /\ Len(<<new>> \o d.gates) = 1 + Len(d.gates)
      /\ \A i \in 1 .. 1 + Len(d.gates) :
            (<<new>> \o d.gates)[i] = IF i <= 1 THEN <<new>>[i] ELSE d.gates[i - 1]
  BY <1>3, DocShape, ConcatProperties
<1>5. e \in Docs /\ e.gates = <<new>> \o d.gates /\ e.owner = d.owner /\ e.board = d.board
  BY <1>2, <1>4, DocShape DEF Docs
<1>6. Len(e.gates) = Len(d.gates) + 1 /\ e.gates[1] = new
  BY <1>3, <1>4, <1>5, DocShape
<1>7. ASSUME NEW i \in DOMAIN d.gates PROVE e.gates[i + 1] = d.gates[i]
  <2>1. Len(d.gates) \in Nat /\ i \in 1 .. Len(d.gates) /\ i \in Nat
    BY DocShape
  <2>2. i + 1 \in 1 .. 1 + Len(d.gates) /\ ~(i + 1 <= 1) /\ (i + 1) - 1 = i
    BY <2>1
  <2>3. QED
    BY <1>4, <1>5, <2>2
<1>8. QED
  BY <1>5, <1>6, <1>7 DEF new

---------------------------------------------------------------------------
(* What one change does, by the gates' texts                               *)

\* Every other gate is what it was; the one that is changed is what the
\* change makes it.
TextsChanged(d, c, e) ==
    /\ e \in Docs /\ e.owner = d.owner /\ e.board = d.board /\ Distinct(e)
    /\ \A g, b : g # c.gate => (HasGate(e, g, b) <=> HasGate(d, g, b))
    /\ c.op = "check" => HasGate(e, c.gate, TRUE) /\ ~HasGate(e, c.gate, FALSE)
    /\ c.op \in {"reopen", "insert"} => HasGate(e, c.gate, FALSE) /\ ~HasGate(e, c.gate, TRUE)
    /\ c.op = "drop" => ~HasGate(e, c.gate, TRUE) /\ ~HasGate(e, c.gate, FALSE)

LEMMA GateOps ==
    ASSUME NEW c \in GateChange
    PROVE  /\ c.op \in {"check", "reopen", "drop", "insert"} /\ c.gate \in Gate
           /\ c.op = "insert" => c.gate = NewGate
  BY DEF GateChange, Gate

LEMMA MarkTexts ==
    ASSUME NEW d \in Docs, NEW c \in GateChange, Distinct(d), Matches(d, c), c.op \in {"check", "reopen"}
    PROVE  TextsChanged(d, c, Changed(d, c))
<1> DEFINE e == Changed(d, c)
<1>1. /\ e \in Docs /\ e.owner = d.owner /\ e.board = d.board /\ Len(e.gates) = Len(d.gates)
      /\ \A i \in DOMAIN d.gates :
            /\ e.gates[i].text = d.gates[i].text
            /\ e.gates[i].done = IF d.gates[i].text = c.gate THEN c.op = "check" ELSE d.gates[i].done
  BY MarkDoes
<1>2. \E i \in DOMAIN d.gates : d.gates[i].text = c.gate
  BY DEF Matches, Find
<1> HIDE DEF e
<1>3. DOMAIN e.gates = DOMAIN d.gates
  BY <1>1, DocShape
<1>4. Distinct(e)
  BY <1>1, <1>3 DEF Distinct
<1>5. \A g, b : g # c.gate => (HasGate(e, g, b) <=> HasGate(d, g, b))
  BY <1>1, <1>3 DEF HasGate
<1>6. \A b : HasGate(e, c.gate, b) <=> b = (c.op = "check")
  <2>1. \A i \in DOMAIN d.gates : d.gates[i].text = c.gate => e.gates[i].done = (c.op = "check")
    BY <1>1
  <2>2. QED
    BY <1>1, <1>2, <1>3, <2>1, Zenon DEF HasGate
<1>7. QED
  BY <1>1, <1>4, <1>5, <1>6 DEF TextsChanged, e

LEMMA DropTexts ==
    ASSUME NEW d \in Docs, NEW c \in GateChange, Distinct(d), Matches(d, c), c.op = "drop"
    PROVE  TextsChanged(d, c, Changed(d, c))
<1> DEFINE e == Changed(d, c)
<1>1. e \in Docs /\ e.owner = d.owner /\ e.board = d.board
  BY DropDoes
<1>2. PICK k \in DOMAIN d.gates :
        /\ d.gates[k].text = c.gate
        /\ Len(e.gates) = Len(d.gates) - 1
        /\ \A i \in DOMAIN e.gates : e.gates[i] = IF i < k THEN d.gates[i] ELSE d.gates[i + 1]
  BY DropDoes
<1> HIDE DEF e
<1> DEFINE n == Len(d.gates)
<1>3. n \in Nat /\ DOMAIN d.gates = 1 .. n /\ k \in 1 .. n /\ DOMAIN e.gates = 1 .. n - 1
  BY <1>1, <1>2, DocShape
<1> HIDE DEF n
<1>4. ASSUME NEW i \in DOMAIN e.gates
      PROVE  \E j \in DOMAIN d.gates : j # k /\ e.gates[i] = d.gates[j] /\ (i < k => j = i) /\ (~(i < k) => j = i + 1)
  <2>1. CASE i < k
    BY <1>2, <1>3, <2>1
  <2>2. CASE ~(i < k)
    <3>1. i + 1 \in DOMAIN d.gates /\ i + 1 # k
      BY <1>3, <2>2
    <3>2. e.gates[i] = d.gates[i + 1]
      BY <1>2, <2>2
    <3>3. QED
      BY <2>2, <3>1, <3>2
  <2>3. QED
    BY <2>1, <2>2
<1>5. ASSUME NEW j \in DOMAIN d.gates, j # k
      PROVE  \E i \in DOMAIN e.gates : e.gates[i] = d.gates[j]
  <2>1. CASE j < k
    BY <1>2, <1>3, <2>1
  <2>2. CASE ~(j < k)
    <3>1. j - 1 \in DOMAIN e.gates /\ ~(j - 1 < k) /\ (j - 1) + 1 = j
      BY <1>3, <1>5, <2>2
    <3>2. e.gates[j - 1] = d.gates[j]
      BY <1>2, <3>1
    <3>3. QED
      BY <3>1, <3>2
  <2>3. QED
    BY <2>1, <2>2
<1>6. \A j \in DOMAIN d.gates : d.gates[j].text = c.gate <=> j = k
  BY <1>2 DEF Distinct
<1>7. Distinct(e)
  <2> SUFFICES ASSUME NEW i \in DOMAIN e.gates, NEW j \in DOMAIN e.gates,
                      e.gates[i].text = e.gates[j].text
               PROVE  i = j
    BY DEF Distinct
  <2>1. PICK p \in DOMAIN d.gates : e.gates[i] = d.gates[p] /\ (i < k => p = i) /\ (~(i < k) => p = i + 1)
    BY <1>4
  <2>2. PICK q \in DOMAIN d.gates : e.gates[j] = d.gates[q] /\ (j < k => q = j) /\ (~(j < k) => q = j + 1)
    BY <1>4
  <2>3. p = q
    BY <2>1, <2>2 DEF Distinct
  <2>4. QED
    BY <1>3, <2>1, <2>2, <2>3
<1>8. \A b : ~HasGate(e, c.gate, b)
  BY <1>4, <1>6 DEF HasGate
<1>9. \A g, b : g # c.gate => (HasGate(e, g, b) <=> HasGate(d, g, b))
  BY <1>2, <1>4, <1>5 DEF HasGate
<1>10. QED
  BY <1>1, <1>7, <1>8, <1>9 DEF TextsChanged, e

LEMMA InsertTexts ==
    ASSUME NEW d \in Docs, NEW c \in GateChange, Distinct(d), Matches(d, c), c.op = "insert"
    PROVE  TextsChanged(d, c, Changed(d, c))
<1> DEFINE e == Changed(d, c)
<1>1. /\ e \in Docs /\ e.owner = d.owner /\ e.board = d.board
      /\ Len(e.gates) = Len(d.gates) + 1
      /\ e.gates[1] = [text |-> c.gate, done |-> FALSE]
      /\ \A i \in DOMAIN d.gates : e.gates[i + 1] = d.gates[i]
  BY InsertDoes
<1>2. \A i \in DOMAIN d.gates : d.gates[i].text # c.gate
  BY DEF Matches, Find
<1> HIDE DEF e
<1> DEFINE n == Len(d.gates)
<1>3. n \in Nat /\ DOMAIN d.gates = 1 .. n /\ DOMAIN e.gates = 1 .. n + 1
  BY <1>1, DocShape
<1> HIDE DEF n
<1>4. ASSUME NEW i \in DOMAIN e.gates, i # 1 PROVE i - 1 \in DOMAIN d.gates /\ e.gates[i] = d.gates[i - 1]
  <2>1. i - 1 \in DOMAIN d.gates /\ (i - 1) + 1 = i
    BY <1>3, <1>4
  <2>2. QED
    BY <1>1, <2>1
<1>5. 1 \in DOMAIN e.gates /\ \A i \in DOMAIN d.gates : i + 1 \in DOMAIN e.gates /\ i + 1 # 1
  BY <1>3
<1>6. Distinct(e)
  <2> SUFFICES ASSUME NEW i \in DOMAIN e.gates, NEW j \in DOMAIN e.gates,
                      e.gates[i].text = e.gates[j].text
               PROVE  i = j
    BY DEF Distinct
  <2> DEFINE new(p) == e.gates[p].text = c.gate
  <2>1. \A p \in DOMAIN e.gates : new(p) <=> p = 1
    <3>1. new(1)
      BY <1>1
    <3>2. ASSUME NEW p \in DOMAIN e.gates, p # 1 PROVE ~new(p)
      <4>1. p - 1 \in DOMAIN d.gates /\ e.gates[p] = d.gates[p - 1]
        BY <1>4, <3>2
      <4>2. QED
        BY <1>2, <4>1
    <3>3. QED
      BY <3>1, <3>2
  <2>2. CASE i = 1 \/ j = 1
    BY <2>1, <2>2
  <2>3. CASE i # 1 /\ j # 1
    <3>1. i - 1 = j - 1
      BY <1>4, <2>3 DEF Distinct
    <3>2. QED
      BY <1>3, <3>1
  <2>4. QED
    BY <2>2, <2>3
<1>7. HasGate(e, c.gate, FALSE) /\ ~HasGate(e, c.gate, TRUE)
  <2>1. HasGate(e, c.gate, FALSE)
    BY <1>1, <1>5 DEF HasGate
  <2>2. \A i \in DOMAIN e.gates : e.gates[i].text = c.gate => e.gates[i].done = FALSE
    BY <1>1, <1>2, <1>4
  <2>3. QED
    BY <2>1, <2>2 DEF HasGate
<1>8. \A g, b : g # c.gate => (HasGate(e, g, b) <=> HasGate(d, g, b))
  <2>1. ASSUME NEW g, NEW b, g # c.gate, HasGate(e, g, b) PROVE HasGate(d, g, b)
    <3>1. PICK i \in DOMAIN e.gates : e.gates[i].text = g /\ e.gates[i].done = b
      BY <2>1 DEF HasGate
    <3>2. i # 1
      BY <1>1, <2>1, <3>1
    <3>3. QED
      BY <1>4, <3>1, <3>2 DEF HasGate
  <2>2. ASSUME NEW g, NEW b, HasGate(d, g, b) PROVE HasGate(e, g, b)
    BY <1>1, <1>5, <2>2 DEF HasGate
  <2>3. QED
    BY <2>1, <2>2
<1>9. QED
  BY <1>1, <1>6, <1>7, <1>8 DEF TextsChanged, e

LEMMA ChangeTexts ==
    ASSUME NEW d \in Docs, NEW c \in GateChange, Distinct(d), Matches(d, c)
    PROVE  TextsChanged(d, c, Changed(d, c))
  BY GateOps, MarkTexts, DropTexts, InsertTexts

---------------------------------------------------------------------------
(* What an edit's changes do together                                      *)

LEMMA CandidateIs ==
    ASSUME NEW d, NEW cs \in Edits, cs \subseteq GateChange
    PROVE  \E c \in cs :
             \/ cs = {c} /\ Candidate(d, cs) = Changed(d, c)
             \/ \E e \in cs : /\ e # c /\ e.gate # c.gate /\ cs = {c, e}
                              /\ Candidate(d, cs) = Changed(Changed(d, c), e)
<1>1. \A c \in HeadChange : c.op \in {"own", "board"}
  BY DEF HeadChange
<1>2. cs \in {{c, e} : c, e \in GateChange} /\ \A c, e \in cs : c # e => c.gate # e.gate
  BY <1>1, GateOps DEF Edits
<1>3. PICK x \in GateChange, y \in GateChange : cs = {x, y}
  BY <1>2
<1> DEFINE c == CHOOSE c \in cs : TRUE
           e == CHOOSE e \in cs \ {c} : TRUE
<1>4. c \in cs
  BY <1>3
<1>5. Candidate(d, cs) = IF cs = {c} THEN Changed(d, c) ELSE Changed(Changed(d, c), e)
  BY DEF Candidate
<1>6. cs # {c} => e \in cs \ {c}
  <2>1. cs # {c} => cs \ {c} # {}
    BY <1>4
  <2>2. QED
    BY <2>1
<1> HIDE DEF c, e
<1>7. CASE cs = {c}
  BY <1>4, <1>5, <1>7
<1>8. CASE cs # {c}
  <2>1. e \in cs /\ e # c /\ cs = {c, e}
    BY <1>3, <1>4, <1>6, <1>8
  <2>2. e.gate # c.gate
    BY <1>2, <1>4, <2>1
  <2>3. QED
    BY <1>4, <1>5, <1>8, <2>1, <2>2
<1>9. QED
  BY <1>7, <1>8

LEMMA MatchesBy ==
    ASSUME NEW d \in Docs, NEW c \in GateChange
    PROVE  Matches(d, c) <=> /\ c.op = "check" => HasGate(d, c.gate, FALSE)
                             /\ c.op = "reopen" => HasGate(d, c.gate, TRUE)
                             /\ c.op = "drop" => HasGate(d, c.gate, TRUE) \/ HasGate(d, c.gate, FALSE)
                             /\ c.op = "insert" => ~HasGate(d, c.gate, TRUE) /\ ~HasGate(d, c.gate, FALSE)
<1>1. \A i \in DOMAIN d.gates : d.gates[i].done \in BOOLEAN
  BY DocShape
<1>2. CASE c.op = "check"
  BY <1>1, <1>2 DEF Matches, Find, HasGate
<1>3. CASE c.op = "reopen"
  BY <1>1, <1>3 DEF Matches, Find, HasGate
<1>4. CASE c.op = "drop"
  BY <1>1, <1>4 DEF Matches, Find, HasGate
<1>5. CASE c.op = "insert"
  BY <1>1, <1>5 DEF Matches, Find, HasGate
<1>6. QED
  BY <1>2, <1>3, <1>4, <1>5, GateOps

LEMMA MatchesStill ==
    ASSUME NEW d \in Docs, NEW c \in GateChange, NEW x \in GateChange, NEW e,
           TextsChanged(d, c, e), x.gate # c.gate, Matches(d, x)
    PROVE  Matches(e, x)
  BY MatchesBy DEF TextsChanged

\* All of them: the document is one that names no gate twice, each changed
\* gate is what its change makes it, and the others are what they were.
LEMMA CandidateTexts ==
    ASSUME NEW d \in Docs, Distinct(d), NEW cs \in Edits, cs \subseteq GateChange, Fits(d, cs)
    PROVE  LET a == Candidate(d, cs) IN
           /\ a \in Docs /\ a.owner = d.owner /\ a.board = d.board /\ Distinct(a)
           /\ \A c \in cs : c.op \in {"reopen", "insert"} => HasGate(a, c.gate, FALSE)
<1> DEFINE a == Candidate(d, cs)
<1> SUFFICES /\ a \in Docs /\ a.owner = d.owner /\ a.board = d.board /\ Distinct(a)
             /\ \A c \in cs : c.op \in {"reopen", "insert"} => HasGate(a, c.gate, FALSE)
  OBVIOUS
<1>1. PICK c \in cs : \/ cs = {c} /\ a = Changed(d, c)
                      \/ \E e \in cs : /\ e # c /\ e.gate # c.gate /\ cs = {c, e}
                                       /\ a = Changed(Changed(d, c), e)
  BY CandidateIs
<1> HIDE DEF a
<1>2. c \in GateChange /\ Matches(d, c)
  BY DEF Fits
<1>3. TextsChanged(d, c, Changed(d, c))
  BY <1>2, ChangeTexts
<1>4. CASE cs = {c} /\ a = Changed(d, c)
  BY <1>3, <1>4 DEF TextsChanged
<1>5. ASSUME NEW e \in cs, e # c, e.gate # c.gate, cs = {c, e}, a = Changed(Changed(d, c), e)
      PROVE  /\ a \in Docs /\ a.owner = d.owner /\ a.board = d.board /\ Distinct(a)
             /\ \A x \in cs : x.op \in {"reopen", "insert"} => HasGate(a, x.gate, FALSE)
  <2> DEFINE m == Changed(d, c)
  <2>1. e \in GateChange /\ Matches(d, e)
    BY DEF Fits
  <2>2. Matches(m, e)
    BY <1>2, <1>3, <1>5, <2>1, MatchesStill
  <2>3. m \in Docs /\ Distinct(m)
    BY <1>3 DEF TextsChanged
  <2>4. TextsChanged(m, e, a)
    BY <1>5, <2>1, <2>2, <2>3, ChangeTexts
  <2> HIDE DEF m
  <2>5. TextsChanged(d, c, m)
    BY <1>3 DEF m
  <2>6. QED
    BY <1>5, <2>4, <2>5 DEF TextsChanged
<1>6. QED
  BY <1>1, <1>4, <1>5

---------------------------------------------------------------------------
(* The order of the gates                                                  *)

LEMMA CheckReady ==
    ASSUME NEW d \in Docs, NEW cs \in SUBSET GateChange, NEW c \in cs, Ready(d, cs), c.op = "check"
    PROVE  Ready(Changed(d, c), cs \ {c})
<1> DEFINE e == Changed(d, c)
           X == GoneGates(cs)
<1>1. /\ e \in Docs /\ Len(e.gates) = Len(d.gates)
      /\ \A i \in DOMAIN d.gates :
            /\ e.gates[i].text = d.gates[i].text
            /\ e.gates[i].done = IF d.gates[i].text = c.gate THEN c.op = "check" ELSE d.gates[i].done
  BY MarkDoes
<1> HIDE DEF e
<1>2. DOMAIN e.gates = DOMAIN d.gates
  BY <1>1, DocShape
<1>3. GoneGates(cs \ {c}) = X
  BY DEF GoneGates
<1>4. OrderBut(d, X) /\ MayCheck(d, c.gate, X) /\ \A x \in cs : x.op = "check" => MayCheck(d, x.gate, X)
  BY DEF Ready
<1> HIDE DEF X
<1>5. \A i \in DOMAIN d.gates : d.gates[i].done => e.gates[i].done
  BY <1>1
<1>6. OrderBut(e, X)
  <2> SUFFICES ASSUME NEW i \in DOMAIN e.gates, NEW j \in DOMAIN e.gates, i < j, e.gates[j].done
               PROVE  e.gates[i].done \/ e.gates[i].text \in X
    BY DEF OrderBut
  <2>1. d.gates[i].done \/ d.gates[i].text \in X
    BY <1>1, <1>2, <1>4 DEF OrderBut, MayCheck
  <2>2. QED
    BY <1>1, <1>2, <1>5, <2>1
<1>7. ASSUME NEW x \in cs, x.op = "check" PROVE MayCheck(e, x.gate, X)
  BY <1>1, <1>2, <1>4, <1>5, <1>7 DEF MayCheck
<1>8. QED
  BY <1>3, <1>6, <1>7 DEF Ready, e

LEMMA DropReady ==
    ASSUME NEW d \in Docs, Distinct(d), NEW cs \in SUBSET GateChange, NEW c \in cs, Ready(d, cs),
           c.op = "drop", Matches(d, c)
    PROVE  Ready(Changed(d, c), cs \ {c})
<1> DEFINE e == Changed(d, c)
           X == GoneGates(cs)
           Y == GoneGates(cs \ {c})
<1>1. e \in Docs
  BY DropDoes
<1>2. PICK k \in DOMAIN d.gates :
        /\ d.gates[k].text = c.gate
        /\ Len(e.gates) = Len(d.gates) - 1
        /\ \A i \in DOMAIN e.gates : e.gates[i] = IF i < k THEN d.gates[i] ELSE d.gates[i + 1]
  BY DropDoes
<1> HIDE DEF e
<1>3. /\ Len(d.gates) \in Nat /\ DOMAIN d.gates = 1 .. Len(d.gates) /\ k \in 1 .. Len(d.gates)
      /\ DOMAIN e.gates = 1 .. Len(d.gates) - 1
  BY <1>1, <1>2, DocShape
<1>4. X \ {c.gate} \subseteq Y
  BY DEF GoneGates
<1>5. OrderBut(d, X) /\ \A x \in cs : x.op = "check" => MayCheck(d, x.gate, X)
  BY DEF Ready
<1> HIDE DEF X, Y
<1> DEFINE from(i) == IF i < k THEN i ELSE i + 1
<1>6. \A i \in DOMAIN e.gates : from(i) \in DOMAIN d.gates /\ from(i) # k
  BY <1>3
<1>7. \A i \in DOMAIN e.gates : e.gates[i] = d.gates[from(i)]
  BY <1>2
<1>8. \A i, j \in DOMAIN e.gates : i < j => from(i) < from(j)
  BY <1>3
<1>9. \A i \in DOMAIN e.gates : e.gates[i].text # c.gate
  BY <1>2, <1>6, <1>7 DEF Distinct
<1> HIDE DEF from
<1>10. OrderBut(e, Y)
  <2> SUFFICES ASSUME NEW i \in DOMAIN e.gates, NEW j \in DOMAIN e.gates, i < j, e.gates[j].done
               PROVE  e.gates[i].done \/ e.gates[i].text \in Y
    BY DEF OrderBut
  <2>1. d.gates[from(i)].done \/ d.gates[from(i)].text \in X
    BY <1>5, <1>6, <1>7, <1>8 DEF OrderBut
  <2>2. QED
    BY <1>4, <1>7, <1>9, <2>1
<1>11. ASSUME NEW x \in cs, x.op = "check" PROVE MayCheck(e, x.gate, Y)
  <2> SUFFICES ASSUME NEW i \in DOMAIN e.gates, NEW j \in DOMAIN e.gates, i < j, e.gates[j].text = x.gate
               PROVE  e.gates[i].done \/ e.gates[i].text \in Y
    BY DEF MayCheck
  <2>1. d.gates[from(i)].done \/ d.gates[from(i)].text \in X
    BY <1>5, <1>6, <1>7, <1>8, <1>11 DEF MayCheck
  <2>2. QED
    BY <1>4, <1>7, <1>9, <2>1
<1>12. QED
  BY <1>10, <1>11 DEF Ready, e, Y

\* A document whose changes are ready is in order when they are made.
LEMMA ReadyInOrder ==
    ASSUME NEW d \in Docs, Distinct(d), NEW cs \in Edits, cs \subseteq GateChange, Fits(d, cs),
           Onward(cs), Ready(d, cs)
    PROVE  InOrder(Candidate(d, cs))
<1>1. \A e : Ready(e, {}) => InOrder(e)
  BY DEF Ready, OrderBut, GoneGates, InOrder
<1>2. PICK c \in cs : \/ cs = {c} /\ Candidate(d, cs) = Changed(d, c)
                      \/ \E e \in cs : /\ e # c /\ e.gate # c.gate /\ cs = {c, e}
                                       /\ Candidate(d, cs) = Changed(Changed(d, c), e)
  BY CandidateIs
<1>3. c \in GateChange /\ Matches(d, c) /\ c.op \in {"check", "drop"}
  BY DEF Fits, Onward
<1>4. TextsChanged(d, c, Changed(d, c))
  BY <1>3, ChangeTexts
<1>5. Ready(Changed(d, c), cs \ {c})
  BY <1>3, CheckReady, DropReady
<1>6. CASE cs = {c} /\ Candidate(d, cs) = Changed(d, c)
  <2>1. cs \ {c} = {}
    BY <1>6
  <2>2. QED
    BY <1>1, <1>5, <1>6, <2>1
<1>7. ASSUME NEW e \in cs, e # c, e.gate # c.gate, cs = {c, e},
             Candidate(d, cs) = Changed(Changed(d, c), e)
      PROVE  InOrder(Candidate(d, cs))
  <2> DEFINE m == Changed(d, c)
  <2>1. e \in GateChange /\ Matches(d, e) /\ e.op \in {"check", "drop"}
    BY DEF Fits, Onward
  <2>2. Matches(m, e) /\ m \in Docs /\ Distinct(m)
    BY <1>3, <1>4, <1>7, <2>1, MatchesStill DEF TextsChanged
  <2>3. cs \ {c} = {e}
    BY <1>7
  <2>4. Ready(m, {e})
    BY <1>5, <2>3
  <2> HIDE DEF m
  <2>5. Ready(Changed(m, e), {e} \ {e})
    BY <2>1, <2>2, <2>4, CheckReady, DropReady
  <2>6. Ready(Changed(m, e), {})
    <3>1. {e} \ {e} = {}
      OBVIOUS
    <3>2. QED
      BY <2>5, <3>1
  <2>7. InOrder(Changed(m, e))
    BY <1>1, <2>6
  <2>8. QED
    BY <1>7, <2>7 DEF m
<1>8. QED
  BY <1>2, <1>6, <1>7

---------------------------------------------------------------------------
(* What validate_task_candidate lets through                               *)

\* How a change moves the count of gates that are done.
LEMMA DoneMoves ==
    ASSUME NEW d \in Docs, Distinct(d), NEW c \in GateChange, NEW e, Matches(d, c), TextsChanged(d, c, e)
    PROVE  /\ c.op = "check" => Done(e) = Done(d) + 1
           /\ c.op = "drop" => Done(e) = IF HasGate(d, c.gate, TRUE) THEN Done(d) - 1 ELSE Done(d)
<1> DEFINE D == DoneGates(d)
           E == DoneGates(e)
<1>1. e \in Docs
  BY DEF TextsChanged
<1>2. /\ IsFiniteSet(D) /\ Cardinality(D) = Done(d) /\ Done(d) \in Nat /\ Done(e) = Cardinality(E)
      /\ (\A g : g \in D <=> HasGate(d, g, TRUE)) /\ \A g : g \in E <=> HasGate(e, g, TRUE)
  BY <1>1, DoneCounts DEF Done
<1> HIDE DEF D, E
<1>3. \A g : g # c.gate => (g \in E <=> g \in D)
  BY <1>2 DEF TextsChanged
<1>4. CASE c.op = "check"
  <2>1. c.gate \in E
    BY <1>2, <1>4 DEF TextsChanged
  <2>2. c.gate \notin D
    <3>1. PICK i \in DOMAIN d.gates : d.gates[i].text = c.gate /\ ~d.gates[i].done
      BY <1>4 DEF Matches, Find
    <3>2. \A j \in DOMAIN d.gates : d.gates[j].text = c.gate => j = i
      BY <3>1 DEF Distinct
    <3>3. QED
      BY <1>2, <3>1, <3>2 DEF HasGate
  <2>3. E = D \cup {c.gate}
    BY <1>3, <2>1
  <2>4. QED
    BY <1>2, <1>4, <2>2, <2>3, FS_AddElement
<1>5. CASE c.op = "drop"
  <2>1. c.gate \notin E
    BY <1>2, <1>5 DEF TextsChanged
  <2>2. E = D \ {c.gate}
    BY <1>3, <2>1
  <2>3. QED
    BY <1>2, <1>5, <2>2, FS_RemoveElement
<1>6. QED
  BY <1>4, <1>5

\* A gate is checked alone: it is the first open one.
LEMMA CheckAlone ==
    ASSUME NEW d \in Docs, Distinct(d), ~d.board, NEW c \in GateChange, c.op = "check", Matches(d, c),
           Valid(d, Changed(d, c)), NEW X
    PROVE  MayCheck(d, c.gate, X)
<1> DEFINE a == Changed(d, c)
<1>1. \A i \in DOMAIN d.gates :
        a.gates[i].done = IF d.gates[i].text = c.gate THEN c.op = "check" ELSE d.gates[i].done
  BY MarkDoes
<1>2. TextsChanged(d, c, a)
  BY ChangeTexts
<1>3. Done(a) = Done(d) + 1 /\ Done(d) \in Nat
  BY <1>2, DoneMoves, DoneCounts
<1>4. PICK i \in FirstOpen(d) : i \in DOMAIN a.gates /\ a.gates[i].done
  BY <1>3 DEF Valid
<1> HIDE DEF a
<1>5. i \in DOMAIN d.gates /\ ~d.gates[i].done /\ \A j \in Open(d) : i <= j
  BY DEF FirstOpen, Open
<1>6. d.gates[i].text = c.gate
  BY <1>1, <1>4, <1>5
<1>7. ASSUME NEW j \in DOMAIN d.gates, NEW m \in DOMAIN d.gates, j < m, d.gates[m].text = c.gate
      PROVE  d.gates[j].done
  <2>1. m = i
    BY <1>5, <1>6, <1>7 DEF Distinct
  <2>2. i \in Nat /\ j \in Nat /\ ~(i <= j)
    BY <1>5, <1>7, <2>1, DocShape
  <2>3. j \notin Open(d)
    BY <1>5, <2>2
  <2>4. QED
    BY <2>3 DEF Open
<1>8. QED
  BY <1>7 DEF MayCheck

\* A gate is checked and another one dropped, in whichever order.
BothDone(d, g, h, a) ==
    \E k \in DOMAIN d.gates :
      /\ d.gates[k].text = h
      /\ DOMAIN a.gates = 1 .. Len(d.gates) - 1 /\ Len(a.gates) = Len(d.gates) - 1
      /\ \A i \in DOMAIN a.gates :
           LET f == IF i < k THEN d.gates[i] ELSE d.gates[i + 1]
           IN a.gates[i].text = f.text /\ (a.gates[i].done <=> f.text = g \/ f.done)

LEMMA CheckThenDrop ==
    ASSUME NEW d \in Docs, NEW c \in GateChange, NEW e \in GateChange, c.op = "check", e.op = "drop",
           Matches(Changed(d, c), e)
    PROVE  BothDone(d, c.gate, e.gate, Changed(Changed(d, c), e))
<1> DEFINE m == Changed(d, c)
           a == Changed(m, e)
<1>1. /\ m \in Docs /\ Len(m.gates) = Len(d.gates)
      /\ \A i \in DOMAIN d.gates :
            /\ m.gates[i].text = d.gates[i].text
            /\ m.gates[i].done = IF d.gates[i].text = c.gate THEN c.op = "check" ELSE d.gates[i].done
  BY MarkDoes
<1> HIDE DEF m
<1>2. Matches(m, e)
  BY DEF m
<1>3. a \in Docs
  BY <1>1, <1>2, DropDoes
<1>4. PICK k \in DOMAIN m.gates :
        /\ m.gates[k].text = e.gate
        /\ Len(a.gates) = Len(m.gates) - 1
        /\ \A i \in DOMAIN a.gates : a.gates[i] = IF i < k THEN m.gates[i] ELSE m.gates[i + 1]
  BY <1>1, <1>2, DropDoes
<1> HIDE DEF a
<1>5. /\ Len(d.gates) \in Nat /\ DOMAIN d.gates = 1 .. Len(d.gates) /\ k \in DOMAIN d.gates
      /\ DOMAIN a.gates = 1 .. Len(d.gates) - 1 /\ Len(a.gates) = Len(d.gates) - 1
  BY <1>1, <1>3, <1>4, DocShape
<1>6. \A i \in DOMAIN d.gates : m.gates[i].text = d.gates[i].text
                              /\ (m.gates[i].done <=> d.gates[i].text = c.gate \/ d.gates[i].done)
  BY <1>1
<1>7. d.gates[k].text = e.gate
  BY <1>4, <1>5, <1>6
<1>8. ASSUME NEW i \in DOMAIN a.gates
      PROVE  LET f == IF i < k THEN d.gates[i] ELSE d.gates[i + 1]
             IN a.gates[i].text = f.text /\ (a.gates[i].done <=> f.text = c.gate \/ f.done)
  <2>1. CASE i < k
    <3>1. i \in DOMAIN d.gates /\ a.gates[i] = m.gates[i]
      BY <1>4, <1>5, <2>1
    <3>2. QED
      BY <1>6, <2>1, <3>1
  <2>2. CASE ~(i < k)
    <3>1. i + 1 \in DOMAIN d.gates /\ a.gates[i] = m.gates[i + 1]
      BY <1>4, <1>5, <2>2
    <3>2. QED
      BY <1>6, <2>2, <3>1
  <2>3. QED
    BY <2>1, <2>2
<1>9. QED
  BY <1>5, <1>7, <1>8 DEF BothDone, a, m

LEMMA DropThenCheck ==
    ASSUME NEW d \in Docs, NEW c \in GateChange, NEW e \in GateChange, c.op = "check", e.op = "drop",
           Matches(d, e)
    PROVE  BothDone(d, c.gate, e.gate, Changed(Changed(d, e), c))
<1> DEFINE m == Changed(d, e)
           a == Changed(m, c)
<1>1. m \in Docs
  BY DropDoes
<1>2. PICK k \in DOMAIN d.gates :
        /\ d.gates[k].text = e.gate
        /\ Len(m.gates) = Len(d.gates) - 1
        /\ \A i \in DOMAIN m.gates : m.gates[i] = IF i < k THEN d.gates[i] ELSE d.gates[i + 1]
  BY DropDoes
<1> HIDE DEF m
<1>3. /\ a \in Docs /\ Len(a.gates) = Len(m.gates)
      /\ \A i \in DOMAIN m.gates :
            /\ a.gates[i].text = m.gates[i].text
            /\ a.gates[i].done = IF m.gates[i].text = c.gate THEN c.op = "check" ELSE m.gates[i].done
  BY <1>1, MarkDoes
<1> HIDE DEF a
<1>4. /\ DOMAIN a.gates = DOMAIN m.gates /\ DOMAIN a.gates = 1 .. Len(d.gates) - 1
      /\ Len(a.gates) = Len(d.gates) - 1
  BY <1>1, <1>2, <1>3, DocShape
<1>5. ASSUME NEW i \in DOMAIN a.gates
      PROVE  LET f == IF i < k THEN d.gates[i] ELSE d.gates[i + 1]
             IN a.gates[i].text = f.text /\ (a.gates[i].done <=> f.text = c.gate \/ f.done)
  BY <1>2, <1>3, <1>4, ZenonT(30)
<1>6. QED
  BY <1>2, <1>4, <1>5 DEF BothDone, a, m

\* Then every gate before the checked one is done, or is the dropped one.
LEMMA CheckAndDrop ==
    ASSUME NEW d \in Docs, Distinct(d), InOrder(d), ~d.board, NEW g, NEW h, NEW a,
           HasGate(d, g, FALSE), BothDone(d, g, h, a), Valid(d, a),
           Done(a) = IF HasGate(d, h, TRUE) THEN Done(d) ELSE Done(d) + 1
    PROVE  MayCheck(d, g, {h})
<1>1. PICK k \in DOMAIN d.gates :
        /\ d.gates[k].text = h
        /\ DOMAIN a.gates = 1 .. Len(d.gates) - 1 /\ Len(a.gates) = Len(d.gates) - 1
        /\ \A i \in DOMAIN a.gates :
             LET f == IF i < k THEN d.gates[i] ELSE d.gates[i + 1]
             IN a.gates[i].text = f.text /\ (a.gates[i].done <=> f.text = g \/ f.done)
  BY DEF BothDone
<1>2. /\ Len(d.gates) \in Nat /\ DOMAIN d.gates = 1 .. Len(d.gates) /\ k \in 1 .. Len(d.gates)
      /\ \A i \in DOMAIN d.gates : i \in Nat /\ d.gates[i].done \in BOOLEAN
  BY DocShape
<1>3. Done(d) \in Nat
  BY DoneCounts
<1>4. HasGate(d, h, TRUE) <=> d.gates[k].done
  BY <1>1, <1>2 DEF HasGate, Distinct
<1>5. CASE ~d.gates[k].done
  <2>1. PICK i \in FirstOpen(d) : i \in DOMAIN a.gates /\ a.gates[i].done
    <3>1. Done(a) = Done(d) + 1 /\ ~(Done(a) <= Done(d))
      <4>1. Done(a) = Done(d) + 1
        BY <1>4, <1>5, Zenon
      <4>2. \A n \in Nat : ~(n + 1 <= n)
        OBVIOUS
      <4>3. QED
        BY <1>3, <4>1, <4>2, Zenon
    <3>2. \E i \in FirstOpen(d) : i \in DOMAIN a.gates /\ a.gates[i].done
      BY <3>1, Zenon DEF Valid
    <3>3. QED
      BY <3>2
  <2>2. i \in DOMAIN d.gates /\ ~d.gates[i].done /\ \A j \in Open(d) : i <= j
    BY DEF FirstOpen, Open
  <2>3. ASSUME NEW j \in DOMAIN d.gates, NEW m \in DOMAIN d.gates, j < m, d.gates[m].text = g,
               ~d.gates[j].done, d.gates[j].text # h
        PROVE  FALSE
    <3>1. i <= j /\ i <= k
      BY <1>5, <2>2, <2>3 DEF Open
    <3>2. CASE i < k
      <4>1. d.gates[i].text = g
        BY <1>1, <2>1, <2>2, <3>2
      <4>2. i = m
        BY <2>2, <2>3, <4>1 DEF Distinct
      <4>3. QED
        BY <1>2, <2>2, <2>3, <3>1, <4>2
    <3>3. CASE i = k
      <4>1. k + 1 \in DOMAIN d.gates /\ (d.gates[k + 1].text = g \/ d.gates[k + 1].done)
        BY <1>1, <1>2, <2>1, <3>3, SMTT(20)
      <4>2. ~d.gates[k + 1].done
        BY <1>2, <1>5, <4>1 DEF InOrder
      <4>3. m = k + 1
        BY <2>3, <4>1, <4>2 DEF Distinct
      <4>4. j = k
        BY <1>2, <2>3, <3>1, <3>3, <4>3
      <4>5. QED
        BY <1>1, <2>3, <4>4
    <3>4. QED
      BY <1>2, <2>2, <3>1, <3>2, <3>3
  <2>4. QED
    BY <2>3 DEF MayCheck
<1>6. CASE d.gates[k].done
  <2>1. \A i \in FirstOpen(d) : i \in DOMAIN a.gates /\ a.gates[i].text = d.gates[i].text
    BY <1>1, <1>2, <1>3, <1>4, <1>6 DEF Valid
  <2>2. Open(d) \in SUBSET Nat /\ Open(d) # {}
    BY <1>2 DEF Open, HasGate
  <2>3. PICK i \in Open(d) : \A j \in Open(d) : i <= j
    BY <2>2, FirstPosition
  <2>4. i \in FirstOpen(d) /\ i \in DOMAIN d.gates /\ ~d.gates[i].done
    BY <2>3 DEF FirstOpen, Open
  <2>5. ~(i < k)
    BY <1>6, <2>4 DEF InOrder
  <2>6. i \in DOMAIN a.gates /\ d.gates[i + 1].text = d.gates[i].text
    BY <1>1, <2>1, <2>4, <2>5
  <2>7. i + 1 \in DOMAIN d.gates /\ i + 1 # i
    BY <1>1, <1>2, <2>6
  <2>8. QED
    BY <2>4, <2>6, <2>7 DEF Distinct
<1>7. QED
  BY <1>5, <1>6, <1>2

LEMMA CountsApart ==
    /\ \A n \in Nat : n + 1 # n + 2 /\ ~(n + 2 <= n) /\ (n + 1) + 1 = n + 2
    /\ \A n \in Nat : (n + 1) - 1 = n /\ (n - 1) + 1 = n
  OBVIOUS

\* An edit that is let through, and opens no gate again and puts none in
\* front, checks a gate only if the open ones before it go.
LEMMA ValidReady ==
    ASSUME NEW d \in Docs, Distinct(d), InOrder(d), ~d.board, NEW cs \in Edits, cs \subseteq GateChange,
           Fits(d, cs), Onward(cs), Valid(d, Candidate(d, cs))
    PROVE  Ready(d, cs)
<1> DEFINE X == GoneGates(cs)
<1>1. OrderBut(d, X)
  BY DEF InOrder, OrderBut
<1> SUFFICES ASSUME NEW x \in cs, x.op = "check" PROVE MayCheck(d, x.gate, X)
  BY <1>1 DEF Ready
<1>2. PICK c \in cs : \/ cs = {c} /\ Candidate(d, cs) = Changed(d, c)
                      \/ \E e \in cs : /\ e # c /\ e.gate # c.gate /\ cs = {c, e}
                                       /\ Candidate(d, cs) = Changed(Changed(d, c), e)
  BY CandidateIs
<1>3. c \in GateChange /\ Matches(d, c) /\ c.op \in {"check", "drop"}
  BY DEF Fits, Onward
<1>4. CASE cs = {c} /\ Candidate(d, cs) = Changed(d, c)
  <2>1. x = c /\ Valid(d, Changed(d, c))
    BY <1>4
  <2>2. QED
    BY <1>3, <2>1, CheckAlone
<1>5. ASSUME NEW e \in cs, e # c, e.gate # c.gate, cs = {c, e},
             Candidate(d, cs) = Changed(Changed(d, c), e)
      PROVE  MayCheck(d, x.gate, X)
  <2> DEFINE m == Changed(d, c)
             a == Changed(m, e)
  <2>1. e \in GateChange /\ Matches(d, e) /\ e.op \in {"check", "drop"}
    BY DEF Fits, Onward
  <2>2. TextsChanged(d, c, m)
    BY <1>3, ChangeTexts
  <2>3. m \in Docs /\ Distinct(m) /\ Matches(m, e)
    BY <1>3, <1>5, <2>1, <2>2, MatchesStill DEF TextsChanged
  <2>4. TextsChanged(m, e, a)
    BY <2>1, <2>3, ChangeTexts
  <2>5. Valid(d, a)
    BY <1>5
  <2>6. Done(d) \in Nat /\ Done(m) \in Nat
    BY <2>3, DoneCounts
  <2>7. /\ c.op = "check" => Done(m) = Done(d) + 1
        /\ c.op = "drop" => Done(m) = IF HasGate(d, c.gate, TRUE) THEN Done(d) - 1 ELSE Done(d)
    BY <1>3, <2>2, DoneMoves
  <2>8. /\ e.op = "check" => Done(a) = Done(m) + 1
        /\ e.op = "drop" => Done(a) = IF HasGate(m, e.gate, TRUE) THEN Done(m) - 1 ELSE Done(m)
    BY <2>1, <2>3, <2>4, DoneMoves
  <2>9. HasGate(m, e.gate, TRUE) <=> HasGate(d, e.gate, TRUE)
    BY <1>5, <2>2, Zenon DEF TextsChanged
  <2>10. CASE c.op = "check" /\ e.op = "check"
    <3>1. Done(a) = Done(d) + 2
      BY <2>6, <2>7, <2>8, <2>10, CountsApart
    <3>2. QED
      BY <2>5, <2>6, <3>1, CountsApart, Zenon DEF Valid
  <2>11. CASE c.op = "check" /\ e.op = "drop"
    <3>1. x = c /\ X = {e.gate}
      BY <1>5, <2>11 DEF GoneGates
    <3>2. BothDone(d, c.gate, e.gate, a)
      BY <1>3, <2>1, <2>3, <2>11, CheckThenDrop
    <3>3. HasGate(d, c.gate, FALSE)
      BY <1>3, <2>11, MatchesBy
    <3>4. Done(a) = IF HasGate(d, e.gate, TRUE) THEN Done(d) ELSE Done(d) + 1
      BY <2>6, <2>7, <2>8, <2>9, <2>11, CountsApart, Zenon
    <3> HIDE DEF a
    <3>5. QED
      BY <2>5, <3>1, <3>2, <3>3, <3>4, CheckAndDrop
  <2>12. CASE c.op = "drop" /\ e.op = "check"
    <3>1. x = e /\ X = {c.gate}
      BY <1>5, <2>12 DEF GoneGates
    <3>2. BothDone(d, e.gate, c.gate, a)
      BY <1>3, <2>1, <2>12, DropThenCheck
    <3>3. HasGate(d, e.gate, FALSE)
      BY <2>1, <2>12, MatchesBy
    <3>4. Done(a) = IF HasGate(d, c.gate, TRUE) THEN Done(d) ELSE Done(d) + 1
      BY <2>6, <2>7, <2>8, <2>12, CountsApart, Zenon
    <3> HIDE DEF a
    <3>5. QED
      BY <2>5, <3>1, <3>2, <3>3, <3>4, CheckAndDrop
  <2>13. QED
    BY <1>3, <1>5, <2>1, <2>10, <2>11, <2>12
<1>6. QED
  BY <1>2, <1>4, <1>5

---------------------------------------------------------------------------
(* The invariant                                                           *)

LEMMA GateStart == GateInit => GateInv
<1> SUFFICES ASSUME GateInit PROVE GateInv
  OBVIOUS
<1> DEFINE gates == [i \in DOMAIN FirstGates |-> [text |-> FirstGates[i], done |-> FALSE]]
<1>1. PICK b \in BOOLEAN : doc = [owner |-> "none", board |-> b, gates |-> gates] /\ replanned = b
  BY DEF GateInit
<1>2. FirstGates \in Seq(Gate) /\ Len(FirstGates) \in Nat /\ DOMAIN FirstGates = 1 .. Len(FirstGates)
      /\ (\A i \in DOMAIN FirstGates : FirstGates[i] \in Gate) /\ MaxEdits \in Nat
      /\ \A i, j \in DOMAIN FirstGates : FirstGates[i] = FirstGates[j] => i = j
  BY GateAssumption, LenProperties, ElementOfSeq
<1>3. gates \in [1 .. Len(FirstGates) -> GateLine]
  BY <1>2 DEF GateLine
<1>4. gates \in Seq(GateLine)
  BY <1>2, <1>3, SeqDef
<1>5. DOMAIN gates = DOMAIN FirstGates /\ \A i \in DOMAIN gates : gates[i].text = FirstGates[i] /\ ~gates[i].done
  OBVIOUS
<1> HIDE DEF gates
<1>6. doc \in Docs /\ doc.gates = gates /\ doc.board = b
  BY <1>1, <1>4 DEF Docs
<1>7. Distinct(doc) /\ InOrder(doc) /\ DoneGates(doc) = {}
  BY <1>2, <1>5, <1>6 DEF Distinct, InOrder, DoneGates, Open
<1>8. NoDoc \in Docs
  <2>1. <<>> \in Seq(GateLine)
    BY EmptySeq
  <2>2. QED
    BY <2>1 DEF NoDoc, Docs
<1>9. /\ cached = FALSE /\ call = NoCall /\ pending = NoDoc /\ recorded = {} /\ closed = {}
      /\ over = FALSE /\ edits = 0
  BY DEF GateInit
<1>10. CallOK
  BY <1>9 DEF CallOK
<1>11. edits \in 0 .. MaxEdits
  BY <1>2, <1>9
<1>12. QED
  BY <1>1, <1>6, <1>7, <1>8, <1>9, <1>10, <1>11 DEF GateInv

\* Steps that leave the gates alone, and the call with them.
LEMMA GatesStay ==
    ASSUME GateInv, doc' \in Docs, doc'.gates = doc.gates, doc'.board = doc.board,
           UNCHANGED <<call, recorded, closed, replanned, edits>>,
           cached' \in BOOLEAN, over' \in BOOLEAN, pending' \in Docs
    PROVE  GateInv'
<1>1. Distinct(doc)' /\ DoneGates(doc)' = DoneGates(doc) /\ (InOrder(doc) => InOrder(doc)')
  BY DEF GateInv, Distinct, DoneGates, Open, InOrder
<1>2. \A cs : Ready(doc, cs) => (Ready(doc, cs))'
  BY DEF Ready, OrderBut, MayCheck
<1>3. \A e : Reorders(doc, e) => Reorders(doc', e)
  BY DEF Reorders, Find
<1>4. \A e : (Reorders(doc, e))' <=> Reorders(doc', e)
  BY DEF Reorders, Find
<1>5. CallOK'
  <2>1. CASE call = NoCall
    BY <2>1 DEF CallOK
  <2>2. CASE call = [at |-> "applied", tool |-> call.tool] /\ call.tool \in Tool
    BY <2>2 DEF CallOK
  <2>3. CASE /\ call = [at |-> "admitted", tool |-> "Write", changes |-> {}, content |-> call.content]
             /\ call.content \in Docs /\ Distinct(call.content) /\ call.content.board = doc.board
             /\ ~replanned /\ ~Reorders(doc, call.content) => InOrder(call.content)
    <3>1. ~replanned' /\ ~(Reorders(doc, call.content))' => InOrder(call.content)
      BY <1>3, <1>4, <2>3
    <3>2. QED
      BY <2>3, <3>1 DEF CallOK
  <2>4. CASE /\ call = [at |-> "admitted", tool |-> call.tool, changes |-> call.changes, content |-> NoDoc]
             /\ call.tool \in Tool \ {"Write"} /\ call.changes \in Edits /\ call.changes \subseteq GateChange
             /\ ~replanned /\ Onward(call.changes) => Ready(doc, call.changes)
    <3>1. ~replanned' /\ Onward(call.changes)' => Ready(doc, call.changes)'
      BY <1>2, <2>4 DEF Onward, Ready, OrderBut, MayCheck, GoneGates
    <3>2. QED
      BY <2>4, <3>1 DEF CallOK
  <2>5. QED
    BY <2>1, <2>2, <2>3, <2>4 DEF GateInv, CallOK
<1>6. QED
  BY <1>1, <1>5 DEF GateInv

\* The next gate is closed, by the owner's command, while an edit is under way.
LEMMA CompleteKeeps == ASSUME GateInv, CompleteNext PROVE GateInv'
<1>1. PICK k \in FirstOpen(doc) :
        doc' = [doc EXCEPT !.gates[k].done = TRUE] /\ closed' = closed \cup {doc.gates[k].text}
  BY DEF CompleteNext
<1>2. UNCHANGED <<cached, call, pending, recorded, replanned, over, edits>>
  BY DEF CompleteNext
<1>3. doc \in Docs
  BY DEF GateInv
<1>4. /\ Len(doc.gates) \in Nat /\ DOMAIN doc.gates = 1 .. Len(doc.gates)
      /\ \A i \in DOMAIN doc.gates : doc.gates[i] \in GateLine /\ doc.gates[i].done \in BOOLEAN
                                  /\ doc.gates[i].text \in Gate /\ i \in Nat
  BY <1>3, DocShape
<1>5. k \in DOMAIN doc.gates /\ ~doc.gates[k].done /\ \A j \in DOMAIN doc.gates : j < k => doc.gates[j].done
  <2>1. k \in DOMAIN doc.gates /\ ~doc.gates[k].done /\ \A j \in Open(doc) : k <= j
    BY DEF FirstOpen, Open
  <2>2. ASSUME NEW j \in DOMAIN doc.gates, j < k PROVE doc.gates[j].done
    <3>1. ~(k <= j)
      BY <1>4, <2>1, <2>2
    <3>2. QED
      BY <2>1, <3>1 DEF Open
  <2>3. QED
    BY <2>1, <2>2
<1> DEFINE gates == [i \in DOMAIN doc.gates |-> [doc.gates[i] EXCEPT !.done = IF i = k THEN TRUE ELSE @]]
<1>6. doc' = [gates |-> gates, owner |-> doc.owner, board |-> doc.board]
  <2>1. doc.gates \in [DOMAIN doc.gates -> GateLine]
    BY <1>3, <1>4, LenProperties, DocShape
  <2>2. [doc.gates EXCEPT ![k].done = TRUE] = gates
    BY <1>4, <1>5, <2>1 DEF GateLine
  <2>3. doc' = [doc EXCEPT !.gates = [doc.gates EXCEPT ![k].done = TRUE]]
    BY <1>1
  <2>4. doc' = [doc EXCEPT !.gates = gates]
    BY <2>2, <2>3
  <2> HIDE DEF gates
  <2>5. QED
    BY <1>3, <2>4, DocShape
<1>7. \A i \in DOMAIN doc.gates : /\ gates[i] \in GateLine /\ gates[i].text = doc.gates[i].text
                                  /\ gates[i].done = IF i = k THEN TRUE ELSE doc.gates[i].done
  BY <1>4 DEF GateLine
<1>8. DOMAIN gates = DOMAIN doc.gates /\ gates \in Seq(GateLine)
  <2>1. gates \in [1 .. Len(doc.gates) -> GateLine]
    BY <1>4, <1>7
  <2>2. DOMAIN gates = DOMAIN doc.gates
    OBVIOUS
  <2> HIDE DEF gates
  <2>3. QED
    BY <1>4, <2>1, <2>2, SeqDef
<1> HIDE DEF gates
<1>9. doc' \in Docs /\ doc'.gates = gates /\ doc'.board = doc.board
  BY <1>3, <1>6, <1>8, DocShape DEF Docs
<1>10. Distinct(doc)'
  BY <1>7, <1>8, <1>9 DEF GateInv, Distinct
<1>11. DoneGates(doc)' = DoneGates(doc) \cup {doc.gates[k].text}
  <2>1. DoneGates(doc)' = {doc'.gates[i].text : i \in {i \in DOMAIN doc'.gates : doc'.gates[i].done}}
    BY DEF DoneGates, Open
  <2>2. DoneGates(doc) = {doc.gates[i].text : i \in {i \in DOMAIN doc.gates : doc.gates[i].done}}
    BY DEF DoneGates, Open
  <2>3. {i \in DOMAIN gates : gates[i].done} = {i \in DOMAIN doc.gates : doc.gates[i].done} \cup {k}
    BY <1>5, <1>7, <1>8
  <2>4. \A i \in DOMAIN gates : gates[i].text = doc.gates[i].text
    BY <1>7, <1>8
  <2>5. QED
    BY <1>5, <1>8, <1>9, <2>1, <2>2, <2>3, <2>4
<1>12. InOrder(doc) => InOrder(doc)'
  <2> SUFFICES ASSUME InOrder(doc), NEW i \in DOMAIN gates, NEW j \in DOMAIN gates, i < j, gates[j].done
               PROVE  gates[i].done
    BY <1>9 DEF InOrder
  <2>1. CASE j = k
    BY <1>5, <1>7, <1>8, <2>1
  <2>2. CASE j # k
    BY <1>7, <1>8, <2>2 DEF InOrder
  <2>3. QED
    BY <2>1, <2>2
<1>13. ASSUME NEW cs, Ready(doc, cs) PROVE Ready(doc', cs)
  <2> DEFINE X == GoneGates(cs)
  <2>1. OrderBut(doc, X) /\ \A c \in cs : c.op = "check" => MayCheck(doc, c.gate, X)
    BY <1>13 DEF Ready
  <2> HIDE DEF X
  <2>2. OrderBut(doc', X)
    <3> SUFFICES ASSUME NEW i \in DOMAIN gates, NEW j \in DOMAIN gates, i < j, gates[j].done
                 PROVE  gates[i].done \/ gates[i].text \in X
      BY <1>9 DEF OrderBut
    <3>1. CASE j = k
      BY <1>5, <1>7, <1>8, <3>1
    <3>2. CASE j # k
      BY <1>7, <1>8, <2>1, <3>2 DEF OrderBut
    <3>3. QED
      BY <3>1, <3>2
  <2>3. ASSUME NEW c \in cs, c.op = "check" PROVE MayCheck(doc', c.gate, X)
    BY <1>7, <1>8, <1>9, <2>1, <2>3 DEF MayCheck
  <2>4. QED
    BY <2>2, <2>3 DEF Ready, X
<1>14. \A e : Reorders(doc, e) => (Reorders(doc, e))'
  <2>1. closed \subseteq closed'
    BY <1>1
  <2>2. \A g : Find(doc, g) = Find(doc', g)
    BY <1>7, <1>8, <1>9 DEF Find
  <2>3. QED
    BY <2>1, <2>2 DEF Reorders
<1>15. CallOK'
  <2>1. CASE call = NoCall
    BY <1>2, <2>1 DEF CallOK
  <2>2. CASE call = [at |-> "applied", tool |-> call.tool] /\ call.tool \in Tool
    BY <1>2, <2>2 DEF CallOK
  <2>3. CASE /\ call = [at |-> "admitted", tool |-> "Write", changes |-> {}, content |-> call.content]
             /\ call.content \in Docs /\ Distinct(call.content) /\ call.content.board = doc.board
             /\ ~replanned /\ ~Reorders(doc, call.content) => InOrder(call.content)
    <3>1. ~replanned' /\ ~(Reorders(doc, call.content))' => InOrder(call.content)
      BY <1>2, <1>14, <2>3
    <3>2. QED
      BY <1>2, <1>9, <2>3, <3>1 DEF CallOK
  <2>4. CASE /\ call = [at |-> "admitted", tool |-> call.tool, changes |-> call.changes, content |-> NoDoc]
             /\ call.tool \in Tool \ {"Write"} /\ call.changes \in Edits /\ call.changes \subseteq GateChange
             /\ ~replanned /\ Onward(call.changes) => Ready(doc, call.changes)
    <3>1. ~replanned' /\ Onward(call.changes) => Ready(doc', call.changes)
      BY <1>2, <1>13, <2>4
    <3>2. QED
      BY <1>2, <2>4, <3>1 DEF CallOK
  <2>5. QED
    BY <2>1, <2>2, <2>3, <2>4 DEF GateInv, CallOK
<1>16. DoneGates(doc)' \subseteq closed' /\ recorded' \subseteq closed' /\ closed' \subseteq Gate
  BY <1>1, <1>2, <1>4, <1>5, <1>11 DEF GateInv
<1>17. QED
  BY <1>2, <1>9, <1>10, <1>12, <1>15, <1>16 DEF GateInv

\* An edit that opens a closed gate again, or puts one in front, shows it.
LEMMA OnwardOr ==
    ASSUME NEW d \in Docs, Distinct(d), DoneGates(d) \subseteq closed, NEW cs \in Edits, cs \subseteq GateChange,
           Fits(d, cs), ~Reorders(d, Candidate(d, cs))
    PROVE  Onward(cs)
<1> DEFINE a == Candidate(d, cs)
<1>1. a \in Docs /\ \A c \in cs : c.op \in {"reopen", "insert"} => HasGate(a, c.gate, FALSE)
  BY CandidateTexts
<1> HIDE DEF a
<1>2. ~Reorders(d, a)
  BY DEF a
<1>3. ASSUME NEW c \in cs, c.op \in {"reopen", "insert"} PROVE FALSE
  <2>1. PICK i \in DOMAIN a.gates : a.gates[i].text = c.gate /\ a.gates[i].done = FALSE
    BY <1>1, <1>3 DEF HasGate
  <2>2. c \in GateChange /\ Matches(d, c)
    BY DEF Fits
  <2>3. CASE c.op = "reopen"
    <3>1. HasGate(d, c.gate, TRUE)
      BY <2>2, <2>3, MatchesBy
    <3>2. c.gate \in closed
      BY <3>1, DoneCounts
    <3>3. QED
      BY <1>2, <2>1, <3>2 DEF Reorders, Open
  <2>4. CASE c.op = "insert"
    BY <1>2, <2>1, <2>2, <2>4 DEF Reorders, Matches
  <2>5. QED
    BY <1>3, <2>3, <2>4
<1>4. QED
  BY <1>3, GateOps DEF Onward

\* The hook before an edit lets through only what the session may do to its
\* own task, and then no heading changes.
LEMMA Admitted ==
    ASSUME GateInv, NEW tool \in Tool, NEW cs \in Edits, Admit(tool, cs)
    PROVE  Valid(doc, Candidate(doc, cs)) /\ cs \subseteq GateChange
<1> DEFINE valid == Valid(doc, Candidate(doc, cs))
<1>1. IF tool = "apply_patch" THEN PatchAdmits({"own task"}, valid) ELSE PolicyAdmits("own task", valid)
  BY Zenon DEF Admit
<1> HIDE DEF valid
<1>2. doc.owner = Me /\ valid
  BY <1>1 DEF PatchAdmits, PolicyAdmits, Active
<1>3. CASE cs \in {{c} : c \in HeadChange}
  <2>1. PICK c \in HeadChange : cs = {c}
    BY <1>3
  <2>2. Candidate(doc, cs) = Changed(doc, c)
    <3> DEFINE e == CHOOSE e \in cs : TRUE
    <3>1. e = c
      BY <2>1
    <3>2. Candidate(doc, cs) = IF cs = {e} THEN Changed(doc, e)
                               ELSE Changed(Changed(doc, e), CHOOSE x \in cs \ {e} : TRUE)
      BY DEF Candidate
    <3> HIDE DEF e
    <3>3. QED
      BY <2>1, <3>1, <3>2
  <2>3. Changed(doc, c).owner = doc.owner /\ Changed(doc, c).board = doc.board
    BY <1>2, <2>2 DEF valid, Valid
  <2>4. doc = [gates |-> doc.gates, owner |-> doc.owner, board |-> doc.board] /\ doc.board \in BOOLEAN
    BY DocShape DEF GateInv
  <2>5. CASE c.op = "own"
    <3>1. Changed(doc, c) = [doc EXCEPT !.owner = "none"]
      BY <2>5 DEF Changed
    <3>2. Changed(doc, c).owner = "none"
      BY <2>4, <3>1
    <3>3. QED
      BY <1>2, <2>3, <3>2 DEF Me
  <2>6. CASE c.op = "board"
    <3>1. Changed(doc, c) = [doc EXCEPT !.board = ~doc.board]
      BY <2>6 DEF Changed
    <3>2. Changed(doc, c).board = ~doc.board
      BY <2>4, <3>1
    <3>3. QED
      BY <2>3, <2>4, <3>2
  <2>7. QED
    BY <2>5, <2>6 DEF HeadChange
<1>4. CASE cs \notin {{c} : c \in HeadChange}
  BY <1>2, <1>4 DEF Edits, valid
<1>5. QED
  BY <1>3, <1>4

LEMMA AdmitKeeps ==
    ASSUME GateInv, NEW tool \in Tool, NEW cs \in Edits, Admit(tool, cs)
    PROVE  GateInv'
<1> DEFINE a == Candidate(doc, cs)
<1>1. Valid(doc, a) /\ cs \subseteq GateChange
  BY Admitted
<1>2. /\ Fits(doc, cs) /\ edits < MaxEdits /\ edits' = edits + 1
      /\ UNCHANGED <<doc, cached, recorded, closed, replanned, over>>
      /\ pending' = IF tool = "apply_patch" THEN doc ELSE pending
      /\ call' = [at |-> "admitted", tool |-> tool, changes |-> IF tool = "Write" THEN {} ELSE cs,
                  content |-> IF tool = "Write" THEN a ELSE NoDoc]
  BY Zenon DEF Admit
<1>3. doc \in Docs /\ Distinct(doc) /\ DoneGates(doc) \subseteq closed
  BY DEF GateInv
<1>4. a \in Docs /\ Distinct(a) /\ a.board = doc.board
  BY <1>1, <1>2, <1>3, CandidateTexts
<1>5. ~replanned /\ Onward(cs) => Ready(doc, cs)
  <2> SUFFICES ASSUME ~replanned, Onward(cs) PROVE Ready(doc, cs)
    OBVIOUS
  <2>1. InOrder(doc) /\ ~doc.board
    BY DEF GateInv
  <2>2. QED
    BY <1>1, <1>2, <1>3, <2>1, ValidReady
<1>6. ~replanned /\ ~Reorders(doc, a) => InOrder(a)
  BY <1>1, <1>2, <1>3, <1>5, OnwardOr, ReadyInOrder
<1> HIDE DEF a
<1>7. doc' = doc /\ closed' = closed /\ replanned' = replanned
  BY <1>2
<1>8. ASSUME tool = "Write" PROVE CallOK'
  <2>1. call' = [at |-> "admitted", tool |-> "Write", changes |-> {}, content |-> a]
    BY <1>2, <1>8
  <2>2. call' = [at |-> "admitted", tool |-> "Write", changes |-> {}, content |-> call'.content] /\ call'.content = a
    BY <2>1
  <2>3. (Reorders(doc, call.content))' <=> Reorders(doc, a)
    BY <1>7, <2>2 DEF Reorders
  <2>4. ~replanned' /\ ~(Reorders(doc, call.content))' => InOrder(call'.content)
    BY <1>6, <1>7, <2>2, <2>3
  <2>5. QED
    BY <1>4, <1>7, <2>2, <2>4 DEF CallOK
<1>9. ASSUME tool # "Write" PROVE CallOK'
  <2>1. call' = [at |-> "admitted", tool |-> tool, changes |-> cs, content |-> NoDoc]
    BY <1>2, <1>9
  <2>2. call' = [at |-> "admitted", tool |-> call'.tool, changes |-> call'.changes, content |-> NoDoc]
        /\ call'.tool = tool /\ call'.changes = cs
    BY <2>1
  <2>3. ~replanned' /\ Onward(call'.changes) => Ready(doc', call'.changes)
    BY <1>5, <1>7, <2>2
  <2>4. call'.tool \in Tool \ {"Write"} /\ call'.changes \in Edits /\ call'.changes \subseteq GateChange
    BY <1>1, <1>9, <2>2
  <2>5. QED
    BY <2>2, <2>3, <2>4 DEF CallOK
<1>10. Distinct(doc)' /\ DoneGates(doc)' = DoneGates(doc) /\ (InOrder(doc) <=> InOrder(doc)')
  <2>1. doc'.gates = doc.gates
    BY <1>7
  <2>2. Distinct(doc)' /\ DoneGates(doc)' = DoneGates(doc)
    BY <1>3, <2>1 DEF Distinct, DoneGates, Open
  <2>3. InOrder(doc) <=> InOrder(doc)'
    BY <2>1 DEF InOrder
  <2>4. QED
    BY <2>2, <2>3
<1>11. edits' \in 0 .. MaxEdits /\ pending' \in Docs
  BY <1>2, <1>3, GateAssumption DEF GateInv
<1>12. QED
  BY <1>2, <1>7, <1>8, <1>9, <1>10, <1>11 DEF GateInv

LEMMA ApplyKeeps == ASSUME GateInv, ApplyEdit PROVE GateInv'
<1> DEFINE a == WrittenText(call.tool, call.changes, call.content)
<1>1. /\ call.at = "admitted" /\ (call.tool = "Write" \/ Fits(doc, call.changes))
      /\ doc' = a /\ closed' = closed \cup NewlyDone(doc, a)
      /\ replanned' = (replanned \/ Replans(doc, a))
      /\ call' = [at |-> "applied", tool |-> call.tool]
      /\ UNCHANGED <<cached, pending, recorded, over, edits>>
  BY DEF ApplyEdit
<1>2. doc \in Docs /\ Distinct(doc) /\ DoneGates(doc) \subseteq closed
  BY DEF GateInv
<1>3. /\ call.tool \in Tool /\ a \in Docs /\ Distinct(a) /\ a.board = doc.board
      /\ ~replanned /\ ~Reorders(doc, a) => InOrder(a)
  <2>1. CASE /\ call = [at |-> "admitted", tool |-> "Write", changes |-> {}, content |-> call.content]
             /\ call.content \in Docs /\ Distinct(call.content) /\ call.content.board = doc.board
             /\ ~replanned /\ ~Reorders(doc, call.content) => InOrder(call.content)
    <3>1. call.tool = "Write"
      BY <2>1
    <3>2. a = call.content
      BY <3>1 DEF WrittenText
    <3> HIDE DEF a
    <3>3. QED
      BY <2>1, <3>1, <3>2 DEF Tool
  <2>2. CASE /\ call = [at |-> "admitted", tool |-> call.tool, changes |-> call.changes, content |-> NoDoc]
             /\ call.tool \in Tool \ {"Write"} /\ call.changes \in Edits /\ call.changes \subseteq GateChange
             /\ ~replanned /\ Onward(call.changes) => Ready(doc, call.changes)
    <3>1. call.tool \in Tool /\ call.tool # "Write" /\ Fits(doc, call.changes)
      BY <1>1, <2>2
    <3>2. a = Candidate(doc, call.changes)
      BY <3>1 DEF WrittenText
    <3> HIDE DEF a
    <3>3. a \in Docs /\ Distinct(a) /\ a.board = doc.board
      BY <1>2, <2>2, <3>1, <3>2, CandidateTexts
    <3>4. ~replanned /\ ~Reorders(doc, a) => InOrder(a)
      BY <1>2, <2>2, <3>1, <3>2, OnwardOr, ReadyInOrder
    <3>5. QED
      BY <3>1, <3>3, <3>4
  <2>3. call # NoCall /\ call # [at |-> "applied", tool |-> call.tool]
    BY <1>1 DEF NoCall
  <2>4. QED
    BY <2>1, <2>2, <2>3 DEF GateInv, CallOK
<1> HIDE DEF a
<1>4. Distinct(doc)' /\ DoneGates(doc)' = DoneGates(a) /\ (InOrder(doc)' <=> InOrder(a))
  <2>1. doc'.gates = a.gates
    BY <1>1
  <2>2. Distinct(doc)' /\ DoneGates(doc)' = DoneGates(a)
    BY <1>3, <2>1 DEF Distinct, DoneGates, Open
  <2>3. InOrder(doc)' <=> InOrder(a)
    BY <2>1 DEF InOrder
  <2>4. QED
    BY <2>2, <2>3
<1>5. DoneGates(a) \subseteq closed' /\ closed \subseteq closed' /\ closed' \subseteq Gate
  <2>1. DoneGates(a) \subseteq Gate
    BY <1>3, DoneCounts
  <2>2. QED
    BY <1>1, <1>2, <2>1 DEF GateInv, NewlyDone
<1>6. CallOK'
  <2>1. call' = [at |-> "applied", tool |-> call'.tool] /\ call'.tool \in Tool
    BY <1>1, <1>3
  <2>2. QED
    BY <2>1 DEF CallOK
<1>7. replanned' \in BOOLEAN /\ (~replanned' => ~replanned /\ ~Reorders(doc, a)) /\ (replanned => replanned')
  <2>1. (replanned \/ Replans(doc, a)) \in BOOLEAN
    OBVIOUS
  <2>2. Reorders(doc, a) => Replans(doc, a)
    BY DEF Replans
  <2>3. QED
    BY <1>1, <2>1, <2>2, ZenonT(30)
<1>8. (~replanned' => InOrder(doc)') /\ (doc'.board => replanned')
  BY <1>1, <1>3, <1>4, <1>7 DEF GateInv
<1>9. doc' \in Docs /\ DoneGates(doc)' \subseteq closed' /\ recorded' \subseteq closed'
  BY <1>1, <1>3, <1>4, <1>5 DEF GateInv
<1>10. QED
  BY <1>1, <1>4, <1>5, <1>6, <1>7, <1>8, <1>9 DEF GateInv

\* What the hook after an edit records was closed.
LEMMA AfterKeeps == ASSUME GateInv, AfterEdit PROVE GateInv'
<1>1. call' = NoCall /\ UNCHANGED <<doc, cached, closed, replanned, over, edits>>
  BY DEF AfterEdit
<1>2. \/ recorded' = recorded /\ pending' = pending
      \/ /\ recorded' = recorded \cup (IF Valid(pending, doc) THEN Closure(pending, doc) ELSE {})
         /\ pending' = NoDoc
  BY DEF AfterEdit
<1>3. doc \in Docs /\ pending \in Docs /\ DoneGates(doc) \subseteq closed
  BY DEF GateInv
<1>4. NoDoc \in Docs
  <2>1. <<>> \in Seq(GateLine)
    BY EmptySeq
  <2>2. QED
    BY <2>1 DEF NoDoc, Docs
<1>5. ASSUME Valid(pending, doc) PROVE Closure(pending, doc) \subseteq DoneGates(doc)
  <2>1. CASE pending.board
    <3> DEFINE gs == {i \in DOMAIN pending.gates : ~pending.gates[i].done /\ doc.gates[i].done}
    <3>1. Closure(pending, doc) = IF Len(pending.gates) = Len(doc.gates) /\ Cardinality(gs) = 1
                                    THEN {doc.gates[i].text : i \in gs} ELSE {}
      BY <2>1 DEF Closure
    <3>2. Len(pending.gates) = Len(doc.gates) => DOMAIN pending.gates = DOMAIN doc.gates
      BY <1>3, DocShape
    <3>3. QED
      BY <3>1, <3>2 DEF DoneGates, Open
  <2>2. CASE ~pending.board
    <3>1. Closure(pending, doc) = IF Done(doc) = Done(pending) + 1
                                    THEN {doc.gates[i].text : i \in FirstOpen(pending)} ELSE {}
      BY <2>2 DEF Closure
    <3>2. Done(doc) \in Nat /\ Done(pending) \in Nat
      BY <1>3, DoneCounts
    <3>3. ASSUME Done(doc) = Done(pending) + 1
          PROVE  \A i \in FirstOpen(pending) : i \in DOMAIN doc.gates /\ doc.gates[i].done
      <4>1. ~(Done(doc) <= Done(pending))
        BY <3>2, <3>3
      <4>2. PICK k \in FirstOpen(pending) : k \in DOMAIN doc.gates /\ doc.gates[k].done
        BY <1>5, <2>2, <4>1, Zenon DEF Valid
      <4>3. ASSUME NEW i \in FirstOpen(pending) PROVE i = k
        <5>1. i \in DOMAIN pending.gates /\ k \in DOMAIN pending.gates /\ i <= k /\ k <= i
          BY DEF FirstOpen, Open
        <5>2. QED
          BY <1>3, <5>1, DocShape
      <4>4. QED
        BY <4>2, <4>3
    <3>4. QED
      BY <3>1, <3>3 DEF DoneGates, Open
  <2>3. QED
    BY <2>1, <2>2
<1>6. recorded' \subseteq closed /\ pending' \in Docs
  BY <1>2, <1>3, <1>4, <1>5 DEF GateInv
<1>7. Distinct(doc)' /\ DoneGates(doc)' = DoneGates(doc) /\ (InOrder(doc) <=> InOrder(doc)')
  <2>1. doc'.gates = doc.gates
    BY <1>1
  <2>2. Distinct(doc)' /\ DoneGates(doc)' = DoneGates(doc)
    BY <2>1 DEF GateInv, Distinct, DoneGates, Open
  <2>3. InOrder(doc) <=> InOrder(doc)'
    BY <2>1 DEF InOrder
  <2>4. QED
    BY <2>2, <2>3
<1>8. CallOK'
  BY <1>1 DEF CallOK, NoCall
<1>9. QED
  BY <1>1, <1>6, <1>7, <1>8 DEF GateInv

\* Everything else leaves the gates alone.
LEMMA OtherStepsKeep ==
    ASSUME GateInv,
           \/ PatchElsewhere \/ EditFails \/ (\E conversation \in BOOLEAN : Stop(conversation))
           \/ TakeTask \/ HandOver \/ UNCHANGED gateVars
    PROVE  GateInv'
<1>1. NoDoc \in Docs
  <2>1. <<>> \in Seq(GateLine)
    BY EmptySeq
  <2>2. QED
    BY <2>1 DEF NoDoc, Docs
<1>2. /\ doc = [gates |-> doc.gates, owner |-> doc.owner, board |-> doc.board]
      /\ doc.gates \in Seq(GateLine) /\ doc.board \in BOOLEAN
  BY DocShape DEF GateInv
<1>3. ASSUME NEW o \in {Me, "other", "none"}, doc' = [doc EXCEPT !.owner = o]
      PROVE  doc' \in Docs /\ doc'.gates = doc.gates /\ doc'.board = doc.board
  <2>1. doc' = [gates |-> doc.gates, owner |-> o, board |-> doc.board]
    BY <1>2, <1>3
  <2>2. QED
    BY <1>2, <2>1 DEF Docs
<1>4. CASE PatchElsewhere
  BY <1>1, <1>4, GatesStay DEF PatchElsewhere, GateInv
<1>5. ASSUME NEW conversation \in BOOLEAN, Stop(conversation) PROVE GateInv'
  BY <1>5, GatesStay DEF Stop, GateInv
<1>6. CASE TakeTask
  <2>1. doc' = [doc EXCEPT !.owner = Me] /\ cached' = TRUE
        /\ UNCHANGED <<call, pending, recorded, closed, replanned, over, edits>>
    BY <1>6 DEF TakeTask
  <2>2. doc' \in Docs /\ doc'.gates = doc.gates /\ doc'.board = doc.board
    BY <1>3, <2>1
  <2>3. QED
    BY <2>1, <2>2, GatesStay DEF GateInv
<1>7. CASE HandOver
  <2>1. doc' = [doc EXCEPT !.owner = "other"]
        /\ UNCHANGED <<cached, call, pending, recorded, closed, replanned, over, edits>>
    BY <1>7 DEF HandOver
  <2>2. doc' \in Docs /\ doc'.gates = doc.gates /\ doc'.board = doc.board
    BY <1>3, <2>1
  <2>3. QED
    BY <2>1, <2>2, GatesStay DEF GateInv
<1>8. CASE EditFails
  <2>1. call' = NoCall /\ UNCHANGED <<doc, cached, pending, recorded, closed, replanned, over, edits>>
    BY <1>8 DEF EditFails
  <2>2. CallOK'
    BY <2>1 DEF CallOK, NoCall
  <2>3. Distinct(doc)' /\ DoneGates(doc)' = DoneGates(doc) /\ (InOrder(doc) => InOrder(doc)')
    <3>1. doc'.gates = doc.gates
      BY <2>1
    <3>2. QED
      BY <3>1 DEF GateInv, Distinct, DoneGates, Open, InOrder
  <2>4. QED
    BY <2>1, <2>2, <2>3 DEF GateInv
<1>9. CASE UNCHANGED gateVars
  BY <1>9, GatesStay DEF gateVars, GateInv
<1>10. QED
  BY <1>4, <1>5, <1>6, <1>7, <1>8, <1>9

LEMMA GateInvHolds == GateSpec => []GateInv
<1>1. GateInit => GateInv
  BY GateStart
<1>2. GateInv /\ [GateNext]_gateVars => GateInv'
  <2> SUFFICES ASSUME GateInv, [GateNext]_gateVars PROVE GateInv'
    OBVIOUS
  <2>1. ASSUME NEW tool \in Tool, NEW cs \in Edits, Admit(tool, cs) PROVE GateInv'
    BY <2>1, AdmitKeeps
  <2>2. QED
    BY <2>1, ApplyKeeps, AfterKeeps, CompleteKeeps, OtherStepsKeep DEF GateNext
<1>3. QED
  BY <1>1, <1>2, PTL DEF GateSpec

\* The variables of the edits have their types.
THEOREM GateTypes == GateSpec => []GateTypeOK
<1>1. GateInv => GateTypeOK
  <2> SUFFICES ASSUME GateInv PROVE GateTypeOK
    OBVIOUS
  <2>1. /\ \A i \in DOMAIN doc.gates : doc.gates[i].text \in Gate /\ doc.gates[i].done \in BOOLEAN
        /\ doc.owner \in {Me, "other", "none"} /\ doc.board \in BOOLEAN
    BY DocShape DEF GateInv
  <2>2. call.at \in {"none", "admitted", "applied"}
    BY DEF GateInv, CallOK, NoCall
  <2>3. QED
    BY <2>1, <2>2 DEF GateInv, GateTypeOK
<1>2. QED
  BY <1>1, GateInvHolds, PTL

\* The hooks around an edit keep their promises together, in every document
\* and for any number of edits: as long as nobody reopens a gate, puts one in
\* front or drops the first open one, gates are checked strictly in their
\* order, whatever was written between an edit's admission and its
\* application; only a gate that was closed is recorded; and the two hooks
\* draw one boundary.
THEOREM EditsAlwaysInOrder == GateSpec => []EditsInOrder
<1>1. GateInv => EditsInOrder
  <2> SUFFICES ASSUME GateInv PROVE EditsInOrder
    OBVIOUS
  <2>1. ClosedInOrder
    BY DEF GateInv, InOrder, ClosedInOrder
  <2>2. RecordedWasClosed
    BY DEF GateInv, RecordedWasClosed
  <2>3. ASSUME NEW target \in Target, NEW valid \in BOOLEAN
        PROVE  PolicyAdmits(target, valid) <=> PatchAdmits({target}, valid)
    <3>1. CASE target = "own task"
      BY <3>1 DEF PolicyAdmits, PatchAdmits
    <3>2. CASE target = "other task"
      BY <3>2 DEF PolicyAdmits, PatchAdmits
    <3>3. CASE target = "code"
      BY <3>3 DEF PolicyAdmits, PatchAdmits
    <3>4. CASE target \in {"management", "text"}
      BY <3>4 DEF PolicyAdmits, PatchAdmits
    <3>5. QED
      BY <3>1, <3>2, <3>3, <3>4 DEF Target
  <2>4. QED
    BY <2>1, <2>2, <2>3 DEF EditsInOrder, BoundariesAgree
<1>2. QED
  BY <1>1, GateInvHolds, PTL

---------------------------------------------------------------------------
(* Hook files: entries.                                                    *)

HookOrGap == Hooks \cup {Gap}

LEMMA EntryFacts ==
  ASSUME NEW e \in Entry
  PROVE  /\ e.m \in Matcher /\ e.cs \in Seq(HookOrGap)
         /\ DOMAIN e.cs = 1 .. Len(e.cs) /\ Len(e.cs) \in Nat
         /\ \A k \in DOMAIN e.cs : e.cs[k] \in HookOrGap
         /\ e = [m |-> e.m, cs |-> e.cs]
BY DEF Entry, HookOrGap

LEMMA ListFacts ==
  ASSUME NEW es \in Seq(Entry)
  PROVE  /\ DOMAIN es = 1 .. Len(es) /\ Len(es) \in Nat
         /\ \A i \in DOMAIN es : es[i] \in Entry
OBVIOUS

LEMMA KnownHooks ==
  /\ \A c \in Ours \cup MyHook : Std(c) \in Hooks /\ Std(c).cmd = c /\ Std(c) # Gap
  /\ \A h \in Hooks : h # Gap /\ h.cmd \in Ours \cup MyHook
  /\ \A c \in Ours \cup {"gap"} : c \notin MyHook
  /\ Gap.cmd = "gap"
BY HookAssumption DEF Std, Hooks, Ours, Gap

LEMMA KnownEntries ==
  /\ Nothing \in Entry /\ Nothing.cs = <<>> /\ Nothing.m = "own"
  /\ \A c \in Ours : /\ EntryOf(c) \in Entry
                     /\ EntryOf(c).m = "now" /\ EntryOf(c).cs = <<Std(c)>>
                     /\ Is(EntryOf(c), c) /\ Runs(EntryOf(c), c)
<1>1. Nothing \in Entry /\ Nothing.cs = <<>> /\ Nothing.m = "own"
  BY DEF Nothing, Entry, Matcher
<1>2. ASSUME NEW c \in Ours
      PROVE  /\ EntryOf(c) \in Entry
             /\ EntryOf(c).m = "now" /\ EntryOf(c).cs = <<Std(c)>>
             /\ Is(EntryOf(c), c) /\ Runs(EntryOf(c), c)
  <2>1. Std(c) \in HookOrGap /\ Std(c).cmd = c
    BY KnownHooks DEF HookOrGap
  <2>2. EntryOf(c).m = "now" /\ EntryOf(c).cs = <<Std(c)>>
    BY DEF EntryOf
  <2>3. <<Std(c)>> \in Seq(HookOrGap) /\ DOMAIN <<Std(c)>> = {1} /\ <<Std(c)>>[1] = Std(c)
    BY <2>1
  <2>4. EntryOf(c) \in Entry
    BY <2>3 DEF EntryOf, Entry, Matcher, HookOrGap
  <2>5. Is(EntryOf(c), c) /\ Runs(EntryOf(c), c)
    BY <2>1, <2>2, <2>3 DEF Is, Only, Runs
  <2> QED
    BY <2>2, <2>4, <2>5
<1> QED
  BY <1>1, <1>2

\* A person's hook in its place.
MineAt(es, i, k) == i \in DOMAIN es /\ k \in DOMAIN es[i].cs /\ es[i].cs[k].cmd \in MyHook

LEMMA PeopleAre ==
  ASSUME NEW es, NEW x
  PROVE  x \in PeopleIn(es) <=>
           \E i, k : MineAt(es, i, k) /\ x = <<i, k, es[i].cs[k]>>
BY DEF PeopleIn, MineAt

\* Lists with the same hooks of people's.
LEMMA SamePeople ==
  ASSUME NEW a, NEW b,
         \A i, k : MineAt(a, i, k) <=> MineAt(b, i, k),
         \A i, k : MineAt(a, i, k) => a[i].cs[k] = b[i].cs[k]
  PROVE  PeopleIn(a) = PeopleIn(b)
<1>1. ASSUME NEW x PROVE x \in PeopleIn(a) <=> x \in PeopleIn(b)
  BY PeopleAre
<1> QED
  BY <1>1

LEMMA PeopleType ==
  ASSUME NEW es \in Seq(Entry) PROVE PeopleIn(es) \subseteq Nat \X Nat \X Hooks
<1>1. ASSUME NEW i, NEW k, MineAt(es, i, k) PROVE <<i, k, es[i].cs[k]>> \in Nat \X Nat \X Hooks
  <2>1. es[i] \in Entry /\ i \in Nat
    BY <1>1, ListFacts DEF MineAt
  <2>2. es[i].cs[k] \in HookOrGap /\ k \in Nat
    BY <1>1, <2>1, EntryFacts DEF MineAt
  <2>3. es[i].cs[k] # Gap
    BY <1>1, KnownHooks DEF MineAt
  <2> QED
    BY <2>1, <2>2, <2>3 DEF HookOrGap
<1> QED
  BY <1>1, PeopleAre

\* One more entry without hooks of people's.
LEMMA AppendOurs ==
  ASSUME NEW es \in Seq(Entry), NEW c \in Ours
  PROVE  /\ Append(es, EntryOf(c)) \in Seq(Entry)
         /\ DOMAIN Append(es, EntryOf(c)) = DOMAIN es \cup {Len(es) + 1}
         /\ Len(es) + 1 \notin DOMAIN es
         /\ \A i \in DOMAIN es : Append(es, EntryOf(c))[i] = es[i]
         /\ Append(es, EntryOf(c))[Len(es) + 1] = EntryOf(c)
         /\ PeopleIn(Append(es, EntryOf(c))) = PeopleIn(es)
<1> DEFINE d == Append(es, EntryOf(c))
           e == EntryOf(c)
<1>0. e \in Entry /\ e.cs = <<Std(c)>>
  BY KnownEntries
<1> HIDE DEF e
<1>1. /\ d \in Seq(Entry)
      /\ DOMAIN d = DOMAIN es \cup {Len(es) + 1}
      /\ Len(es) + 1 \notin DOMAIN es
      /\ \A i \in DOMAIN es : d[i] = es[i]
      /\ d[Len(es) + 1] = e
  BY <1>0 DEF e
<1>2. \A k \in DOMAIN e.cs : e.cs[k].cmd \notin MyHook
  BY <1>0, KnownHooks
<1>3. PeopleIn(d) = PeopleIn(es)
  BY <1>1, <1>2, SamePeople DEF MineAt
<1> QED
  BY <1>1, <1>3 DEF e

---------------------------------------------------------------------------
(* Hook files: init.                                                       *)

\* The places of Playbook's dispatcher, renewed, and of the other hooks.
LEMMA DedupedFacts ==
  ASSUME NEW cs \in Seq(HookOrGap)
  PROVE  LET d == Deduped(cs)
         IN  /\ d \in Seq(HookOrGap)
             /\ \E k \in DOMAIN d : d[k].cmd = "dispatch"
             /\ Deduped(d) = d
             /\ \A k : k \in DOMAIN d /\ d[k].cmd \in MyHook <=>
                         k \in DOMAIN cs /\ cs[k].cmd \in MyHook
             /\ \A k \in DOMAIN d : d[k].cmd \in MyHook => d[k] = cs[k]
<1> DEFINE d == Deduped(cs)
           S == Std("dispatch")
<1>0. /\ S \in HookOrGap /\ S.cmd = "dispatch" /\ Gap.cmd = "gap" /\ Gap \in HookOrGap
      /\ "dispatch" \notin MyHook /\ "gap" \notin MyHook
  BY KnownHooks DEF HookOrGap, Ours
<1> HIDE DEF S
<1>1. CASE ~ \E k \in DOMAIN cs : cs[k].cmd = "dispatch"
  <2>1. d = Append(cs, S)
    BY <1>1 DEF Deduped, S
  <2>2. /\ d \in Seq(HookOrGap) /\ DOMAIN d = 1 .. Len(cs) + 1 /\ d[Len(cs) + 1] = S
        /\ DOMAIN cs = 1 .. Len(cs) /\ Len(cs) \in Nat
        /\ \A k \in 1 .. Len(cs) : d[k] = cs[k]
    BY <1>0, <2>1
  <2> HIDE DEF d
  <2>3. Deduped(d) = [k \in DOMAIN d |->
               IF ~(d[k].cmd = "dispatch") THEN d[k]
               ELSE IF \A j \in 1 .. k - 1 : ~(d[j].cmd = "dispatch") THEN S
               ELSE Gap]
    BY <1>0, <2>2 DEF Deduped, S
  <2>4. \A k \in DOMAIN d : d[k].cmd = "dispatch" => k = Len(cs) + 1
    BY <1>1, <2>2
  <2>5. \A j \in 1 .. Len(cs) : ~(d[j].cmd = "dispatch")
    BY <1>1, <2>2
  <2>6. Deduped(d) = [k \in DOMAIN d |-> d[k]]
    BY <1>0, <2>2, <2>3, <2>4, <2>5
  <2>7. Deduped(d) = d
    BY <2>2, <2>6
  <2>8. \A k \in DOMAIN d : d[k].cmd \in MyHook => k \in 1 .. Len(cs)
    BY <1>0, <2>2
  <2> QED
    BY <1>0, <2>2, <2>7, <2>8 DEF d
<1>2. CASE \E k \in DOMAIN cs : cs[k].cmd = "dispatch"
  <2> DEFINE First(k) == \A j \in 1 .. k - 1 : ~(cs[j].cmd = "dispatch")
  <2>1. d = [k \in DOMAIN cs |->
               IF ~(cs[k].cmd = "dispatch") THEN cs[k]
               ELSE IF First(k) THEN S
               ELSE Gap]
    BY <1>2 DEF Deduped, S
  <2>2. DOMAIN cs = 1 .. Len(cs) /\ Len(cs) \in Nat /\ \A k \in DOMAIN cs : cs[k] \in HookOrGap
    OBVIOUS
  <2> HIDE DEF d
  <2>3. \E k \in DOMAIN cs : cs[k].cmd = "dispatch" /\ First(k)
    <3> DEFINE T == {k \in DOMAIN cs : cs[k].cmd = "dispatch"}
    <3>1. T # {} /\ T \subseteq Nat
      BY <1>2, <2>2
    <3> HIDE DEF T
    <3>2. PICK k \in T : \A j \in T : k <= j
      BY <3>1, FirstPosition
    <3>3. k \in DOMAIN cs /\ cs[k].cmd = "dispatch" /\ k \in 1 .. Len(cs)
      BY <2>2, <3>2 DEF T
    <3>4. \A j \in 1 .. k - 1 : j \in DOMAIN cs /\ ~(k <= j)
      BY <2>2, <3>3
    <3>5. \A j \in 1 .. k - 1 : ~(cs[j].cmd = "dispatch")
      BY <3>2, <3>4 DEF T
    <3> QED
      BY <3>3, <3>5
  <2>4. d \in Seq(HookOrGap) /\ DOMAIN d = DOMAIN cs
    BY <1>0, <2>1, <2>2
  <2>5. \A k \in DOMAIN d : d[k] = IF ~(cs[k].cmd = "dispatch") THEN cs[k]
                                  ELSE IF First(k) THEN S ELSE Gap
    BY <2>1
  <2>6. \E k \in DOMAIN d : d[k].cmd = "dispatch"
    BY <1>0, <2>3, <2>4, <2>5
  <2>7. \A k \in DOMAIN d : d[k].cmd = "dispatch" <=> cs[k].cmd = "dispatch" /\ First(k)
    BY <1>0, <2>5
  <2>8. Deduped(d) = [k \in DOMAIN d |->
               IF ~(d[k].cmd = "dispatch") THEN d[k]
               ELSE IF \A j \in 1 .. k - 1 : ~(d[j].cmd = "dispatch") THEN S
               ELSE Gap]
    BY <2>6 DEF Deduped, S
  <2>9. ASSUME NEW k \in DOMAIN d, d[k].cmd = "dispatch"
        PROVE  d[k] = S /\ \A j \in 1 .. k - 1 : ~(d[j].cmd = "dispatch")
    <3>1. cs[k].cmd = "dispatch" /\ First(k) /\ d[k] = S
      BY <2>5, <2>7, <2>9
    <3>2. \A j \in 1 .. k - 1 : j \in DOMAIN d
      BY <2>2, <2>4
    <3> QED
      BY <2>7, <3>1, <3>2
  <2>10. Deduped(d) = [k \in DOMAIN d |-> d[k]]
    BY <2>8, <2>9
  <2>11. Deduped(d) = d
    BY <2>4, <2>10
  <2>12. \A k \in DOMAIN cs : /\ d[k].cmd \in MyHook <=> cs[k].cmd \in MyHook
                              /\ d[k].cmd \in MyHook => d[k] = cs[k]
    BY <1>0, <2>4, <2>5
  <2> QED
    BY <2>4, <2>6, <2>11, <2>12 DEF d
<1> QED
  BY <1>1, <1>2

\* The list in which the hook of the entry at is renewed.
Renewed(es, at) == [es EXCEPT ![at] = [m |-> "now", cs |-> Deduped(@.cs)]]

LEMMA RenewedFacts ==
  ASSUME NEW es \in Seq(Entry), NEW at \in DOMAIN es
  PROVE  LET d == Renewed(es, at)
         IN  /\ d \in Seq(Entry) /\ DOMAIN d = DOMAIN es
             /\ d[at].m = "now" /\ Runs(d[at], "dispatch")
             /\ d[at].cs = Deduped(es[at].cs)
             /\ \A i \in DOMAIN es : i # at => d[i] = es[i]
             /\ PeopleIn(d) = PeopleIn(es)
             /\ Renewed(d, at) = d
<1> DEFINE d == Renewed(es, at)
           new == [m |-> "now", cs |-> Deduped(es[at].cs)]
<1>0. es[at] \in Entry /\ es[at].cs \in Seq(HookOrGap)
  BY ListFacts, EntryFacts
<1>1. /\ Deduped(es[at].cs) \in Seq(HookOrGap)
      /\ \E k \in DOMAIN Deduped(es[at].cs) : Deduped(es[at].cs)[k].cmd = "dispatch"
      /\ Deduped(Deduped(es[at].cs)) = Deduped(es[at].cs)
      /\ \A k : k \in DOMAIN Deduped(es[at].cs) /\ Deduped(es[at].cs)[k].cmd \in MyHook <=>
                  k \in DOMAIN es[at].cs /\ es[at].cs[k].cmd \in MyHook
      /\ \A k \in DOMAIN Deduped(es[at].cs) :
           Deduped(es[at].cs)[k].cmd \in MyHook => Deduped(es[at].cs)[k] = es[at].cs[k]
  BY <1>0, DedupedFacts
<1>2. new \in Entry /\ new.m = "now" /\ new.cs = Deduped(es[at].cs)
  BY <1>1 DEF Entry, Matcher, HookOrGap
<1> HIDE DEF new
<1>3. d = [es EXCEPT ![at] = new]
  BY DEF Renewed, new
<1> HIDE DEF d
<1>4. /\ d \in Seq(Entry) /\ DOMAIN d = DOMAIN es
      /\ d[at] = new /\ \A i \in DOMAIN es : i # at => d[i] = es[i]
  BY <1>2, <1>3
<1>5. \A i, k : MineAt(d, i, k) <=> MineAt(es, i, k)
  BY <1>1, <1>2, <1>4 DEF MineAt
<1>6. \A i, k : MineAt(d, i, k) => d[i].cs[k] = es[i].cs[k]
  BY <1>1, <1>2, <1>4 DEF MineAt
<1>7. PeopleIn(d) = PeopleIn(es)
  BY <1>5, <1>6, SamePeople
<1>8. [m |-> "now", cs |-> Deduped(d[at].cs)] = new
  BY <1>1, <1>2, <1>4 DEF new
<1>9. Renewed(d, at) = d
  BY <1>4, <1>8 DEF Renewed
<1>10. Runs(d[at], "dispatch")
  BY <1>1, <1>2, <1>4 DEF Runs
<1> QED
  BY <1>2, <1>4, <1>7, <1>9, <1>10 DEF d

\* One entry runs the dispatcher under Playbook's matchers.
LEMMA SoleOwner ==
  ASSUME NEW es, NEW at, Owning(es) = {at}
  PROVE  Eligible(es) = {at} /\ ~Ambiguous(es) /\ MergedHooks(es) = Renewed(es, at)
BY DEF Eligible, Ambiguous, MergedHooks, Renewed

LEMMA MergeFacts ==
  ASSUME NEW es \in Seq(Entry), ~Ambiguous(es)
  PROVE  LET d == MergedHooks(es)
         IN  /\ d \in Seq(Entry)
             /\ PeopleIn(d) = PeopleIn(es)
             /\ \E i \in DOMAIN d : Owning(d) = {i} /\ d[i].m = "now"
             /\ ~Ambiguous(d) /\ MergedHooks(d) = d
<1> DEFINE d == MergedHooks(es)
<1>1. CASE Eligible(es) = {}
  <2> DEFINE n == Len(es) + 1
  <2>1. /\ d \in Seq(Entry) /\ PeopleIn(d) = PeopleIn(es)
        /\ DOMAIN d = DOMAIN es \cup {n} /\ n \notin DOMAIN es
        /\ \A i \in DOMAIN es : d[i] = es[i]
        /\ d[n] = Dispatch
    BY <1>1, AppendOurs DEF MergedHooks, Dispatch, Ours
  <2> HIDE DEF d, n
  <2>2. Dispatch.m = "now" /\ Runs(Dispatch, "dispatch") /\ Dispatch.cs = <<Std("dispatch")>>
    BY KnownEntries DEF Dispatch, Ours
  <2>3. Owning(d) = {n}
    BY <1>1, <2>1, <2>2 DEF Owning, Matching, Eligible, Accepted
  <2>4. Deduped(<<Std("dispatch")>>) = <<Std("dispatch")>>
    <3>1. Std("dispatch").cmd = "dispatch"
      BY DEF Std
    <3> HIDE DEF Std
    <3>2. Deduped(<<Std("dispatch")>>) = [k \in {1} |-> Std("dispatch")]
      BY <3>1 DEF Deduped
    <3> QED
      BY <3>2
  <2>5. Dispatch = [m |-> "now", cs |-> <<Std("dispatch")>>]
    BY DEF Dispatch, EntryOf
  <2>6. Renewed(d, n) = d
    BY <2>1, <2>2, <2>4, <2>5 DEF Renewed
  <2>7. n \in DOMAIN d
    BY <2>1
  <2>8. ~Ambiguous(d) /\ MergedHooks(d) = d
    BY <2>3, <2>6, SoleOwner
  <2> QED
    BY <2>1, <2>2, <2>3, <2>7, <2>8 DEF d
<1>2. CASE Eligible(es) # {}
  <2>1. PICK at : at \in DOMAIN es /\ Eligible(es) = {at}
    BY <1>2 DEF Ambiguous, Eligible, Owning, Matching
  <2>2. d = Renewed(es, at)
    BY <2>1 DEF MergedHooks, Renewed
  <2> HIDE DEF d
  <2>3. /\ d \in Seq(Entry) /\ DOMAIN d = DOMAIN es
        /\ d[at].m = "now" /\ Runs(d[at], "dispatch")
        /\ \A i \in DOMAIN es : i # at => d[i] = es[i]
        /\ PeopleIn(d) = PeopleIn(es)
        /\ Renewed(d, at) = d
    BY <2>1, <2>2, RenewedFacts
  <2>4. \A i \in Owning(es) : i = at
    BY <2>1 DEF Eligible
  <2>5. Owning(d) = {at}
    BY <2>1, <2>3, <2>4 DEF Owning, Matching, Accepted
  <2>6. ~Ambiguous(d) /\ MergedHooks(d) = d
    BY <2>3, <2>5, SoleOwner
  <2> QED
    BY <2>1, <2>3, <2>5, <2>6 DEF d
<1> QED
  BY <1>1, <1>2

LEMMA StatusFacts ==
  ASSUME NEW d \in Seq(Entry), NEW i \in DOMAIN d, Owning(d) = {i}, d[i].m = "now",
         \A j \in There(d) : Only(d[j], "dispatch") /\ j \in Matching(d)
  PROVE  HookStatus(d) = {"managed"}
<1>1. \A j \in There(d) : Runs(d[j], "dispatch")
  BY KnownHooks DEF Only, Runs, Ours
<1>2. \A j \in There(d) : j = i
  BY <1>1 DEF Owning
<1>3. i \in There(d)
  BY KnownEntries DEF There
<1>4. Is(d[i], "dispatch")
  BY <1>3 DEF Is
<1> QED
  BY <1>2, <1>3, <1>4 DEF HookStatus

\* A migration takes out entries without hooks of people's.
LEMMA MigrateFacts ==
  ASSUME NEW es \in Seq(Entry)
  PROVE  LET d == MigratedHooks(es)
         IN  /\ d \in Seq(Entry)
             /\ PeopleIn(d) = PeopleIn(es)
             /\ \E i \in DOMAIN d : Is(d[i], "dispatch")
             /\ \A i \in DOMAIN d : ~OldPlugin(d[i])
<1> DEFINE left == [i \in DOMAIN es |-> IF OldPlugin(es[i]) THEN Nothing ELSE es[i]]
           d == MigratedHooks(es)
<1>1. /\ DOMAIN left = DOMAIN es
      /\ \A i \in DOMAIN es : left[i] = IF OldPlugin(es[i]) THEN Nothing ELSE es[i]
  OBVIOUS
<1>2. d = IF \E i \in DOMAIN left : Is(left[i], "dispatch") THEN left ELSE Append(left, Dispatch)
  BY DEF MigratedHooks
<1>3. left \in Seq(Entry)
  BY ListFacts, KnownEntries
<1> HIDE DEF d, left
<1>4. \A i \in DOMAIN left : ~OldPlugin(left[i])
  BY <1>1, KnownEntries DEF OldPlugin, Is, Only
<1>5. ASSUME NEW i, OldPlugin(es[i]) PROVE \A k : ~MineAt(es, i, k)
  <2>1. \A k \in DOMAIN es[i].cs : es[i].cs[k] \in {Std("plugin"), Gap}
    BY <1>5 DEF OldPlugin, Is, Only
  <2> QED
    BY <2>1, KnownHooks DEF MineAt, Ours
<1>6. \A i, k : MineAt(left, i, k) <=> MineAt(es, i, k)
  <2>1. ASSUME NEW i \in DOMAIN es, OldPlugin(es[i]), NEW k PROVE ~MineAt(left, i, k)
    BY <1>1, <2>1, KnownEntries DEF MineAt
  <2> QED
    BY <1>1, <1>5, <2>1 DEF MineAt
<1>7. \A i, k : MineAt(left, i, k) => left[i].cs[k] = es[i].cs[k]
  BY <1>1, <1>5, <1>6 DEF MineAt
<1>8. PeopleIn(left) = PeopleIn(es)
  BY <1>6, <1>7, SamePeople
<1>9. CASE \E i \in DOMAIN left : Is(left[i], "dispatch")
  BY <1>2, <1>3, <1>4, <1>8, <1>9 DEF d
<1>10. CASE ~ \E i \in DOMAIN left : Is(left[i], "dispatch")
  <2> DEFINE n == Len(left) + 1
  <2>1. /\ d \in Seq(Entry) /\ PeopleIn(d) = PeopleIn(left)
        /\ DOMAIN d = DOMAIN left \cup {n}
        /\ \A i \in DOMAIN left : d[i] = left[i]
        /\ d[n] = Dispatch
    BY <1>2, <1>3, <1>10, AppendOurs DEF Dispatch, Ours
  <2>2. Is(Dispatch, "dispatch") /\ ~OldPlugin(Dispatch)
    <3>1. /\ Is(Dispatch, "dispatch") /\ Dispatch.cs = <<Std("dispatch")>>
          /\ Std("dispatch") # Std("plugin")
      BY KnownEntries, KnownHooks DEF Dispatch, Ours
    <3> QED
      BY <3>1 DEF OldPlugin, Is, Only
  <2> HIDE DEF n
  <2> QED
    BY <1>4, <1>8, <2>1, <2>2 DEF d
<1> QED
  BY <1>9, <1>10

---------------------------------------------------------------------------
(* Hook files: the adapter.                                                *)

LEMMA PrunedEntry ==
  ASSUME NEW e \in Entry
  PROVE  LET d == Pruned(e)
         IN  /\ d \in Entry /\ d.m = e.m /\ DOMAIN d.cs = DOMAIN e.cs
             /\ \A k \in DOMAIN e.cs :
                  d.cs[k] = IF e.m # "now" /\ e.cs[k].cmd \in Ours THEN Gap ELSE e.cs[k]
             /\ Pruned(d) = d
             /\ d.m # "now" => \A c \in Ours : ~Runs(d, c)
<1> DEFINE cs == [k \in DOMAIN e.cs |->
                    IF e.m # "now" /\ e.cs[k].cmd \in Ours THEN Gap ELSE e.cs[k]]
           d == [m |-> e.m, cs |-> cs]
<1>1. /\ e.m \in Matcher /\ e.cs \in Seq(HookOrGap)
      /\ DOMAIN e.cs = 1 .. Len(e.cs) /\ Len(e.cs) \in Nat
      /\ \A k \in DOMAIN e.cs : e.cs[k] \in HookOrGap
      /\ e = [m |-> e.m, cs |-> e.cs]
  BY EntryFacts
<1>2. Gap \in HookOrGap /\ Gap.cmd \notin Ours
  BY KnownHooks DEF HookOrGap, Ours
<1>3. /\ cs \in Seq(HookOrGap) /\ DOMAIN cs = DOMAIN e.cs
      /\ \A k \in DOMAIN e.cs :
           cs[k] = IF e.m # "now" /\ e.cs[k].cmd \in Ours THEN Gap ELSE e.cs[k]
  BY <1>1, <1>2
<1>4. Pruned(e) = d
  BY <1>1 DEF Pruned
<1> HIDE DEF cs
<1>5. d \in Entry
  BY <1>1, <1>3 DEF Entry, HookOrGap
<1>6. Pruned(d) = [m |-> e.m, cs |-> [k \in DOMAIN cs |->
                    IF e.m # "now" /\ cs[k].cmd \in Ours THEN Gap ELSE cs[k]]]
  BY DEF Pruned
<1>7. [k \in DOMAIN cs |-> IF e.m # "now" /\ cs[k].cmd \in Ours THEN Gap ELSE cs[k]] = cs
  <2>1. \A k \in DOMAIN cs : (IF e.m # "now" /\ cs[k].cmd \in Ours THEN Gap ELSE cs[k]) = cs[k]
    BY <1>2, <1>3
  <2>2. cs = [k \in DOMAIN cs |-> cs[k]]
    BY <1>3
  <2> QED
    BY <2>1, <2>2
<1>8. e.m # "now" => \A c \in Ours : ~Runs(d, c)
  BY <1>2, <1>3 DEF Runs
<1> QED
  BY <1>3, <1>4, <1>5, <1>6, <1>7, <1>8

LEMMA PruneFacts ==
  ASSUME NEW es \in Seq(Entry)
  PROVE  LET d == PrunedHooks(es)
         IN  /\ d \in Seq(Entry) /\ DOMAIN d = DOMAIN es
             /\ PeopleIn(d) = PeopleIn(es)
             /\ \A i \in DOMAIN d : d[i] = Nothing \/ (Pruned(d[i]) = d[i] /\ ~Empty(d[i]))
             /\ \A i \in DOMAIN d : d[i].m # "now" => \A c \in Ours : ~Runs(d[i], c)
<1> DEFINE d == PrunedHooks(es)
<1>1. /\ DOMAIN d = DOMAIN es
      /\ \A i \in DOMAIN es : d[i] = IF Empty(Pruned(es[i])) THEN Nothing ELSE Pruned(es[i])
  BY DEF PrunedHooks
<1>2. DOMAIN es = 1 .. Len(es) /\ Len(es) \in Nat /\ \A i \in DOMAIN es : es[i] \in Entry
  BY ListFacts
<1>3. \A i \in DOMAIN es : d[i] \in Entry
  BY <1>1, <1>2, PrunedEntry, KnownEntries
<1>4. d \in Seq(Entry)
  BY <1>1, <1>2, <1>3 DEF PrunedHooks
<1> HIDE DEF d
<1>5. ASSUME NEW i \in DOMAIN es
      PROVE  \A k : /\ MineAt(d, i, k) <=> MineAt(es, i, k)
                    /\ MineAt(d, i, k) => d[i].cs[k] = es[i].cs[k]
  <2> DEFINE e == Pruned(es[i])
  <2>1. /\ DOMAIN e.cs = DOMAIN es[i].cs
        /\ \A k \in DOMAIN es[i].cs :
             e.cs[k] = IF es[i].m # "now" /\ es[i].cs[k].cmd \in Ours THEN Gap ELSE es[i].cs[k]
    BY <1>2, PrunedEntry
  <2>2. Gap.cmd \notin MyHook /\ \A c \in Ours : c \notin MyHook
    BY KnownHooks DEF Ours
  <2>3. d[i] = IF Empty(e) THEN Nothing ELSE e
    BY <1>1
  <2> HIDE DEF e
  <2>4. CASE Empty(e)
    <3>1. \A k \in DOMAIN es[i].cs : es[i].cs[k].cmd \notin MyHook
      BY <2>1, <2>2, <2>4 DEF Empty
    <3> QED
      BY <2>3, <2>4, <3>1, KnownEntries DEF MineAt
  <2>5. CASE ~Empty(e)
    BY <1>1, <2>1, <2>2, <2>3, <2>5 DEF MineAt
  <2> QED
    BY <2>4, <2>5
<1>6. PeopleIn(d) = PeopleIn(es)
  <2>1. \A i, k : MineAt(d, i, k) => i \in DOMAIN es
    BY <1>1 DEF MineAt
  <2>2. \A i, k : MineAt(es, i, k) => i \in DOMAIN es
    BY DEF MineAt
  <2>3. \A i, k : MineAt(d, i, k) <=> MineAt(es, i, k)
    BY <1>5, <2>1, <2>2
  <2>4. \A i, k : MineAt(d, i, k) => d[i].cs[k] = es[i].cs[k]
    BY <1>5, <2>1
  <2> QED
    BY <2>3, <2>4, SamePeople
<1>7. \A i \in DOMAIN d : d[i] = Nothing \/ (Pruned(d[i]) = d[i] /\ ~Empty(d[i]))
  BY <1>1, <1>2, PrunedEntry
<1>8. \A c \in Ours : ~Runs(Nothing, c)
  BY KnownEntries DEF Runs
<1>9. \A i \in DOMAIN d : d[i].m # "now" => \A c \in Ours : ~Runs(d[i], c)
  BY <1>1, <1>2, <1>8, PrunedEntry
<1> QED
  BY <1>1, <1>4, <1>6, <1>7, <1>9 DEF d

\* What the adapter installs it leaves alone the next time.
LEMMA InstallFacts ==
  ASSUME NEW es \in Seq(Entry)
  PROVE  LET d == InstalledHooks(PrunedHooks(es))
         IN  /\ d \in Seq(Entry)
             /\ PeopleIn(d) = PeopleIn(es)
             /\ InstalledHooks(PrunedHooks(d)) = d
             /\ \A i \in DOMAIN d : d[i].m # "now" => \A c \in Ours : ~Runs(d[i], c)
<1> DEFINE q == PrunedHooks(es)
           d == InstalledHooks(q)
           Kept(e) == e = Nothing \/ (Pruned(e) = e /\ ~Empty(e))
           HasDirect(s) == \E i \in DOMAIN s : s[i].m = "now" /\ Runs(s[i], "direct")
           Clear(e) == e.m # "now" => \A c \in Ours : ~Runs(e, c)
<1>1. /\ q \in Seq(Entry) /\ PeopleIn(q) = PeopleIn(es)
      /\ \A i \in DOMAIN q : Kept(q[i]) /\ Clear(q[i])
  BY PruneFacts
<1> HIDE DEF q
<1>2. /\ d \in Seq(Entry) /\ PeopleIn(d) = PeopleIn(q) /\ HasDirect(d)
      /\ \A i \in DOMAIN d : Kept(d[i]) /\ Clear(d[i])
  <2>1. CASE HasDirect(q)
    BY <1>1, <2>1 DEF InstalledHooks
  <2>2. CASE ~HasDirect(q)
    <3> DEFINE n == Len(q) + 1
    <3>1. d = Append(q, EntryOf("direct"))
      BY <2>2 DEF InstalledHooks, Direct
    <3>2. "direct" \in Ours
      BY DEF Ours
    <3>3. /\ d \in Seq(Entry) /\ PeopleIn(d) = PeopleIn(q)
          /\ DOMAIN d = DOMAIN q \cup {n}
          /\ \A i \in DOMAIN q : d[i] = q[i]
          /\ d[n] = EntryOf("direct")
      BY <1>1, <3>1, <3>2, AppendOurs
    <3> DEFINE e == EntryOf("direct")
    <3>4. e \in Entry /\ e.m = "now" /\ Runs(e, "direct") /\ e.cs = <<Std("direct")>>
      BY <3>2, KnownEntries
    <3>5. Std("direct") # Gap
      BY <3>2, KnownHooks
    <3>6. ~Empty(e)
      BY <3>4, <3>5 DEF Empty
    <3>7. Pruned(e) = e
      <4>1. e = [m |-> "now", cs |-> <<Std("direct")>>]
        BY DEF EntryOf
      <4> HIDE DEF e
      <4>2. Pruned(e) = [m |-> "now", cs |-> [k \in DOMAIN e.cs |-> e.cs[k]]]
        BY <4>1 DEF Pruned
      <4> QED
        BY <3>4, <4>1, <4>2
    <3> HIDE DEF d, n, e
    <3>8. HasDirect(d)
      BY <3>3, <3>4 DEF e
    <3>9. \A i \in DOMAIN d : Kept(d[i]) /\ Clear(d[i])
      BY <1>1, <3>3, <3>4, <3>6, <3>7 DEF e
    <3> QED
      BY <3>3, <3>8, <3>9 DEF d
  <2> QED
    BY <2>1, <2>2
<1> HIDE DEF d
<1>3. PrunedHooks(d) = d
  <2>1. Pruned(Nothing) = Nothing /\ Empty(Nothing)
    <3>1. Empty(Nothing)
      BY DEF Nothing, Empty
    <3>2. Pruned(Nothing) = [m |-> "own", cs |-> [k \in {} |-> <<>>[k]]]
      BY DEF Pruned, Nothing
    <3> QED
      BY <3>1, <3>2 DEF Nothing
  <2>2. \A i \in DOMAIN d : (IF Empty(Pruned(d[i])) THEN Nothing ELSE Pruned(d[i])) = d[i]
    BY <1>2, <2>1
  <2>3. PrunedHooks(d) = [i \in DOMAIN d |-> d[i]]
    BY <2>2 DEF PrunedHooks
  <2> QED
    BY <1>2, <2>3
<1>4. InstalledHooks(d) = d
  BY <1>2 DEF InstalledHooks
<1> QED
  BY <1>1, <1>2, <1>3, <1>4 DEF d, q

---------------------------------------------------------------------------
(* Hook files: the feature switch.                                         *)

Line == FeatureLine \cup {"gap"}

\* One section at most, and one switch in it.
Tidy(c) ==
  /\ \A i, j \in DOMAIN c : c[i] = "features" /\ c[j] = "features" => i = j
  /\ \A i, j \in Section(c) : c[i] \in Switch /\ c[j] \in Switch => i = j

\* The section has a switch, which is on, and no line of the old name.
OnAt(c, k) ==
  /\ k \in Section(c) /\ c[k] = "on"
  /\ \A i \in Section(c) : i # k => c[i] \notin Switch /\ c[i] # "legacy"

LEMMA LineFacts ==
  ASSUME NEW c \in Seq(Line)
  PROVE  /\ DOMAIN c = 1 .. Len(c) /\ Len(c) \in Nat
         /\ \A i \in DOMAIN c : c[i] \in Line
         /\ Section(c) \subseteq DOMAIN c
BY DEF Section

LEMMA OnStays ==
  ASSUME NEW c \in Seq(Line), NEW k, OnAt(c, k)
  PROVE  FeatureOn(c) /\ WithFeature(c) = c
         /\ \A i, j \in Section(c) : c[i] \in Switch /\ c[j] \in Switch => i = j
<1> DEFINE heads == {i \in DOMAIN c : c[i] = "features"}
           switches == {i \in Section(c) : c[i] \in Switch}
           old == {i \in Section(c) : c[i] = "legacy"}
           Taken(i) == IF switches # {} THEN i \in switches /\ \A j \in switches : j <= i
                       ELSE i \in old /\ \A j \in old : i <= j
<1>1. /\ DOMAIN c = 1 .. Len(c) /\ Len(c) \in Nat
      /\ Section(c) \subseteq DOMAIN c
  BY LineFacts
<1>2. k \in Nat /\ k \in DOMAIN c /\ k \in Section(c) /\ c[k] = "on"
  BY <1>1 DEF OnAt
<1>3. heads # {}
  BY <1>1, <1>2 DEF Section
<1>4. switches = {k} /\ old = {}
  BY <1>2 DEF OnAt, Switch
<1>5. \A i : Taken(i) <=> i = k
  BY <1>2, <1>4
<1>6. WithFeature(c) = [i \in DOMAIN c |-> IF Taken(i) THEN "on" ELSE IF i \in old THEN "gap" ELSE c[i]]
  BY <1>3, <1>4 DEF WithFeature
<1> HIDE DEF Taken, old, heads, switches
<1>7. WithFeature(c) = [i \in DOMAIN c |-> c[i]]
  BY <1>2, <1>4, <1>5, <1>6
<1>8. WithFeature(c) = c
  BY <1>7
<1>9. FeatureOn(c)
  BY <1>2, <1>4 DEF FeatureOn, switches
<1> QED
  BY <1>4, <1>8, <1>9 DEF switches

\* Where the lines of c are in d, which has one more after the n-th.
Place(n, i) == IF i <= n THEN i ELSE i + 1
Placed(c, d) ==
  \E n \in 0 .. Len(c) :
    /\ \A i \in DOMAIN c :
         c[i] \in {"other", "text"} =>
           Place(n, i) \in DOMAIN d /\ d[Place(n, i)] = c[i]
    /\ \A j \in DOMAIN d : d[j] \in {"other", "text"} =>
         \E i \in DOMAIN c : j = Place(n, i) /\ c[i] = d[j]

SwitchedOn(c, d) ==
  /\ d \in Seq(Line) /\ Placed(c, d)
  /\ \A i, j \in DOMAIN d : d[i] = "features" /\ d[j] = "features" => i = j
  /\ \E k : OnAt(d, k)

LEMMA OnNewSection ==
  ASSUME NEW c \in Seq(Line), \A i \in DOMAIN c : c[i] # "features"
  PROVE  SwitchedOn(c, c \o <<"features", "on">>)
<1> DEFINE n == Len(c)
           d == c \o <<"features", "on">>
<1>1. DOMAIN c = 1 .. n /\ n \in Nat
  BY LineFacts
<1>2. "features" \in Line /\ "on" \in Line
  BY DEF Line, FeatureLine
<1>3. /\ d \in Seq(Line) /\ Len(d) = n + 2 /\ DOMAIN d = 1 .. n + 2
      /\ \A i \in 1 .. n : d[i] = c[i]
      /\ d[n + 1] = "features" /\ d[n + 2] = "on"
  BY <1>1, <1>2
<1> HIDE DEF d
<1>4. \A i \in DOMAIN d : d[i] = "features" => i = n + 1
  BY <1>1, <1>3
<1>5. n + 2 \in Section(d)
  <2>1. /\ n + 1 \in 1 .. n + 2 /\ \A j \in (n + 1) + 1 .. n + 2 : d[j] \notin Header
        /\ d[n + 2] \notin Header
    BY <1>1, <1>3 DEF Header
  <2> QED
    BY <1>1, <1>3, <2>1 DEF Section
<1>6. \A i \in Section(d) : i = n + 2
  <2>1. ASSUME NEW i \in Section(d) PROVE i = n + 2
    <3>1. i \in 1 .. n + 2 /\ d[i] \notin Header
      BY <1>3, <2>1 DEF Section
    <3>2. PICK s \in 1 .. i : d[s] = "features"
      BY <2>1 DEF Section
    <3>3. s \in DOMAIN d
      BY <1>1, <1>3, <3>1
    <3>4. s = n + 1
      BY <1>4, <3>2, <3>3
    <3>5. i # n + 1
      BY <1>3, <3>1 DEF Header
    <3> QED
      BY <1>1, <3>1, <3>2, <3>4, <3>5
  <2> QED
    BY <2>1
<1>7. OnAt(d, n + 2)
  BY <1>3, <1>5, <1>6 DEF OnAt
<1>8. Placed(c, d)
  <2>1. \A i \in DOMAIN c : Place(n, i) = i /\ i \in DOMAIN d /\ d[i] = c[i]
    BY <1>1, <1>3 DEF Place
  <2>2. \A j \in DOMAIN d : d[j] \in {"other", "text"} => j \in DOMAIN c
    BY <1>1, <1>3
  <2>3. n \in 0 .. Len(c)
    BY <1>1
  <2>4. \A j \in DOMAIN d : d[j] \in {"other", "text"} =>
          \E i \in DOMAIN c : j = Place(n, i) /\ c[i] = d[j]
    BY <2>1, <2>2
  <2> HIDE DEF n
  <2> QED
    BY <2>1, <2>3, <2>4 DEF Placed
<1> QED
  BY <1>3, <1>4, <1>7, <1>8 DEF SwitchedOn, d

LEMMA OnOldLine ==
  ASSUME NEW c \in Seq(Line), Tidy(c),
         \E i \in Section(c) : c[i] \in Switch \/ c[i] = "legacy"
  PROVE  SwitchedOn(c, WithFeature(c))
<1> DEFINE heads == {i \in DOMAIN c : c[i] = "features"}
           switches == {i \in Section(c) : c[i] \in Switch}
           old == {i \in Section(c) : c[i] = "legacy"}
           Taken(i) == IF switches # {} THEN i \in switches /\ \A j \in switches : j <= i
                       ELSE i \in old /\ \A j \in old : i <= j
           d == WithFeature(c)
<1>1. /\ DOMAIN c = 1 .. Len(c) /\ Len(c) \in Nat
      /\ \A i \in DOMAIN c : c[i] \in Line
      /\ Section(c) \subseteq DOMAIN c
  BY LineFacts
<1>2. switches \cup old # {}
  OBVIOUS
<1>3. heads # {}
  BY <1>1 DEF Section
<1>4. d = [i \in DOMAIN c |-> IF Taken(i) THEN "on" ELSE IF i \in old THEN "gap" ELSE c[i]]
  BY <1>2, <1>3 DEF WithFeature
<1>5. \E k \in Section(c) : /\ Taken(k)
                            /\ \A i \in Section(c) : i # k => ~Taken(i) /\ i \notin switches
  <2>1. CASE switches # {}
    <3>1. PICK k : k \in switches
      BY <2>1
    <3>2. \A i \in switches : i = k
      BY <3>1 DEF Tidy
    <3>3. k \in Section(c) /\ k \in Nat
      BY <1>1, <3>1
    <3>4. k <= k
      BY <3>3
    <3>5. \A j \in switches : j <= k
      BY <3>2, <3>4
    <3> HIDE DEF switches
    <3>6. Taken(k) /\ \A i : Taken(i) => i = k
      BY <2>1, <3>1, <3>2, <3>5
    <3> HIDE DEF Taken
    <3> QED
      BY <3>2, <3>3, <3>6
  <2>2. CASE switches = {}
    <3>1. old # {} /\ old \subseteq Nat
      BY <1>1, <1>2, <2>2
    <3> HIDE DEF old
    <3>2. PICK k \in old : \A i \in old : k <= i
      BY <3>1, FirstPosition
    <3>3. ASSUME NEW i \in old, \A j \in old : i <= j PROVE i = k
      <4>1. i <= k /\ k <= i /\ i \in Nat /\ k \in Nat
        BY <3>1, <3>2, <3>3
      <4> QED
        BY <4>1
    <3>4. Taken(k) /\ \A i : Taken(i) => i = k
      BY <2>2, <3>1, <3>2, <3>3
    <3>5. k \in Section(c)
      BY <3>2 DEF old
    <3> HIDE DEF Taken
    <3> QED
      BY <2>2, <3>4, <3>5
  <2> QED
    BY <2>1, <2>2
<1>6. PICK k \in Section(c) : /\ Taken(k)
                              /\ \A i \in Section(c) : i # k => ~Taken(i) /\ i \notin switches
  BY <1>5
<1>7. \A i : Taken(i) \/ i \in old => i \in Section(c) /\ (c[i] \in Switch \/ c[i] = "legacy")
  OBVIOUS
<1> HIDE DEF d, Taken
<1>8. DOMAIN d = DOMAIN c
      /\ \A i \in DOMAIN c : d[i] = IF Taken(i) THEN "on" ELSE IF i \in old THEN "gap" ELSE c[i]
  BY <1>4
<1>9. d \in Seq(Line)
  <2>1. "on" \in Line /\ "gap" \in Line
    BY DEF Line, FeatureLine
  <2>2. \A i \in DOMAIN d : d[i] \in Line
    BY <1>1, <1>8, <2>1
  <2> QED
    BY <1>1, <1>4, <1>8, <2>2
<1>10. \A i \in DOMAIN c : /\ d[i] \in Header <=> c[i] \in Header
                           /\ d[i] = "features" <=> c[i] = "features"
  BY <1>7, <1>8 DEF Header, Switch
<1>11. Section(d) = Section(c)
  <2>1. ASSUME NEW i \in DOMAIN c PROVE i \in Section(d) <=> i \in Section(c)
    <3>1. \A j \in 1 .. i : j \in DOMAIN c
      BY <1>1, <2>1
    <3>2. \A s \in 1 .. i : \A j \in s + 1 .. i : j \in 1 .. i
      BY <1>1, <2>1
    <3> QED
      BY <1>8, <1>10, <3>1, <3>2 DEF Section
  <2> QED
    BY <1>8, <2>1 DEF Section
<1>12. OnAt(d, k)
  <2>1. d[k] = "on" /\ k \in Section(d)
    BY <1>1, <1>6, <1>8, <1>11
  <2>2. ASSUME NEW i \in Section(d), i # k PROVE d[i] \notin Switch /\ d[i] # "legacy"
    <3>1. i \in Section(c) /\ i \in DOMAIN c /\ ~Taken(i) /\ i \notin switches
      BY <1>1, <1>6, <1>11, <2>2
    <3>2. d[i] = IF i \in old THEN "gap" ELSE c[i]
      BY <1>8, <3>1
    <3> QED
      BY <3>1, <3>2 DEF Switch
  <2> QED
    BY <2>1, <2>2 DEF OnAt
<1>13. Placed(c, d)
  <2> DEFINE n == Len(c)
  <2>1. \A i \in DOMAIN c : Place(n, i) = i
    BY <1>1 DEF Place
  <2>2. \A i \in DOMAIN c : c[i] \in {"other", "text"} => d[i] = c[i]
    BY <1>7, <1>8 DEF Switch
  <2>3. \A i \in DOMAIN d : d[i] \in {"other", "text"} => d[i] = c[i]
    BY <1>8
  <2>4. n \in 0 .. Len(c)
    BY <1>1
  <2> HIDE DEF n
  <2>5. \A i \in DOMAIN c : c[i] \in {"other", "text"} =>
          Place(n, i) \in DOMAIN d /\ d[Place(n, i)] = c[i]
    BY <1>8, <2>1, <2>2
  <2>6. \A j \in DOMAIN d : d[j] \in {"other", "text"} =>
          \E i \in DOMAIN c : j = Place(n, i) /\ c[i] = d[j]
    BY <1>8, <2>1, <2>3
  <2> QED
    BY <2>4, <2>5, <2>6 DEF Placed
<1>14. \A i, j \in DOMAIN d : d[i] = "features" /\ d[j] = "features" => i = j
  BY <1>8, <1>10 DEF Tidy
<1> QED
  BY <1>9, <1>12, <1>13, <1>14 DEF SwitchedOn, d

\* The last line of the section.
EndOf(c, m) == m \in {i \in DOMAIN c : c[i] = "features"} \cup Section(c) /\ m + 1 \notin Section(c)

LEMMA SectionEnds ==
  ASSUME NEW c \in Seq(Line), NEW h \in DOMAIN c, c[h] = "features"
  PROVE  \E m : EndOf(c, m)
<1> DEFINE T == {m \in Nat : h <= m /\ m + 1 \notin Section(c)}
<1>1. /\ DOMAIN c = 1 .. Len(c) /\ Len(c) \in Nat
      /\ Section(c) \subseteq DOMAIN c
  BY LineFacts
<1>2. Len(c) \in T
  BY <1>1
<1>3. T \subseteq Nat
  OBVIOUS
<1> HIDE DEF T
<1>4. PICK m \in T : \A x \in T : m <= x
  BY <1>2, <1>3, FirstPosition
<1>5. m \in Nat /\ h <= m /\ m + 1 \notin Section(c) /\ h \in Nat
  BY <1>1, <1>4 DEF T
<1>6. CASE m = h
  BY <1>5, <1>6 DEF EndOf
<1>7. CASE m # h
  <2>1. m - 1 \in Nat /\ h <= m - 1 /\ ~(m <= m - 1) /\ (m - 1) + 1 = m
    BY <1>5, <1>7
  <2>2. m - 1 \notin T
    BY <1>4, <2>1
  <2>3. m \in Section(c)
    BY <2>1, <2>2 DEF T
  <2> QED
    BY <1>5, <2>3 DEF EndOf
<1> QED
  BY <1>6, <1>7

LEMMA OnAtEnd ==
  ASSUME NEW c \in Seq(Line), Tidy(c), NEW h \in DOMAIN c, c[h] = "features",
         \A i \in Section(c) : c[i] \notin Switch /\ c[i] # "legacy",
         NEW last, EndOf(c, last)
  PROVE  SwitchedOn(c, [i \in 1 .. Len(c) + 1 |->
               IF i <= last THEN c[i] ELSE IF i = last + 1 THEN "on" ELSE c[i - 1]])
<1> DEFINE n == Len(c)
           d == [i \in 1 .. n + 1 |->
               IF i <= last THEN c[i] ELSE IF i = last + 1 THEN "on" ELSE c[i - 1]]
<1>1. /\ DOMAIN c = 1 .. n /\ n \in Nat
      /\ \A i \in DOMAIN c : c[i] \in Line
      /\ Section(c) \subseteq DOMAIN c
  BY LineFacts
<1>2. last \in 1 .. n /\ last + 1 \notin Section(c)
  BY <1>1 DEF EndOf
<1>3. h \in 1 .. n /\ \A i \in 1 .. n : c[i] = "features" => i = h
  BY <1>1 DEF Tidy
<1>4. h <= last /\ \A j \in h + 1 .. last : c[j] \notin Header
  <2>1. CASE c[last] = "features"
    BY <1>2, <1>3, <2>1
  <2>2. CASE last \in Section(c)
    <3>1. PICK s \in 1 .. last : c[s] = "features" /\ \A j \in s + 1 .. last : c[j] \notin Header
      BY <2>2 DEF Section
    <3>2. s = h
      BY <1>2, <1>3, <3>1
    <3> QED
      BY <1>2, <1>3, <3>1, <3>2
  <2> QED
    BY <2>1, <2>2 DEF EndOf
<1>5. /\ DOMAIN d = 1 .. n + 1 /\ d[last + 1] = "on"
      /\ \A i \in 1 .. last : d[i] = c[i]
      /\ \A i \in last + 1 .. n : d[i + 1] = c[i]
      /\ \A i \in last + 2 .. n + 1 : d[i] = c[i - 1] /\ i - 1 \in last + 1 .. n
  BY <1>1, <1>2
<1>6. d \in Seq(Line)
  <2>1. "on" \in Line
    BY DEF Line, FeatureLine
  <2>2. \A i \in 1 .. n + 1 : d[i] \in Line
    BY <1>1, <1>2, <2>1
  <2> QED
    BY <1>1, <2>2
<1> HIDE DEF d, n
<1>7. \A i \in DOMAIN d : i \in 1 .. last \/ i = last + 1 \/ i \in last + 2 .. n + 1
  BY <1>1, <1>2, <1>5
<1>8. \A i \in DOMAIN d : d[i] = "features" => i = h
  <2>1. ASSUME NEW i \in DOMAIN d, d[i] = "features" PROVE i = h
    <3>1. CASE i \in 1 .. last
      BY <1>1, <1>2, <1>3, <1>5, <2>1, <3>1
    <3>2. CASE i = last + 1
      BY <1>5, <2>1, <3>2
    <3>3. CASE i \in last + 2 .. n + 1
      <4>1. c[i - 1] = "features" /\ i - 1 \in last + 1 .. n
        BY <1>5, <2>1, <3>3
      <4> QED
        BY <1>1, <1>2, <1>3, <1>4, <4>1
    <3> QED
      BY <1>7, <3>1, <3>2, <3>3
  <2> QED
    BY <2>1
<1>9. last + 1 \in Section(d)
  <2>1. h \in 1 .. last + 1 /\ d[h] = "features" /\ d[last + 1] \notin Header
    BY <1>2, <1>3, <1>4, <1>5 DEF Header
  <2>2. \A j \in h + 1 .. last + 1 : d[j] \notin Header
    <3>1. \A j \in h + 1 .. last + 1 : j = last + 1 \/ (j \in h + 1 .. last /\ j \in 1 .. last)
      BY <1>2, <1>3
    <3> QED
      BY <1>4, <1>5, <2>1, <3>1
  <2>3. last + 1 \in DOMAIN d
    BY <1>1, <1>2, <1>5
  <2> QED
    BY <2>1, <2>2, <2>3 DEF Section
<1>10. ASSUME NEW i \in Section(d), i # last + 1
       PROVE  i \in Section(c) /\ i \in 1 .. last
  <2>1. i \in DOMAIN d /\ d[i] \notin Header
    BY DEF Section
  <2>2. PICK s \in 1 .. i : d[s] = "features" /\ \A j \in s + 1 .. i : d[j] \notin Header
    BY DEF Section
  <2>3. s = h
    <3>1. s \in DOMAIN d
      BY <1>1, <1>5, <2>1
    <3> QED
      BY <1>8, <2>2, <3>1
  <2>4. CASE i \in 1 .. last
    <3>1. c[i] \notin Header /\ h \in 1 .. i /\ i \in DOMAIN c
      BY <1>1, <1>2, <1>5, <2>1, <2>2, <2>3, <2>4
    <3>2. \A j \in h + 1 .. i : j \in 1 .. last
      BY <1>2, <1>3, <2>4
    <3>3. \A j \in h + 1 .. i : c[j] \notin Header
      BY <1>5, <2>2, <2>3, <3>2
    <3> QED
      BY <2>4, <3>1, <3>3 DEF Section
  <2>5. CASE i \in last + 2 .. n + 1
    <3>1. last + 1 \in 1 .. n /\ h \in 1 .. last + 1 /\ d[(last + 1) + 1] = c[last + 1]
      BY <1>1, <1>2, <1>3, <1>4, <1>5, <2>5
    <3>2. c[last + 1] \notin Header
      <4>1. (last + 1) + 1 \in h + 1 .. i
        BY <1>1, <1>2, <1>3, <1>4, <2>5
      <4> QED
        BY <2>2, <2>3, <3>1, <4>1
    <3>3. \A j \in h + 1 .. last + 1 : j = last + 1 \/ j \in h + 1 .. last
      BY <1>2, <1>3
    <3>4. \A j \in h + 1 .. last + 1 : c[j] \notin Header
      BY <1>4, <3>2, <3>3
    <3>5. last + 1 \in Section(c)
      BY <1>1, <3>1, <3>2, <3>4 DEF Section
    <3> QED
      BY <1>2, <3>5
  <2> QED
    BY <1>7, <1>10, <2>1, <2>4, <2>5
<1>11. OnAt(d, last + 1)
  BY <1>5, <1>9, <1>10 DEF OnAt
<1>12. Placed(c, d)
  <2>1. last \in 0 .. n
    BY <1>1, <1>2
  <2>2. ASSUME NEW i \in DOMAIN c PROVE Place(last, i) \in DOMAIN d /\ d[Place(last, i)] = c[i]
    <3>1. i \in 1 .. n
      BY <1>1
    <3>2. CASE i <= last
      <4>1. Place(last, i) = i /\ i \in 1 .. last /\ i \in DOMAIN d
        BY <1>1, <1>2, <1>5, <3>1, <3>2 DEF Place
      <4> QED
        BY <1>5, <4>1
    <3>3. CASE ~(i <= last)
      <4>1. Place(last, i) = i + 1 /\ i \in last + 1 .. n /\ i + 1 \in DOMAIN d
        BY <1>1, <1>2, <1>5, <3>1, <3>3 DEF Place
      <4> QED
        BY <1>5, <4>1
    <3> QED
      BY <3>2, <3>3
  <2>3. ASSUME NEW j \in DOMAIN d, d[j] \in {"other", "text"}
        PROVE  \E i \in DOMAIN c : j = Place(last, i) /\ c[i] = d[j]
    <3>1. CASE j \in 1 .. last
      <4>1. j \in DOMAIN c /\ Place(last, j) = j /\ c[j] = d[j]
        BY <1>1, <1>2, <1>5, <3>1 DEF Place
      <4> QED
        BY <4>1
    <3>2. CASE j \in last + 2 .. n + 1
      <4>1. j - 1 \in DOMAIN c /\ Place(last, j - 1) = j /\ c[j - 1] = d[j]
        BY <1>1, <1>2, <1>5, <3>2 DEF Place
      <4> QED
        BY <4>1
    <3>3. j # last + 1
      BY <1>5, <2>3
    <3> QED
      BY <1>7, <3>1, <3>2, <3>3
  <2> QED
    BY <2>1, <2>2, <2>3 DEF Placed, n
<1> QED
  BY <1>6, <1>8, <1>11, <1>12 DEF SwitchedOn, d, n

LEMMA SwitchIsSet ==
  ASSUME NEW c \in Seq(Line), Tidy(c)
  PROVE  SwitchedOn(c, WithFeature(c))
<1> DEFINE heads == {i \in DOMAIN c : c[i] = "features"}
           found == {i \in Section(c) : c[i] \in Switch} \cup {i \in Section(c) : c[i] = "legacy"}
<1>1. CASE heads = {}
  <2>1. WithFeature(c) = c \o <<"features", "on">>
    BY <1>1 DEF WithFeature
  <2> QED
    BY <1>1, <2>1, OnNewSection
<1>2. CASE heads # {} /\ found # {}
  BY <1>2, OnOldLine
<1>3. CASE heads # {} /\ found = {}
  <2> DEFINE last == CHOOSE i \in heads \cup Section(c) : i + 1 \notin Section(c)
  <2>1. PICK h \in DOMAIN c : c[h] = "features"
    BY <1>3
  <2>2. \E m : EndOf(c, m)
    BY <2>1, SectionEnds
  <2>3. EndOf(c, last)
    BY <2>2 DEF EndOf
  <2>4. WithFeature(c) = [i \in 1 .. Len(c) + 1 |->
               IF i <= last THEN c[i] ELSE IF i = last + 1 THEN "on" ELSE c[i - 1]]
    BY <1>3 DEF WithFeature
  <2>5. \A i \in Section(c) : c[i] \notin Switch /\ c[i] # "legacy"
    BY <1>3
  <2> HIDE DEF last
  <2> QED
    BY <2>1, <2>3, <2>4, <2>5, OnAtEnd
<1> QED
  BY <1>1, <1>2, <1>3

---------------------------------------------------------------------------
(* Hook files: the steps.                                                  *)

HookInv == HookTypeOK /\ PeopleKept /\ InitSettles /\ AdapterSettles /\ Tidy(config)

LEMMA SwitchSettles ==
  ASSUME config \in Seq(Line), Tidy(config)
  PROVE  FeatureSettles
<1> DEFINE d == WithFeature(config)
<1>1. SwitchedOn(config, d)
  BY SwitchIsSet
<1> HIDE DEF d
<1>2. d \in Seq(Line) /\ Placed(config, d) /\ \E k : OnAt(d, k)
  BY <1>1 DEF SwitchedOn
<1>3. FeatureOn(d) /\ WithFeature(d) = d
  BY <1>2, OnStays
<1> QED
  BY <1>2, <1>3 DEF FeatureSettles, Placed, Place, d

LEMMA SwitchIsTidy ==
  ASSUME NEW c \in Seq(Line), Tidy(c)
  PROVE  WithFeature(c) \in Seq(Line) /\ Tidy(WithFeature(c))
<1> DEFINE d == WithFeature(c)
<1>1. SwitchedOn(c, d)
  BY SwitchIsSet
<1> HIDE DEF d
<1>2. d \in Seq(Line) /\ \E k : OnAt(d, k)
  BY <1>1 DEF SwitchedOn
<1>3. \A i, j \in Section(d) : d[i] \in Switch /\ d[j] \in Switch => i = j
  BY <1>2, OnStays
<1> QED
  BY <1>1, <1>2, <1>3 DEF SwitchedOn, Tidy, d

LEMMA HooksStart == HooksInit => HookInv
<1> SUFFICES ASSUME HooksInit PROVE HookInv
  OBVIOUS
<1>1. broken = FALSE /\ people = {} /\ backup = {} /\ latest = "people"
  BY DEF HooksInit
<1>2. prov \in {"claude", "codex"} /\ touches \in 0 .. MaxTouches
  BY HookAssumption DEF HooksInit
<1>3. entries = <<>> \/ entries = <<[m |-> "earlier", cs |-> <<Std("dispatch")>>]>>
        \/ entries = <<EntryOf("plugin")>>
  BY DEF HooksInit
<1>4. entries \in Seq(Entry) /\ PeopleIn(entries) = {}
  <2>1. ASSUME NEW c \in Ours, NEW m \in Matcher, entries = <<[m |-> m, cs |-> <<Std(c)>>]>>
        PROVE  entries \in Seq(Entry) /\ PeopleIn(entries) = {}
    <3>1. Std(c) \in HookOrGap /\ Std(c).cmd \notin MyHook
      BY KnownHooks DEF HookOrGap
    <3>2. [m |-> m, cs |-> <<Std(c)>>] \in Entry
      BY <3>1 DEF Entry, HookOrGap
    <3>3. \A x, y : ~MineAt(entries, x, y)
      BY <2>1, <3>1 DEF MineAt
    <3> QED
      BY <2>1, <3>2, <3>3, PeopleAre
  <2>2. entries = <<>> => entries \in Seq(Entry) /\ PeopleIn(entries) = {}
    BY DEF PeopleIn
  <2>3. "dispatch" \in Ours /\ "plugin" \in Ours /\ "earlier" \in Matcher /\ "now" \in Matcher
    BY DEF Ours, Matcher
  <2> QED
    BY <1>3, <2>1, <2>2, <2>3 DEF EntryOf
<1>5. config \in Seq(Line) /\ Tidy(config)
  <2>1. CASE config = <<>>
    BY <2>1 DEF Tidy, Section
  <2>2. CASE config # <<>>
    <3>1. /\ config \in {c \in UNION {[1 .. n -> FeatureLine] : n \in 1 .. MaxLines} :
                           \A i, j \in DOMAIN c : i # j =>
                             /\ c[i] = "features" => c[j] # "features"
                             /\ {i, j} \subseteq Section(c) => c[i] \notin Switch \/ c[j] \notin Switch}
      BY <2>2 DEF HooksInit
    <3>2. PICK n \in 1 .. MaxLines : config \in [1 .. n -> FeatureLine]
      BY <3>1
    <3>3. n \in Nat
      BY <3>2, HookAssumption
    <3>4. config \in Seq(Line)
      <4>1. config \in [1 .. n -> Line]
        BY <3>2 DEF Line
      <4> QED
        BY <3>3, <4>1
    <3>5. Section(config) \subseteq DOMAIN config
      BY DEF Section
    <3> QED
      BY <3>1, <3>4, <3>5 DEF Tidy
  <2> QED
    BY <2>1, <2>2
<1> QED
  BY <1>1, <1>2, <1>4, <1>5
  DEF HookInv, HookTypeOK, PeopleKept, InitSettles, AdapterSettles, Line

LEMMA EditedAreEntries ==
  ASSUME entries \in Seq(Entry), NEW d \in EditedEntries
  PROVE  d \in Seq(Entry)
<1>1. \A h \in MyHook : Std(h) \in HookOrGap
  BY KnownHooks DEF HookOrGap
<1>2. There(entries) \subseteq DOMAIN entries
  BY DEF There
<1>3. \A i \in DOMAIN entries : entries[i] \in Entry
  BY ListFacts
<1>4. ASSUME NEW i \in DOMAIN entries, NEW e \in Entry
      PROVE  [entries EXCEPT ![i] = e] \in Seq(Entry)
  OBVIOUS
<1>5. ASSUME NEW e \in Entry, NEW m \in Matcher, NEW cs \in Seq(HookOrGap)
      PROVE  [e EXCEPT !.m = m] \in Entry /\ [e EXCEPT !.cs = cs] \in Entry
  BY DEF Entry, HookOrGap
<1>6. CASE \E m \in Matcher, h \in MyHook : d = Append(entries, [m |-> m, cs |-> <<Std(h)>>])
  <2>1. PICK m \in Matcher, h \in MyHook : d = Append(entries, [m |-> m, cs |-> <<Std(h)>>])
    BY <1>6
  <2>2. [m |-> m, cs |-> <<Std(h)>>] \in Entry
    BY <1>1 DEF Entry, HookOrGap
  <2> QED
    BY <2>1, <2>2
<1>7. CASE \E i \in There(entries), h \in MyHook : d = [entries EXCEPT ![i].cs = Append(@, Std(h))]
  <2>1. PICK i \in There(entries), h \in MyHook : d = [entries EXCEPT ![i].cs = Append(@, Std(h))]
    BY <1>7
  <2> DEFINE new == Append(entries[i].cs, Std(h))
  <2>2. i \in DOMAIN entries /\ entries[i].cs \in Seq(HookOrGap)
    BY <1>2, <1>3, EntryFacts
  <2>3. new \in Seq(HookOrGap)
    BY <1>1, <2>2
  <2>4. d = [entries EXCEPT ![i] = [entries[i] EXCEPT !.cs = new]]
    BY <2>1
  <2> HIDE DEF new
  <2>5. [entries[i] EXCEPT !.cs = new] \in Entry
    BY <1>3, <2>2, <2>3 DEF Entry, HookOrGap
  <2> QED
    BY <1>4, <2>2, <2>4, <2>5
<1>8. CASE \E i \in There(entries), m \in Matcher : d = [entries EXCEPT ![i].m = m]
  <2>1. PICK i \in There(entries), m \in Matcher : d = [entries EXCEPT ![i].m = m]
    BY <1>8
  <2>2. i \in DOMAIN entries
    BY <1>2
  <2>3. d = [entries EXCEPT ![i] = [entries[i] EXCEPT !.m = m]]
    BY <2>1
  <2>4. [entries[i] EXCEPT !.m = m] \in Entry
    BY <1>3, <2>2 DEF Entry
  <2> QED
    BY <1>4, <2>2, <2>3, <2>4
<1>9. CASE \E i \in There(entries) : d = Append(entries, entries[i])
  <2>1. PICK i \in There(entries) : d = Append(entries, entries[i])
    BY <1>9
  <2>2. entries[i] \in Entry
    BY <1>2, <1>3
  <2> QED
    BY <2>1, <2>2
<1>10. CASE \E i \in There(entries) : d = [entries EXCEPT ![i] = Nothing]
  BY <1>2, <1>4, <1>10, KnownEntries
<1>11. CASE \E i \in There(entries) : \E k \in DOMAIN entries[i].cs :
              entries[i].cs[k] # Gap /\ d = [entries EXCEPT ![i].cs[k].std = FALSE]
  <2>0. PICK i \in There(entries) : \E k \in DOMAIN entries[i].cs :
              entries[i].cs[k] # Gap /\ d = [entries EXCEPT ![i].cs[k].std = FALSE]
    BY <1>11
  <2>1. PICK k \in DOMAIN entries[i].cs :
              entries[i].cs[k] # Gap /\ d = [entries EXCEPT ![i].cs[k].std = FALSE]
    BY <2>0
  <2> DEFINE cs == entries[i].cs
             h == [cs[k] EXCEPT !.std = FALSE]
             new == [cs EXCEPT ![k] = h]
  <2>2. i \in DOMAIN entries /\ entries[i] \in Entry
    BY <1>2, <1>3
  <2>3. cs \in Seq(HookOrGap) /\ k \in DOMAIN cs /\ cs[k] \in HookOrGap
    BY <2>1, <2>2, EntryFacts
  <2>4. h \in HookOrGap
    BY <2>1, <2>3 DEF HookOrGap, Hooks
  <2>5. d = [entries EXCEPT ![i] = [entries[i] EXCEPT !.cs = new]]
    BY <2>1
  <2> HIDE DEF cs, h
  <2>6. new \in Seq(HookOrGap)
    BY <2>3, <2>4
  <2> HIDE DEF new
  <2>7. [entries[i] EXCEPT !.cs = new] \in Entry
    BY <2>2, <2>6 DEF Entry, HookOrGap
  <2> QED
    BY <1>4, <2>2, <2>5, <2>7
<1> DEFINE OwnEntry == {Append(entries, [m |-> m, cs |-> <<Std(h)>>]) : m \in Matcher, h \in MyHook}
           Beside == {[entries EXCEPT ![i].cs = Append(@, Std(h))] : i \in There(entries), h \in MyHook}
           Rematched == {[entries EXCEPT ![i].m = m] : i \in There(entries), m \in Matcher}
           Copied == {Append(entries, entries[i]) : i \in There(entries)}
           Dropped == {[entries EXCEPT ![i] = Nothing] : i \in There(entries)}
           Altered == UNION {{[entries EXCEPT ![i].cs[k].std = FALSE] :
                     k \in {j \in DOMAIN entries[i].cs : entries[i].cs[j] # Gap}} :
                   i \in There(entries)}
<1>12. d \in OwnEntry \/ d \in Beside \/ d \in Rematched \/ d \in Copied \/ d \in Dropped \/ d \in Altered
  <2>1. EditedEntries = OwnEntry \cup Beside \cup Rematched \cup Copied \cup Dropped \cup Altered
    BY DEF EditedEntries
  <2> HIDE DEF OwnEntry, Beside, Rematched, Copied, Dropped, Altered
  <2> QED
    BY <2>1
<1>13. d \in Altered => \E i \in There(entries) : \E k \in DOMAIN entries[i].cs :
              entries[i].cs[k] # Gap /\ d = [entries EXCEPT ![i].cs[k].std = FALSE]
  OBVIOUS
<1>14. d \in OwnEntry =>
        \E m \in Matcher, h \in MyHook : d = Append(entries, [m |-> m, cs |-> <<Std(h)>>])
  OBVIOUS
<1>15. d \in Beside =>
        \E i \in There(entries), h \in MyHook : d = [entries EXCEPT ![i].cs = Append(@, Std(h))]
  OBVIOUS
<1>16. d \in Rematched => \E i \in There(entries), m \in Matcher : d = [entries EXCEPT ![i].m = m]
  OBVIOUS
<1>17. d \in Copied => \E i \in There(entries) : d = Append(entries, entries[i])
  OBVIOUS
<1>18. d \in Dropped => \E i \in There(entries) : d = [entries EXCEPT ![i] = Nothing]
  OBVIOUS
<1> HIDE DEF OwnEntry, Beside, Rematched, Copied, Dropped, Altered
<1> QED
  BY <1>6, <1>7, <1>8, <1>9, <1>10, <1>11, <1>12, <1>13, <1>14, <1>15, <1>16, <1>17, <1>18, Zenon

LEMMA InitKeeps == HookInv /\ RunInit => HookInv'
<1> SUFFICES ASSUME HookInv, RunInit PROVE HookInv'
  OBVIOUS
<1>0. UNCHANGED <<prov, broken, people, backup, touches, config>>
  BY DEF RunInit
<1>1. entries \in Seq(Entry) /\ PeopleIn(entries) = people /\ HookTypeOK
  BY DEF HookInv, HookTypeOK, PeopleKept
<1>2. Tidy(config)'
  BY <1>0 DEF HookInv, Tidy, Section
<1>3. CASE Legacy /\ entries' = MigratedHooks(entries) /\ latest' = "migrate"
  <2> DEFINE d == MigratedHooks(entries)
  <2>1. /\ d \in Seq(Entry) /\ PeopleIn(d) = PeopleIn(entries)
        /\ \E i \in DOMAIN d : Is(d[i], "dispatch")
        /\ \A i \in DOMAIN d : ~OldPlugin(d[i])
    BY <1>1, MigrateFacts
  <2>2. entries' = d
    BY <1>3
  <2> HIDE DEF d
  <2>3. HookTypeOK'
    BY <1>0, <1>1, <1>3, <2>1, <2>2 DEF HookTypeOK
  <2>4. PeopleKept'
    BY <1>0, <1>1, <2>1, <2>2 DEF PeopleKept
  <2>5. InitSettles'
    <3>1. ~Legacy'
      BY <1>0, <2>1, <2>2 DEF Legacy, OldPlugin
    <3> QED
      BY <1>3, <2>1, <2>2, <3>1 DEF InitSettles
  <2>6. AdapterSettles'
    BY <1>3 DEF AdapterSettles
  <2> QED
    BY <1>2, <2>3, <2>4, <2>5, <2>6 DEF HookInv
<1>4. CASE ~Ambiguous(entries) /\ entries' = MergedHooks(entries) /\ latest' = "merge"
  <2> DEFINE d == MergedHooks(entries)
  <2>1. /\ d \in Seq(Entry) /\ PeopleIn(d) = PeopleIn(entries)
        /\ \E i \in DOMAIN d : Owning(d) = {i} /\ d[i].m = "now"
        /\ ~Ambiguous(d) /\ MergedHooks(d) = d
    BY <1>1, <1>4, MergeFacts
  <2>2. entries' = d
    BY <1>4
  <2> HIDE DEF d
  <2>3. HookTypeOK'
    BY <1>0, <1>1, <1>4, <2>1, <2>2 DEF HookTypeOK
  <2>4. PeopleKept'
    BY <1>0, <1>1, <2>1, <2>2 DEF PeopleKept
  <2>5. InitSettles'
    <3>1. /\ Owning(entries)' = Owning(d)
          /\ Ambiguous(entries)' = Ambiguous(d)
          /\ MergedHooks(entries)' = MergedHooks(d)
          /\ Matching(entries)' = Matching(d)
      BY <1>0, <2>2 DEF Owning, Ambiguous, MergedHooks, Matching, Eligible, Accepted
    <3>2. (\A j \in There(d) : Only(d[j], "dispatch") /\ j \in Matching(d))
             => HookStatus(d) = {"managed"}
      BY <2>1, StatusFacts
    <3> QED
      BY <1>4, <2>1, <2>2, <3>1, <3>2 DEF InitSettles
  <2>6. AdapterSettles'
    BY <1>4 DEF AdapterSettles
  <2> QED
    BY <1>2, <2>3, <2>4, <2>5, <2>6 DEF HookInv
<1> QED
  BY <1>3, <1>4 DEF RunInit

LEMMA InstallKeeps == HookInv /\ InstallHooks => HookInv'
<1> SUFFICES ASSUME HookInv, InstallHooks PROVE HookInv'
  OBVIOUS
<1>1. entries \in Seq(Entry) /\ PeopleIn(entries) = people /\ HookTypeOK
  BY DEF HookInv, HookTypeOK, PeopleKept
<1> DEFINE before == IF broken THEN <<>> ELSE entries
           d == InstalledHooks(PrunedHooks(before))
<1>2. before \in Seq(Entry)
  BY <1>1
<1>3. PeopleIn(before) = IF broken THEN {} ELSE people
  BY <1>1 DEF PeopleIn
<1>4. entries' = d /\ broken' = FALSE /\ latest' = "adapter" /\ config' = WithFeature(config)
      /\ UNCHANGED <<prov, touches>>
  BY DEF InstallHooks
<1> HIDE DEF before
<1>5. /\ d \in Seq(Entry) /\ PeopleIn(d) = PeopleIn(before)
      /\ InstalledHooks(PrunedHooks(d)) = d
      /\ \A i \in DOMAIN d : d[i].m # "now" => \A c \in Ours : ~Runs(d[i], c)
  BY <1>2, InstallFacts
<1> HIDE DEF d
<1>6. config' \in Seq(Line) /\ Tidy(config')
  BY <1>4, SwitchIsTidy DEF HookInv, HookTypeOK, Line
<1>7. people' = PeopleIn(before)
  BY <1>3 DEF InstallHooks
<1>8. backup' \subseteq Hooks /\ people' \subseteq Nat \X Nat \X Hooks
  <2>1. \A x \in people : x[3] \in Hooks
    BY <1>1 DEF HookTypeOK
  <2>2. people \subseteq Nat \X Nat \X Hooks /\ backup \subseteq Hooks
    BY <1>1 DEF HookTypeOK
  <2> QED
    BY <2>1, <2>2 DEF InstallHooks
<1>9. HookTypeOK'
  BY <1>1, <1>4, <1>5, <1>6, <1>8 DEF HookTypeOK, Line
<1>10. PeopleKept'
  BY <1>4, <1>5, <1>7 DEF PeopleKept
<1>11. InitSettles'
  BY <1>4 DEF InitSettles
<1>12. AdapterSettles'
  BY <1>4, <1>5 DEF AdapterSettles
<1>13. Tidy(config)'
  BY <1>6 DEF Tidy, Section
<1> QED
  BY <1>9, <1>10, <1>11, <1>12, <1>13 DEF HookInv

LEMMA EditKeeps == HookInv /\ EditHooks => HookInv'
<1> SUFFICES ASSUME HookInv, EditHooks PROVE HookInv'
  OBVIOUS
<1>1. HookTypeOK /\ entries \in Seq(Entry)
  BY DEF HookInv, HookTypeOK
<1>2. /\ touches < MaxTouches /\ touches' = touches + 1
      /\ entries' \in EditedEntries /\ broken' \in BOOLEAN
      /\ people' = PeopleIn(entries') /\ latest' = "people"
      /\ UNCHANGED <<prov, backup, config>>
  BY DEF EditHooks
<1>3. entries' \in Seq(Entry)
  BY <1>1, <1>2, EditedAreEntries
<1>4. people' \subseteq Nat \X Nat \X Hooks
  BY <1>2, <1>3, PeopleType
<1>5. touches' \in 0 .. MaxTouches
  BY <1>1, <1>2, HookAssumption DEF HookTypeOK
<1>6. HookTypeOK'
  BY <1>1, <1>2, <1>3, <1>4, <1>5 DEF HookTypeOK
<1>7. PeopleKept' /\ InitSettles' /\ AdapterSettles'
  BY <1>2 DEF PeopleKept, InitSettles, AdapterSettles
<1>8. Tidy(config)'
  BY <1>2 DEF HookInv, Tidy, Section
<1> QED
  BY <1>6, <1>7, <1>8 DEF HookInv

LEMMA HooksKeep == HookInv /\ [HooksNext]_hookVars => HookInv'
<1>1. HookInv /\ UNCHANGED hookVars => HookInv'
  BY ZenonT(30) DEF HookInv, hookVars, HookTypeOK, PeopleKept, InitSettles, AdapterSettles, Tidy, Section,
         Owning, Matching, Eligible, Ambiguous, Accepted, MergedHooks, Legacy, OldPlugin
<1> QED
  BY <1>1, InitKeeps, InstallKeeps, EditKeeps DEF HooksNext

LEMMA HooksHold == HookInv => HookTypeOK /\ HooksSettle
<1>1. HookInv => config \in Seq(Line)
  BY DEF HookInv, HookTypeOK, Line
<1> QED
  BY <1>1, SwitchSettles DEF HookInv, HooksSettle

HooksSpec == HooksInit /\ [][HooksNext]_hookVars

LEMMA HookInvHolds == HooksSpec => []HookInv
  BY HooksStart, HooksKeep, PTL DEF HooksSpec

\* The variables of the hook files have their types.
THEOREM HookTypes == HooksSpec => []HookTypeOK
  BY HookInvHolds, HooksHold, PTL

\* However init, the Codex adapter and people take turns at a hook file, of
\* any length: no hook of people's is lost, doubled or moved; after init the
\* provider finds Playbook's hook once, after an installation none under an
\* old matcher, and either of them, repeated, changes nothing; and the feature
\* switch of a config.toml comes on with every other line left in its place
\* (tasks/reconcile.py, tasks/legacy_migration.py, provider/codex_hooks.py).
THEOREM HooksAlwaysSettle == HooksSpec => []HooksSettle
  BY HookInvHolds, HooksHold, PTL
=============================================================================
