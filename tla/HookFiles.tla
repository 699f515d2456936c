------------------------------ MODULE HookFiles ------------------------------
(***************************************************************************)
(* The file in which a provider finds its hooks: .claude/settings.local.json*)
(* or .codex/hooks.json, as `pb-tasks init` merges Playbook's hook into it *)
(* (tasks/reconcile.py, tasks/legacy_migration.py), as the Codex adapter   *)
(* installs its own (provider/codex_hooks.py), and as people edit it.      *)
(* Both write the file again as a whole.                                   *)
(*                                                                         *)
(*   prov       whose file it is                                           *)
(*   entries    the entries of one event: a matcher, and the hooks that    *)
(*              run for the tools it matches                               *)
(*   broken     somebody left the file so that it cannot be parsed         *)
(*   people     the hooks of people with their places, as people left them *)
(*   backup     those in the copies of broken files                        *)
(*   latest     who wrote the file last                                    *)
(*   touches    how often people edited it                                 *)
(*   config     the lines of ~/.codex/config.toml                          *)
(*                                                                         *)
(* A hook is its command and whether its other fields are those of this    *)
(* version: "dispatch" goes through pb-tasks, "direct" runs a script by    *)
(* its path, and "plugin" the script of the old plugin.  The script is the *)
(* same.  A hook, entry or line that was removed leaves a gap, so that the *)
(* order of the others is that of their places.                            *)
(***************************************************************************)
EXTENDS Naturals, Sequences, FiniteSets

CONSTANTS
    MyHook,       \* hooks of people's
    MaxTouches,   \* bound on edits by people
    MaxLines      \* bound on the lines of a config.toml

ASSUME HookAssumption ==
    /\ MyHook \cap {"dispatch", "direct", "plugin", "gap"} = {}
    /\ MaxTouches \in Nat /\ MaxLines \in Nat

VARIABLES prov, entries, broken, people, backup, latest, touches, config

hookVars == <<prov, entries, broken, people, backup, latest, touches, config>>

Ours == {"dispatch", "direct", "plugin"}
Hooks == [cmd : Ours \cup MyHook, std : BOOLEAN]
Gap == [cmd |-> "gap", std |-> FALSE]

\* This version's matcher, that of an earlier one, and another.
Matcher == {"now", "earlier", "own"}

Entry == [m : Matcher, cs : Seq(Hooks \cup {Gap})]
Nothing == [m |-> "own", cs |-> <<>>]

Std(c) == [cmd |-> c, std |-> TRUE]
EntryOf(c) == [m |-> "now", cs |-> <<Std(c)>>]
Dispatch == EntryOf("dispatch")
Direct == EntryOf("direct")

Runs(e, c) == \E k \in DOMAIN e.cs : e.cs[k].cmd = c
Empty(e) == \A k \in DOMAIN e.cs : e.cs[k] = Gap

\* e runs this version's hook c and nothing else.
Only(e, c) == \E k \in DOMAIN e.cs : /\ e.cs[k] = Std(c)
                                     /\ \A j \in DOMAIN e.cs \ {k} : e.cs[j] = Gap
Is(e, c) == e.m = "now" /\ Only(e, c)

There(es) == {i \in DOMAIN es : es[i] # Nothing}

\* The people's hooks, each with its place.
PeopleIn(es) ==
    UNION {{<<i, k, es[i].cs[k]>> : k \in {j \in DOMAIN es[i].cs : es[i].cs[j].cmd \in MyHook}} :
             i \in DOMAIN es}

FeatureLine == {"features", "other", "on", "off", "legacy", "text"}

HookTypeOK ==
    /\ prov \in {"claude", "codex"} /\ broken \in BOOLEAN /\ touches \in 0 .. MaxTouches
    /\ entries \in Seq(Entry)
    /\ people \subseteq Nat \X Nat \X Hooks /\ backup \subseteq Hooks
    /\ latest \in {"people", "merge", "migrate", "adapter"}
    /\ config \in Seq(FeatureLine \cup {"gap"})

---------------------------------------------------------------------------
(* pb-tasks init: _merge_keyed_list_entries                                *)

\* Claude's matcher has grown; an entry with the earlier one is adopted.
Accepted == {"now"} \cup (IF prov = "claude" THEN {"earlier"} ELSE {})

Matching(es) == {i \in DOMAIN es : es[i].m \in Accepted}
Owning(es) == {i \in Matching(es) : Runs(es[i], "dispatch")}
Eligible(es) == IF Owning(es) # {} THEN Owning(es) ELSE {i \in Matching(es) : es[i].m = "now"}
Ambiguous(es) == \E i, j \in Eligible(es) : i # j

\* Fault: the entry's other hooks go with the duplicates.
DedupedAlone(cs) == <<Std("dispatch")>>

\* The hook is renewed where it is first, and not there twice.
Deduped(cs) ==
    LET IsOurs(k) == cs[k].cmd = "dispatch"
    IN IF ~ \E k \in DOMAIN cs : IsOurs(k) THEN Append(cs, Std("dispatch"))
       ELSE [k \in DOMAIN cs |->
               IF ~IsOurs(k) THEN cs[k]
               ELSE IF \A j \in 1 .. k - 1 : ~IsOurs(j) THEN Std("dispatch")
               ELSE Gap]

MergedHooks(es) ==
    IF Eligible(es) = {} THEN Append(es, Dispatch)
    ELSE LET at == CHOOSE i \in Eligible(es) : TRUE
         IN [es EXCEPT ![at] = [m |-> "now", cs |-> Deduped(@.cs)]]

---------------------------------------------------------------------------
(* pb-tasks init on a file of the old plugin: _migrate_hook_file           *)

OldPlugin(e) == prov = "codex" /\ Is(e, "plugin")
Unsafe(es) == \E i \in DOMAIN es : Runs(es[i], "plugin") /\ ~OldPlugin(es[i])
Legacy == \E i \in DOMAIN entries : OldPlugin(entries[i])

MigratedHooks(es) ==
    LET kept == [i \in DOMAIN es |-> IF OldPlugin(es[i]) THEN Nothing ELSE es[i]]
    IN IF \E i \in DOMAIN kept : Is(kept[i], "dispatch") THEN kept ELSE Append(kept, Dispatch)

\* --no-hooks, a broken file, an ambiguous one and one with a part of the old
\* plugin that somebody changed leave it as it is.
RunInit ==
    /\ ~broken /\ ~Unsafe(entries)
    /\ \/ /\ Legacy
          /\ entries' = MigratedHooks(entries) /\ latest' = "migrate"
       \/ /\ ~Legacy /\ ~Ambiguous(entries)
          /\ entries' = MergedHooks(entries) /\ latest' = "merge"
    /\ UNCHANGED <<prov, broken, people, backup, touches, config>>

\* skipped_hook_status, what --no-hooks says of the file.
HookStatus(es) ==
    {IF Is(es[i], "dispatch") THEN "managed" ELSE "user" : i \in There(es)}

---------------------------------------------------------------------------
(* install_hooks of the Codex adapter                                      *)

\* A hook of Playbook's script under a matcher that is not this version's
\* goes, and an entry without hooks.
Pruned(e) ==
    [e EXCEPT !.cs = [k \in DOMAIN @ |->
                        IF e.m # "now" /\ @[k].cmd \in Ours THEN Gap ELSE @[k]]]
PrunedHooks(es) ==
    [i \in DOMAIN es |-> IF Empty(Pruned(es[i])) THEN Nothing ELSE Pruned(es[i])]

InstalledHooks(es) ==
    IF \E i \in DOMAIN es : es[i].m = "now" /\ Runs(es[i], "direct") THEN es ELSE Append(es, Direct)

Header == {"features", "other"}
Switch == {"on", "off"}

\* The lines of the [features] section.
Section(c) == {i \in DOMAIN c : /\ c[i] \notin Header
                                /\ \E s \in 1 .. i : c[s] = "features"
                                     /\ \A j \in s + 1 .. i : c[j] \notin Header}

\* codex_hooks_feature_enabled: the first switch there counts.
FeatureOn(c) ==
    \E i \in Section(c) : c[i] = "on" /\ \A j \in Section(c) : c[j] \in Switch => i <= j

\* enable_codex_hooks_feature: the switch is set, or takes the place of the
\* first one of the old name, or comes at the end of the section.
WithFeature(c) ==
    LET heads == {i \in DOMAIN c : c[i] = "features"}
        switches == {i \in Section(c) : c[i] \in Switch}
        old == {i \in Section(c) : c[i] = "legacy"}
        Taken(i) == IF switches # {} THEN i \in switches /\ \A j \in switches : j <= i
                    ELSE i \in old /\ \A j \in old : i <= j
        last == CHOOSE i \in heads \cup Section(c) : i + 1 \notin Section(c)
    IN IF heads = {} THEN c \o <<"features", "on">>
       ELSE IF switches \cup old # {}
         THEN [i \in DOMAIN c |-> IF Taken(i) THEN "on" ELSE IF i \in old THEN "gap" ELSE c[i]]
       ELSE [i \in 1 .. Len(c) + 1 |->
               IF i <= last THEN c[i] ELSE IF i = last + 1 THEN "on" ELSE c[i - 1]]

\* A broken file is copied, and begun anew.
InstallHooks ==
    /\ prov = "codex"
    /\ entries' = InstalledHooks(PrunedHooks(IF broken THEN <<>> ELSE entries))
    /\ broken' = FALSE /\ latest' = "adapter" /\ config' = WithFeature(config)
    /\ IF broken THEN backup' = backup \cup {x[3] : x \in people} /\ people' = {}
       ELSE UNCHANGED <<backup, people>>
    /\ UNCHANGED <<prov, touches>>

---------------------------------------------------------------------------
(* People                                                                  *)

\* A hook in an entry of its own, or beside others; an entry that is copied,
\* dropped or given another matcher; a hook whose fields are changed.
EditedEntries ==
    {Append(entries, [m |-> m, cs |-> <<Std(h)>>]) : m \in Matcher, h \in MyHook}
      \cup {[entries EXCEPT ![i].cs = Append(@, Std(h))] : i \in There(entries), h \in MyHook}
      \cup {[entries EXCEPT ![i].m = m] : i \in There(entries), m \in Matcher}
      \cup {Append(entries, entries[i]) : i \in There(entries)}
      \cup {[entries EXCEPT ![i] = Nothing] : i \in There(entries)}
      \cup UNION {{[entries EXCEPT ![i].cs[k].std = FALSE] :
                     k \in {j \in DOMAIN entries[i].cs : entries[i].cs[j] # Gap}} :
                   i \in There(entries)}

EditHooks ==
    /\ touches < MaxTouches /\ touches' = touches + 1
    /\ entries' \in EditedEntries /\ broken' \in BOOLEAN
    /\ people' = PeopleIn(entries') /\ latest' = "people"
    /\ UNCHANGED <<prov, backup, config>>

HooksNext == RunInit \/ InstallHooks \/ EditHooks

\* A file nobody has touched, of an earlier version or of the old plugin, or
\* a config.toml with one section and one switch at most (and no edits, the
\* two files having nothing to do with each other).
HooksInit ==
    /\ broken = FALSE /\ people = {} /\ backup = {} /\ latest = "people"
    /\ \/ prov = "claude" /\ config = <<>> /\ touches = 0
          /\ entries \in {<<>>, <<[m |-> "earlier", cs |-> <<Std("dispatch")>>]>>}
       \/ prov = "codex" /\ config = <<>> /\ touches = 0
          /\ entries \in {<<>>, <<EntryOf("plugin")>>}
       \/ prov = "codex" /\ entries = <<>> /\ touches = MaxTouches
          /\ config \in {c \in UNION {[1 .. n -> FeatureLine] : n \in 1 .. MaxLines} :
                           \A i, j \in DOMAIN c : i # j =>
                             /\ c[i] = "features" => c[j] # "features"
                             /\ {i, j} \subseteq Section(c) => c[i] \notin Switch \/ c[j] \notin Switch}

---------------------------------------------------------------------------

\* No writer loses, doubles or moves a hook of people's.
PeopleKept == PeopleIn(entries) = people

\* After init the provider finds Playbook's hook of this version once under
\* the matchers that were ever Playbook's, and another init changes nothing.
\* A migration only promises that the hook is there.
InitSettles ==
    /\ latest = "merge" =>
         /\ \E i \in DOMAIN entries : Owning(entries) = {i}
         /\ ~Ambiguous(entries) /\ MergedHooks(entries) = entries
    /\ latest = "migrate" => ~Legacy /\ \E i \in DOMAIN entries : Is(entries[i], "dispatch")
    /\ latest = "merge" /\ (\A i \in There(entries) :
                              Only(entries[i], "dispatch") /\ i \in Matching(entries))
         => HookStatus(entries) = {"managed"}

\* The adapter's installation settles as well, and leaves hooks of Playbook's
\* under this version's matcher only.
AdapterSettles ==
    latest = "adapter" =>
      /\ InstalledHooks(PrunedHooks(entries)) = entries
      /\ \A i \in DOMAIN entries : entries[i].m # "now" => \A c \in Ours : ~Runs(entries[i], c)

\* Codex runs hooks once the adapter has enabled them; enabling again changes
\* nothing, and the other lines stay in their order.
FeatureSettles ==
    LET d == WithFeature(config)
        place(n, i) == IF i <= n THEN i ELSE i + 1
    IN /\ FeatureOn(d)
       /\ WithFeature(d) = d
       /\ \E n \in 0 .. Len(config) :
            /\ \A i \in DOMAIN config :
                 config[i] \in {"other", "text"} =>
                   place(n, i) \in DOMAIN d /\ d[place(n, i)] = config[i]
            /\ \A j \in DOMAIN d : d[j] \in {"other", "text"} =>
                 \E i \in DOMAIN config : j = place(n, i) /\ config[i] = d[j]

HooksSettle == PeopleKept /\ InitSettles /\ AdapterSettles /\ FeatureSettles
=============================================================================
