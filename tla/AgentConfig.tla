----------------------------- MODULE AgentConfig -----------------------------
(***************************************************************************)
(* What `jdbg setup` reads in and writes to the files of the agents        *)
(* (setup.rs).                                                             *)
(*                                                                         *)
(* A JSON file is [kind, has]: the kind says whether it is there, parses,  *)
(* and is an object; has is the set of the things in the object that the   *)
(* code or the user cares for:                                             *)
(*   "servers"   mcpServers (mcp for OpenCode), an object                  *)
(*   "jdbg"      the entry of jdbg in it                                   *)
(*   "sibling"   another server in it                                      *)
(*   "odd"       the same key with a value that is no object               *)
(*   "schema"    OpenCode's $schema                                        *)
(*   "permissions", "allow", "entry", "other entry", "other permission"    *)
(*   "other"     any other key of the user                                 *)
(* A TOML file is the sequence of its tables: "top" for the keys before    *)
(* the first one, "table" and "array" for a [x] and a [[x]] of the user,   *)
(* "jdbg" for the block jdbg writes and "jdbg edited" for a changed one;   *)
(* "absent" is a file that is not there, "unreadable" one that cannot be   *)
(* opened or is not UTF-8; a JSON file that cannot be read is "broken", as *)
(* one that does not parse.                                                *)
(***************************************************************************)
EXTENDS Naturals, Sequences, SequencesExt

Targets == {"claude", "codex", "opencode", "pi"}
ALL_TARGETS == <<"claude", "codex", "opencode", "pi">>
Only(t, S) == IF t \in S THEN <<t>> ELSE <<>>
Ordered(S) == Only("claude", S) \o Only("codex", S) \o Only("opencode", S) \o Only("pi", S)

Json(kind, has) == [kind |-> kind, has |-> has]
NoFile == Json("absent", {})
Object(has) == Json("object", has)

\* A file that does not parse counts as empty; the strict reader refuses it.
read_json(file) == IF file.kind \in {"absent", "broken"} THEN Object({}) ELSE file
Unparsable(file) == file.kind = "broken"

\* Whatever is not an object is replaced by one.
Keys(doc) == IF doc.kind = "object" THEN doc.has ELSE {}

apply_mcp_install(doc) == Object((Keys(doc) \ {"odd"}) \cup {"servers", "jdbg"})
apply_opencode_mcp_install(doc) == Object((Keys(doc) \ {"odd"}) \cup {"schema", "servers", "jdbg"})

\* Mutant: the object around the entry goes in any case.
remove_servers(doc) == IF doc.kind # "object" THEN doc ELSE Object(doc.has \ {"jdbg", "servers", "sibling"})

\* The entry goes, and the object around it when nothing else is in it.
HasServer(doc) == {"servers", "jdbg"} \subseteq Keys(doc)
apply_mcp_remove(doc) ==
    IF ~HasServer(doc) THEN doc
    ELSE Object(doc.has \ ({"jdbg"} \cup (IF "sibling" \in doc.has THEN {} ELSE {"servers"})))
apply_opencode_mcp_remove(doc) == apply_mcp_remove(doc)

apply_perm_install(doc) == Object((Keys(doc) \ {"odd"}) \cup {"permissions", "allow", "entry"})
apply_perm_remove(doc) ==
    LET kept == doc.has \ {"entry"}
        allow == IF "other entry" \in kept THEN kept ELSE kept \ {"allow"}
    IN  IF ~({"permissions", "allow", "entry"} \subseteq Keys(doc)) THEN doc
        ELSE Object(IF {"allow", "other permission"} \cap allow # {} THEN allow
                    ELSE allow \ {"permissions"})

-----------------------------------------------------------------------------

\* The block starts at its header and ends at the next header of a table, but
\* not at that of an array of tables. The index of the header, 0 if none.
IsBlock(tag) == tag \in {"jdbg", "jdbg edited"}
find_toml_header(toml) == SelectInSeq(toml, IsBlock)
find_next_toml_table(toml, from) ==
    LET next == SelectInSubSeq(toml, from, Len(toml), LAMBDA tag : tag # "array")
    IN  IF next = 0 THEN Len(toml) + 1 ELSE next

\* A file that cannot be read counts as empty; to install is to overwrite it, to
\* remove leaves it.
Tables(toml) == IF toml \in {<<"absent">>, <<"unreadable">>} THEN <<>> ELSE toml
upsert_toml_table(toml) ==
    LET start == find_toml_header(toml)
        end == find_next_toml_table(toml, start + 1)
    IN  IF start = 0 THEN Tables(toml) \o <<"jdbg">>
        ELSE IF toml[start] = "jdbg" /\ end = start + 1 THEN toml
        ELSE SubSeq(toml, 1, start - 1) \o <<"jdbg">> \o SubSeq(toml, end, Len(toml))
remove_toml_table(toml) ==
    LET start == find_toml_header(toml)
        end == find_next_toml_table(toml, start + 1)
    IN  IF start = 0 THEN toml ELSE SubSeq(toml, 1, start - 1) \o SubSeq(toml, end, Len(toml))

-----------------------------------------------------------------------------

\* A home directory h: the files, the preference each installed skill states
\* ("none": no skill, "plain": a skill without one), and the agents' directories.
detect_configured(target, h) ==
    \/ target = "claude" /\ HasServer(read_json(h.claude))
    \/ target = "codex" /\ find_toml_header(h.codex) # 0
    \/ target = "opencode" /\ ~Unparsable(h.opencode) /\ HasServer(read_json(h.opencode))
    \/ target = "pi" /\ h.skill["pi"] # "none"
detect_installed(target, h) ==
    \/ target \in h.dirs
    \/ target = "claude" /\ h.claude # NoFile
    \/ target = "codex" /\ h.codex # <<"absent">>
    \/ target = "opencode" /\ h.opencode # NoFile

detect_configured_targets(h) == Ordered({t \in Targets : detect_configured(t, h)})
OrClaude(targets) == IF targets = <<>> THEN <<"claude">> ELSE targets
configured_targets_or_default(h) == OrClaude(detect_configured_targets(h))
resolve_auto_targets(h) ==
    IF detect_configured_targets(h) # <<>> THEN detect_configured_targets(h)
    ELSE OrClaude(Ordered({t \in Targets : detect_installed(t, h)}))

\* The first skill that states a preference decides for all.
detect_backend_preference(h) ==
    LET stated == Ordered({t \in Targets : h.skill[t] \in {"jdi", "jdb"}})
    IN  IF stated = <<>> THEN "unset" ELSE h.skill[Head(stated)]
configured_backend_or_default(h) ==
    IF detect_backend_preference(h) = "unset" THEN "jdi" ELSE detect_backend_preference(h)

\* --target: a word, or a list, perhaps with repetitions and unknown names.
Error == <<"error">>
parse_target_flag(f, h) ==
    IF f.target = "auto" THEN resolve_auto_targets(h)
    ELSE IF f.target = "all" THEN ALL_TARGETS
    ELSE IF f.target = "none" THEN <<>>
    ELSE IF \E i \in 1 .. Len(f.list) : f.list[i] \notin Targets THEN Error
    ELSE FoldLeft(LAMBDA seen, t : IF Contains(seen, t) THEN seen ELSE Append(seen, t), <<>>, f.list)

\* What the user may answer, with the flags f: f.target and f.list, f.backend,
\* f.remove, and f.ask when there is a terminal and no --yes.
select_targets(f, h) ==
    IF f.target # "unset" THEN {parse_target_flag(f, h)}
    ELSE IF f.remove THEN {configured_targets_or_default(h)}
    ELSE IF ~f.ask THEN {resolve_auto_targets(h)}
    ELSE {Ordered(S) : S \in SUBSET Targets} \cup {Error}
select_backend(f, targets) ==
    IF f.backend # "unset" THEN {f.backend}
    ELSE IF f.remove \/ targets = <<>> \/ ~f.ask THEN {"jdi"}
    ELSE {"jdi", "jdb", "error"}

-----------------------------------------------------------------------------

\* The files of a target in the order in which they are written; no target is
\* listed twice, so that there are at most four.
SkillFile == [claude |-> "claude skill", codex |-> "codex skill", opencode |-> "opencode skill",
              pi |-> "pi skill"]
FilesOf(target) ==
    CASE target = "claude"   -> <<"claude", "settings", SkillFile.claude>>
      [] target = "codex"    -> <<"codex", SkillFile.codex>>
      [] target = "opencode" -> <<"opencode", SkillFile.opencode>>
      [] target = "pi"       -> <<SkillFile.pi>>
Writes(targets) ==
    LET files(i) == IF i <= Len(targets) THEN FilesOf(targets[i]) ELSE <<>>
    IN  files(1) \o files(2) \o files(3) \o files(4)

\* install_claude, install_codex, install_opencode, install_pi, a file at a time.
InstallFile(file, backend, h) ==
    CASE file = "claude"   -> [h EXCEPT !.claude = apply_mcp_install(read_json(@))]
      [] file = "settings" -> [h EXCEPT !.settings = apply_perm_install(read_json(@)),
                                        !.dirs = @ \cup {"claude"}]
      [] file = "codex"    -> [h EXCEPT !.codex = upsert_toml_table(@), !.dirs = @ \cup {"codex"}]
      [] file = "opencode" -> [h EXCEPT !.opencode = apply_opencode_mcp_install(read_json(@)),
                                        !.dirs = @ \cup {"opencode"}]
      [] OTHER             -> LET t == CHOOSE t \in Targets : file = SkillFile[t]
                              IN  [h EXCEPT !.skill[t] = backend, !.dirs = @ \cup {t}]

\* remove_claude, remove_codex, remove_opencode, remove_pi. What would be left
\* empty of Codex's and OpenCode's files is deleted.
RemoveFile(file, h) ==
    CASE file = "claude"   -> [h EXCEPT !.claude = IF HasServer(read_json(@)) THEN apply_mcp_remove(@) ELSE @]
      [] file = "settings" -> [h EXCEPT !.settings = IF @.kind = "object" THEN apply_perm_remove(@) ELSE @]
      [] file = "codex"    -> [h EXCEPT !.codex =
                                 IF find_toml_header(@) = 0 THEN @
                                 ELSE IF remove_toml_table(@) = <<>> THEN <<"absent">>
                                 ELSE remove_toml_table(@)]
      [] file = "opencode" -> [h EXCEPT !.opencode =
                                 IF ~HasServer(@) THEN @
                                 ELSE IF apply_opencode_mcp_remove(@).has = {} THEN NoFile
                                 ELSE apply_opencode_mcp_remove(@)]
      [] OTHER             -> [h EXCEPT !.skill[CHOOSE t \in Targets : file = SkillFile[t]] = "none"]

\* OpenCode's file is read strictly, both ways.
CannotRead(file, h) == file = "opencode" /\ Unparsable(h.opencode)
=============================================================================
