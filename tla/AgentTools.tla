----------------------------- MODULE AgentTools -----------------------------
(***************************************************************************)
(* What the agent's tools do to the files of ~/.agent-netx: config.yml,    *)
(* the overlay dynamic.yml and agent-memory.json.                          *)
(*                                                                         *)
(* The tools of one agent run one after the other, each to its end.  A     *)
(* file is what may be lost in it: of config.yml the parts a tool sets, of *)
(* the memory its keys.  The memory is there more than once: in the file,  *)
(* in the agent's Memory, and in the Memory that run_remote makes for      *)
(* itself.                                                                 *)
(***************************************************************************)
EXTENDS FiniteSets

Sections == {"groups", "urls", "flow", "upstream", "clientCert", "originCert"}

Keys == {"fact", "copyHost", "remoteHost"}

Configs == [form : {"none", "yaml", "broken"}, has : SUBSET Sections]

\* told: what a tool reported as set or remembered and none has taken back since;
\* broken: config.yml was once left in a form that does not parse, or cut off;
\* saved: the agent's Memory got to its file, the last time it was to, and that is whole
Files == [config : Configs, dynamic : SUBSET {"proxy", "rule"},
          memory : SUBSET Keys, mine : SUBSET Keys, saved : BOOLEAN,
          told : SUBSET (Sections \cup Keys), broken : BOOLEAN]

NoFiles ==
  [config |-> [form |-> "none", has |-> {}], dynamic |-> {},
   memory |-> {}, mine |-> {}, saved |-> TRUE, told |-> {}, broken |-> FALSE]

-----------------------------------------------------------------------------
(* config.yml: read whole, changed in memory, written whole.  A write that *)
(* fails is reported, and leaves the file as it was or cuts it off.        *)

Written(has) == [form |-> "yaml", has |-> has]

\* config.Load, and what the editing tools take for its every error: a Config{}
Opened(c) == IF c.form = "yaml" THEN c.has ELSE {}

Replaced(f, has) ==
  [f EXCEPT !.config = Written(has), !.told = (@ \cap Keys) \cup has]

Set(f, s) ==
  [f EXCEPT !.config = Written(Opened(f.config) \cup {s}), !.told = @ \cup {s}]

Unset(f, s) ==
  [f EXCEPT !.config = Written(Opened(f.config) \ {s}), !.told = @ \ {s}]

\* what is left of a file that is cut off may be YAML
CutOff(f) ==
  {[f EXCEPT !.config = [form |-> form, has |-> {}], !.broken = TRUE] : form \in {"yaml", "broken"}}

\* os.WriteFile: one of the outcomes, or an error; an error before it changes nothing
Writes(f, outcomes) == {f} \cup outcomes \cup CutOff(f)

\* add replaces the rule of the same match; remove writes even what it did not find
URLAction(f) == Writes(f, {Set(f, "urls"), Unset(f, "urls")})

Flow(f) == Writes(f, {Set(f, "flow"), Unset(f, "flow")})

Upstream(f) == Writes(f, {Set(f, "upstream"), Unset(f, "upstream")})

MTLS(f) == Writes(f, UNION {{Set(f, s), Unset(f, s)} : s \in {"clientCert", "originCert"}})

\* of a file that does not load, or without the group, nothing is written
SwitchGroup(f) ==
  IF f.config.form = "yaml" /\ "groups" \in f.config.has
  THEN Writes(f, {[f EXCEPT !.config = Written(f.config.has)]}) ELSE {f}

\* the text is the model's own: all of a file, or less than was there
UpdateConfig(f) == Writes(f, {Replaced(f, has) : has \in {{"groups"}, Sections}})

\* r.ask is never nil in the program: without a terminal it says nothing (hil.go:74), which
\* is no yes; a path that is not config.yml's leaves this file alone
GenConfig(f, yes) == IF yes THEN Writes(f, {Replaced(f, {"groups"})}) ELSE {f}

\* an error at agent.yml, which comes second, tells of less than was written
InitFiles(f) == Writes(f, {Replaced(f, {"groups", "urls"})})

\* a person edits the file, and it does not parse, or does again
HandEdit(f) ==
  IF f.config.form = "none" THEN {}
  ELSE {[f EXCEPT !.config.form = "broken", !.broken = TRUE],
        [f EXCEPT !.config.form = "yaml"]}

-----------------------------------------------------------------------------
(* dynamic.yml: what the next start of the router reads (see Routing).     *)

AddsTo(f, s) == {f} \cup {[f EXCEPT !.dynamic = d] : d \in {f.dynamic \cup {s}, {}}}

AddProxy(f) == AddsTo(f, "proxy")

AddRule(f) == AddsTo(f, "rule")

-----------------------------------------------------------------------------
(* The memory: Memory.save says nothing of a write that failed, and its    *)
(* callers report success.  A file that was cut off is read as empty.      *)

\* NewMemory, when the agent starts: what did not get to the file is gone
Reopened(f) ==
  [f EXCEPT !.mine = f.memory, !.saved = TRUE,
            !.told = IF f.saved THEN @ ELSE @ \ (Keys \ f.memory)]

\* Memory.Set of the agent's Memory: all of it goes to the file, or nothing, or a part
Remembers(f, k) ==
  LET set == [f EXCEPT !.mine = @ \cup {k}, !.told = @ \cup {k}]
  IN  {[set EXCEPT !.memory = set.mine, !.saved = TRUE]}
        \cup {[set EXCEPT !.memory = m, !.saved = FALSE] : m \in {f.memory, {}}}

Remember(f) == Remembers(f, "fact")

\* ResolveHost remembers a host with an alias, whatever was asked for it
FileCopy(f) == {f} \cup Remembers(f, "copyHost")

\* A fault the properties are to notice: a Memory that was not loaded
RunRemoteBlank(f) == {f, [f EXCEPT !.memory = {"remoteHost"}]}

\* a Memory of its own, loaded and saved: the agent's does not learn of the host, and writes
\* the file without it the next time.  It is at DefaultMemoryPath, whatever is configured for
\* the agent's: if that is another file, this one is left alone
RunRemote(f) ==
  {f, [f EXCEPT !.memory = @ \cup {"remoteHost"}], [f EXCEPT !.memory = {}, !.saved = FALSE]}

-----------------------------------------------------------------------------
(* The tools by name: get_config stands for all that read, service for all *)
(* of isExecTool that touch none of these files.                           *)

FileTools == {"url_action", "flow", "upstream", "mtls", "switch_group", "update_config",
              "gen_config", "init", "add_proxy", "add_rule",
              "remember", "file_copy", "run_remote"}

Tools == FileTools \cup {"get_config", "service", "ask_human", "session_save", "session_import"}

\* those that may ask whoever sits there, if all they need is given
Asking == {"ask_human", "gen_config", "file_copy", "run_remote"}

IsExecTool == {"service", "run_remote", "file_copy"}

Effects(tool, f, yes) ==
  CASE tool = "url_action"    -> URLAction(f)
    [] tool = "flow"          -> Flow(f)
    [] tool = "upstream"      -> Upstream(f)
    [] tool = "mtls"          -> MTLS(f)
    [] tool = "switch_group"  -> SwitchGroup(f)
    [] tool = "update_config" -> UpdateConfig(f)
    [] tool = "gen_config"    -> GenConfig(f, yes)
    [] tool = "init"          -> InitFiles(f)
    [] tool = "add_proxy"     -> AddProxy(f)
    [] tool = "add_rule"      -> AddRule(f)
    [] tool = "remember"      -> Remember(f)
    [] tool = "file_copy"     -> FileCopy(f)
    [] tool = "run_remote"    -> RunRemote(f)
    [] OTHER                  -> {f}
=============================================================================
