---------------------------- MODULE MCAgentLoop ----------------------------
(* Bounds for TLC: see the README for why they are enough. *)
EXTENDS AgentLoop, TLC

Day(terminal, what, r, c, k, s) ==
  [terminal |-> terminal, offered |-> what, runs |-> r, commands |-> c, keys |-> k, stray |-> s]

\* approvals and questions with readers left behind, or without a terminal; sessions; the files
SmallDays ==
  {Day("full", {"get_config", "service", "ask_human"}, 1, 0, 2, 1),
   Day("input", {"service", "ask_human"}, 2, 0, 0, 0),
   Day("none", {"get_config", "ask_human"}, 1, 0, 0, 0),
   Day("full", {"session_save", "session_import"}, 1, 2, 0, 0),
   Day("full", {"url_action", "switch_group", "update_config", "gen_config"}, 2, 1, 0, 0),
   Day("none", {"flow", "upstream", "mtls", "init", "add_proxy", "add_rule"}, 2, 0, 0, 0),
   Day("none", {"remember", "file_copy", "run_remote"}, 3, 0, 0, 0)}

SessionSymmetry == Permutations(Sessions)
=============================================================================
