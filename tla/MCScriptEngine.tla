--------------------------- MODULE MCScriptEngine ---------------------------
(* A script that runs the debuggee twice, with a routine that breakpoints  *)
(* call and that runs it again.                                            *)
EXTENDS ScriptEngine

MCProgram == <<"run", "cmd", "run", "ret", "run", "ret">>
MCStarts  == {<<"run">>, <<"step", "step", "run">>}
MCHits    == {[breaks |-> FALSE, command |-> "call"],
              [breaks |-> TRUE,  command |-> "call"],
              [breaks |-> TRUE,  command |-> "none"],
              [breaks |-> FALSE, command |-> "fail"],
              [breaks |-> FALSE, command |-> "cmd"]}
=============================================================================
