--------------------------- MODULE MCDebugSession ---------------------------
(* Messages that start, stop, replace and leave sessions, with a script that*)
(* starts a session of its own, at the same time as the debugger is closed. *)
EXTENDS DebugSession

MCMessages == {<<"init", "run">>, <<"stop">>, <<"attach">>, <<"missing", "init">>, <<"script">>}
MCScript   == <<"init", "attach", "run">>
=============================================================================
