----------------------------- MODULE MCStartup ------------------------------
(* Files and starts for Startup: nothing written yet, a file per instance or *)
(* one for all, and every file of a few lines that a user might write.      *)
EXTENDS Startup

UserLines ==
  { Line(0, "socket_dir", CustomDir), Header(0, "soundbox"), Header(0, "aec"),
    Line(2, "ws_url", "http"), Header(2, "native_kws_triggers"), Item("x"), Item(""),
    Line(2, "native_kws_triggers", "y"), Line(2, "delay_ms", "10"),
    Header(2, "pre_aec_auto_gain"), Line(4, "enabled", "false"),
    Line(0, NoKey, None) }

MCEncoding ==
  ("ni" :> <<228, 189, 160>>) @@ ("e" :> <<195, 169>>) @@ ("a" :> <<97>>)
  @@ ("full_stop" :> <<227, 128, 130>>) @@ ("dot" :> <<194, 183>>)
  @@ ("comma" :> <<44>>) @@ ("blank" :> <<32>>)

MCSpelling ==
  ("a" :> <<"e">>) @@ ("b" :> <<"e">>) @@ ("c" :> <<"ni", "a">>) @@ ("d" :> <<"a">>)
  @@ ("x" :> <<"full_stop", "e", "comma", "ni">>) @@ ("y" :> <<"dot">>)

MCHeard == UNION { [1 .. n -> DOMAIN MCEncoding] : n \in 1 .. 2 }
           \cup { c \o <<"ni">> \o d : c, d \in [1 .. 1 -> DOMAIN MCEncoding] }

PidSymmetry == Permutations(Pids)

Written(f) == [c \in {"A"} |-> f]

Leftover == (Pids \cup {CustomDir}) \X Names

Scenario(f, n, l, b) == [files |-> f, starts |-> n, left |-> l, full |-> b]

MCScenarios ==
  { Scenario([c \in Configs |-> None], 2, {}, FALSE),
    Scenario(Written(None), 1, Leftover, TRUE),
    Scenario(Written(<<Line(0, "socket_dir", CustomDir)>>), 2, Leftover, FALSE) }
  \cup { Scenario(Written(f), 1, {}, FALSE) :
           f \in UNION { [1 .. n -> UserLines] : n \in 1 .. 3 }
                  \cup { g \in [1 .. 5 -> UserLines] : WellFormed(g) } }
=============================================================================
