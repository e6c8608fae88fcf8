SPECIFICATION Spec
CONSTANT None = None
CONSTANT Proc = {1, 2}
CONSTANT Pids = {pid1, pid2}
CONSTANT Configs = {"A", "B"}
CONSTANT Encoding <- MCEncoding
CONSTANT Symbols = {"full_stop", "dot", "comma", "blank"}
CONSTANT Spelling <- MCSpelling
CONSTANT Heard <- MCHeard
CONSTANT Scenarios <- MCScenarios
SYMMETRY PidSymmetry
CHECK_DEADLOCK FALSE
INVARIANT LoadedAsWritten
INVARIANT HeardAsConfigured
INVARIANT ServesItself
