---------------------------- MODULE MCUserShell ----------------------------
(* Lines of four symbols, a history of two.  The alphabets let every builtin *)
(* command, every form of a variable, blanks and quotes come up.             *)
EXTENDS UserShell

MCWords == {"export", "unset", "exit", "false", "HOME", "?"}

MCAlphabets == { {"export", Blank, "HOME", "="}, {"unset", "HOME", "="},
                 {"$", "{", "HOME", "}"}, {"$", "HOME", Blank},
                 {"false", "$", "?"}, {"exit", "\"", Blank}, {"'", Escape, Blank, "?"} }
=============================================================================
