------------------------------- MODULE MCLisp -------------------------------
(* Scripts for Lisp: every short sequence of tokens, and every sequence of *)
(* up to three of the forms below.                                          *)
EXTENDS Lisp

CONSTANTS TokenBound, FormBound

MCNumerals ==
  ("0" :> [neg |-> FALSE, digits |-> <<0>>]) @@ ("2" :> [neg |-> FALSE, digits |-> <<2>>])
    @@ ("-1" :> [neg |-> TRUE, digits |-> <<1>>]) @@ ("15" :> [neg |-> FALSE, digits |-> <<1, 5>>])
    @@ ("-16" :> [neg |-> TRUE, digits |-> <<1, 6>>])

Tokens == {"(", ")", "x", "2", "setq"}

Forms == {
  <<"(", "setq", "x", "2", ")">>,
  <<"(", "setq", "x", "-16", ")">>,
  <<"(", "setq", "y", "2", ")", "(", "setq", "x", "15", ")">>,
  <<"(", "defun", "f", "(", "x", ")", "(", "defun", "a", "(", "y", ")", "(", "+", "x", "y", ")", ")", ")">>,
  <<"(", "setq", "x", "(", "-", "x", "15", ")", ")">>,
  <<"(", "setq", "a", "+", ")">>,
  <<"(", "setq", "y", "15", ")">>,
  <<"(", "defun", "f", "(", "x", ")", "(", "+", "x", "x", ")", ")">>,
  <<"(", "defun", "f", "(", "x", "y", ")", "(", "setq", "x", "(", "a", "x", "y", ")", ")", ")">>,
  <<"(", "defun", "f", "(", "x", ")", "(", "f", "x", ")", ")">>,
  <<"(", "defun", "a", "(", "f", "y", ")", "(", "f", "y", ")", ")">>,
  <<"(", "f", "(", "print", "x", ")", ")">>,
  <<"(", "f", "(", "setq", "x", "0", ")", "x", ")">>,
  <<"(", "print", "(", "f", "(", "/", "x", "2", ")", ")", ")">>,
  <<"(", "a", "f", "x", ")">>,
  <<"(", "print", "x", "(", "*", "x", "-1", ")", ")">>,
  <<"(", "+", "(", "+", "(", "+", "(", "+", "x", ")", ")", ")", ")">>,
  <<"(", "print", "x", "a", "y", ")">>,
  <<"(", "/", "x", "-1", ")">>,
  <<"(", "-", ")">>, <<"(", "defun", "f", ")">>, <<"x">>}

RECURSIVE Concatenations(_, _)
Concatenations(s, n) ==
  IF n = 0 THEN {<<>>} ELSE {<<>>} \cup {f \o r : f \in s, r \in Concatenations(s, n - 1)}

MCScripts == Concatenations({<<t>> : t \in Tokens}, TokenBound) \cup Concatenations(Forms, FormBound)
=============================================================================
