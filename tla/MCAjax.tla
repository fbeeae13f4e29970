------------------------------- MODULE MCAjax -------------------------------
(* A form f with a button a, and within it a wrapper w with a button b; a  *)
(* link l outside.  a's answers replace the form, b's and l's the wrapper. *)
EXTENDS Ajax, TLC

CONSTANTS f, w, a, b, l

Names    == {f, w, a, b, l}
Markup   == f :> {f, w, a, b} @@ w :> {w, b} @@ a :> {a} @@ b :> {b} @@ l :> {l}
Elements == {a, b, l}
Wrappers == a :> f @@ b :> w @@ l :> w

SomeTroubles == {{}, {"same id", "not verified"}, {"throws"}}
NoWrapper    == {{"no wrapper"}}
=============================================================================
