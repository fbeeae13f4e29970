----------------------------- MODULE MCQuickEdit -----------------------------
(* One entity with two fields, and a second entity for the runs of README, *)
(* section 5, that have one.                                               *)
EXTENDS QuickEdit, TLC

CONSTANTS e1, e2, f1, f2, g

OneEntity   == <<e1>>
TwoEntities == <<e1, e2>>

FormAndText  == [e \in {e1} |-> <<f1, g>>]
FormAndPlain == [e \in {e1} |-> <<f1, f2>>]
FieldsOfBoth == e1 :> <<f1, f2>> @@ e2 :> <<g>>

Editors    == f1 :> "form" @@ f2 :> "plain" @@ g :> "filtered"
NoOther    == [f \in {f1, f2, g} |-> <<>>]
Contents   == f1 :> "title" @@ f2 :> "tags" @@ g :> "body"
OwnContent == e1 :> "page1" @@ e2 :> "page2"

SomeTroubles == {{}, {"failure", "invalid"}, {"failure", "invalid", "lost"},
                 {"hasty", "invalid"}}
NoTroubles   == {{}}
=============================================================================
