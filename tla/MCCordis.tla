------------------------------ MODULE MCCordis -------------------------------
(* Three plugins in three arrangements; each behaviour is of one of them. *)
EXTENDS Cordis, TLC

CONSTANTS f1, f2, f3, a, b

NoParent == f1 :> None @@ f2 :> None @@ f3 :> None

\* f1 provides a with an asynchronous effect, f2 uses a to provide b, f3 uses both.
Chain == [parent |-> NoParent,
          inject |-> f1 :> {} @@ f2 :> {a} @@ f3 :> {a, b},
          acts |-> f1 :> <<a, "effect">> @@ f2 :> <<b>> @@ f3 :> <<>>]

\* f1 provides a and has the child f2, which uses a; so does f3.
Nested == [parent |-> f1 :> None @@ f2 :> f1 @@ f3 :> None,
           inject |-> f1 :> {} @@ f2 :> {a} @@ f3 :> {a},
           acts |-> f1 :> <<a, f2>> @@ f2 :> <<"effect">> @@ f3 :> <<>>]

\* f1 and f2 both provide a, which f3 uses.
Rivals == [parent |-> NoParent,
           inject |-> f1 :> {} @@ f2 :> {} @@ f3 :> {a},
           acts |-> f1 :> <<a>> @@ f2 :> <<a>> @@ f3 :> <<"effect">>]

MCScenes == {Chain, Nested, Rivals}
=============================================================================
