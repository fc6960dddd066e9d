------------------------------ MODULE MCEditor ------------------------------
EXTENDS Editor

CONSTANTS e1, e2

Blankly == [kind |-> "text", at |-> 0, size |-> 1, form |-> 0, ink |-> 0, said |-> {"peer"}]
OneText == (e1 :> Blankly) @@ [i \in Ids |-> [Blankly EXCEPT !.kind = "none", !.size = 0, !.said = {}]]
OneLine == [OneText EXCEPT ![e1] = [Blankly EXCEPT !.kind = "shape", !.form = 1, !.said = {}]]
=============================================================================
