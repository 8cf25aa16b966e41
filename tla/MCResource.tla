------------------------------ MODULE MCResource ------------------------------
(* Resource with two letters, three web roots, one of them with a dot, and *)
(* a table in which one extension has two rows.                            *)
EXTENDS Resource

MCRoots == {<<>>, <<"/", "i">>, <<"/", "i", ".", "i">>}
MCIndex == <<"i", ".", "k">>
MCRows == <<[ext |-> <<".", "k">>, type |-> <<"text/k">>],
            [ext |-> <<".", "k">>, type |-> <<"application/k">>]>>

(* The demo's JResp takes a request with content and type, or leaves it    *)
(* alone; others also give a time, forget the type, or leave something     *)
(* behind when they decline.                                               *)
Answer(ok, wrote, t, dated) ==
    [ok |-> ok, wrote |-> wrote, type |-> t, dated |-> dated]
MCAnswers == {Answer(TRUE, TRUE, <<".", "k">>, FALSE),
              Answer(TRUE, TRUE, <<".", "i">>, TRUE),
              Answer(TRUE, TRUE, <<>>, FALSE),
              Answer(FALSE, FALSE, <<>>, FALSE),
              Answer(FALSE, FALSE, <<".", "i">>, TRUE),
              Answer(FALSE, TRUE, <<".", "k">>, FALSE)}

=============================================================================
