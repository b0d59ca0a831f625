----------------------------- MODULE MCToolBatch -----------------------------
(***************************************************************************)
(* A small catalog. The weights keep the proportions of the code: a report *)
(* costs more than a record, the encoding failure more than the limit's,   *)
(* and the floor of the limit carries the smallest report of a failure but *)
(* not the name with it.                                                   *)
(***************************************************************************)
EXTENDS ToolBatch

MCText(length, bytes, terms, title, description, schema) ==
    [length |-> length, bytes |-> bytes, terms |-> terms, title |-> title,
     description |-> description, schema |-> schema]

MCTexts ==
    [send_mail |-> MCText(1, 3, <<"send", "mail">>, {"mail"}, {"send"}, {}),
     mail |-> MCText(2, 6, <<"mail">>, {}, {"mail"}, {"send"}),
     send_note |-> MCText(3, 3, <<"send", "note">>, {"note"}, {"send"}, {}),
     search_tools |-> MCText(2, 3, <<"search", "tools">>, {}, {}, {}),
     execute_tools |-> MCText(2, 3, <<"execute", "tools">>, {}, {}, {}),
     missing |-> MCText(4, 3, <<"missing">>, {}, {}, {})]

MCWeight ==
    [report |-> 4, flag |-> 1, record |-> 1, entry |-> 1, channel |-> 2, limit |-> 2,
     encode |-> 3, placeholder |-> 1, marker |-> 1, message |-> 3, complaint |-> 4,
     search |-> 3, escape |-> 1]

MCRegistrations ==
    {[ordinary |-> <<>>, entries |-> <<"send_mail", "mail", "send_note">>, encodes |-> TRUE],
     [ordinary |-> <<>>, entries |-> <<"send_note", "send_mail">>, encodes |-> FALSE],
     [ordinary |-> <<"mail">>, entries |-> <<"send_mail", "mail">>, encodes |-> TRUE],
     [ordinary |-> <<>>, entries |-> <<"mail", "send_mail", "mail">>, encodes |-> TRUE],
     [ordinary |-> <<>>, entries |-> <<"send_mail", "search_tools">>, encodes |-> TRUE]}

MCPlans == {<<"send_mail", "send_note", "mail", "send_mail">>,
            <<"send_note", "missing", "send_mail">>}

MCConfigured == {<<0, 11>>, <<2, 3>>, <<2, 11>>, <<3, 13>>, <<5, 15>>, <<3, 17>>, <<3, 40>>}

MCOutcome(isError, items, structured, meta, encodable) ==
    [isError |-> isError, items |-> items, structured |-> structured, meta |-> meta,
     encodable |-> encodable]

MCOutcomes ==
    {MCOutcome(FALSE, <<1>>, 0, 0, TRUE),
     MCOutcome(FALSE, <<2, 1>>, 0, 2, TRUE),
     MCOutcome(FALSE, <<>>, 3, 0, TRUE),
     MCOutcome(FALSE, <<1>>, 0, 0, FALSE),
     MCOutcome(TRUE, <<1>>, 0, 0, TRUE)}

MCCallBounds == <<1, 3>>
MCByteBounds == <<11, 30>>

MCQueries == {<<>>, <<"mail">>, <<"send", "send", "mail">>, <<"send", "note", "mail">>, <<"other">>}
=============================================================================
