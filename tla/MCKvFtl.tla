------------------------------- MODULE MCKvFtl -------------------------------
EXTENDS KvFtl

MCKeys == {"a", "b", "c", "d"}

\* Three keys collide, and one has the slot next to theirs.
MCHash == [k \in MCKeys |-> IF k = "d" THEN 5 ELSE 4]

MCWants == {{"a", "b", "d"}, {"a", "b"}}

\* Values of one and two cells are small, of three cells large.
MCStores == [keys |-> {"a", "b"}, vals |-> {<<"p">>, <<"q", "q">>, <<"r", "r", "r">>},
             inserts |-> 3, batch |-> 2, opens |-> 0, beyond |-> FALSE]

\* Many insertions of one value: chains, a table that is full while there is
\* room for the value, and more insertions than there is room for.
MCChains == [keys |-> MCKeys, vals |-> {<<"p">>}, inserts |-> 5, batch |-> 0, opens |-> 0, beyond |-> TRUE]
MCIterate == [keys |-> {"a", "b", "d"}, vals |-> {<<"p">>}, inserts |-> 4, batch |-> 0, opens |-> 1, beyond |-> TRUE]

MCBounds == {MCStores, MCChains, MCIterate}

\* The run that looks for a lost entry.
MCFewBounds == {MCIterate}

=============================================================================
