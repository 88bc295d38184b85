----------------------------- MODULE MCMetadata ------------------------------
(***************************************************************************)
(* One pair of texts of up to two characters and two pairs of up to one,   *)
(* and up to three keywords, over the characters that the encoders or the  *)
(* reader treat in a way of their own.  Only the tasks may hold a line     *)
(* break, as in the source.                                                *)
(***************************************************************************)
EXTENDS Metadata

Texts(chars, n) == UNION {[1 .. k -> chars] : k \in 0 .. n}

Pairs(chars) ==
    {<<pair>> : pair \in Texts(chars, 2) \X Texts(chars, 2)}
       \union ((Texts(chars, 1) \X Texts(chars, 1)) \X (Texts(chars, 1) \X Texts(chars, 1)))

OneLine == {"n", ",", Backslash, Quote}

Words == {w \in Texts({"n", " ", Backslash, Quote}, 2) : w # <<>> /\ trim(w) = w}

MCDocuments ==
    {[fn |-> fn, items |-> items] :
        fn \in {"example_queries", "executable_examples", "categories"}, items \in Pairs(OneLine)}
    \union {[fn |-> "agent_test_tasks", items |-> items] :
              items \in Pairs({"n", Backslash, Quote, LineBreak})}
    \union {[fn |-> "keywords", items |-> items] : items \in Texts(Words, 3)}
=============================================================================
