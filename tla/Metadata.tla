------------------------------ MODULE Metadata -------------------------------
(***************************************************************************)
(* meta.rs: the JSON that the worker publishes in its tags, written with   *)
(* `format!` and `replace`, and a reader of JSON strings that goes over it *)
(* character by character.                                                 *)
(*                                                                         *)
(* A text is a sequence of characters; a key of an object, which is never  *)
(* escaped, counts as one.  A document is [fn, items]: a sequence of pairs *)
(* of texts, or of keywords.                                               *)
(***************************************************************************)
EXTENDS Integers, Sequences, SequencesExt, FiniteSetsExt

CONSTANT Documents

VARIABLES doc,      \* what is published
          json,     \* the text of the tag
          pos,      \* characters read
          mode,     \* "outside" a string, "inside", after an "escape", "error"
          text,     \* of the string that is being read
          tokens    \* read so far: structure, and strings as <<text>>

vars == <<doc, json, pos, mode, text, tokens>>

Backslash == "\\"
Quote == "\""
LineBreak == "\n"

-----------------------------------------------------------------------------
replace(s, char, by) ==
    FlattenSeq([i \in DOMAIN s |-> IF s[i] = char THEN by ELSE <<s[i]>>])

\* Mutant: the backslashes that escape the quotes are escaped in turn.
esc_QuotesFirst(s) ==
    replace(replace(s, Quote, <<Backslash, Quote>>), Backslash, <<Backslash, Backslash>>)

esc(s) ==
    replace(replace(s, Backslash, <<Backslash, Backslash>>), Quote, <<Backslash, Quote>>)

esc_task(s) == replace(esc(s), LineBreak, <<Backslash, "n">>)

Quoted(s) == <<Quote>> \o s \o <<Quote>>

Listed(parts) ==
    <<"[">> \o FlattenSeq([k \in DOMAIN parts |->
                  IF k = 1 THEN parts[k] ELSE <<",">> \o parts[k]]) \o <<"]">>

Object(key1, value1, key2, value2) ==
    <<"{">> \o Quoted(<<key1>>) \o <<":">> \o Quoted(value1) \o <<",">>
            \o Quoted(<<key2>>) \o <<":">> \o Quoted(value2) \o <<"}">>

executable_examples_json(items) ==
    Listed([k \in DOMAIN items |->
              Object("description", esc(items[k][1]), "sql", esc(items[k][2]))])

example_queries_json(items) == executable_examples_json(items)

categories_json(items) ==
    Listed([k \in DOMAIN items |->
              Object("name", esc(items[k][1]), "description", esc(items[k][2]))])

agent_test_tasks_json(tasks) ==
    Listed([k \in DOMAIN tasks |->
              Object("name", esc_task(tasks[k][1]), "prompt", esc_task(tasks[k][2]))])

split(s) ==
    LET cuts == SetToSortSeq({i \in DOMAIN s : s[i] = ","} \union {0, Len(s) + 1}, <)
    IN [k \in 1 .. Len(cuts) - 1 |-> SubSeq(s, cuts[k] + 1, cuts[k + 1] - 1)]

trim(s) ==
    LET solid == {i \in DOMAIN s : s[i] \notin {" ", LineBreak}}
    IN IF solid = {} THEN <<>> ELSE SubSeq(s, Min(solid), Max(solid))

keywords_json(keywords) ==
    LET parts == split(keywords)
        kept == SelectSeq([k \in DOMAIN parts |-> trim(parts[k])], LAMBDA s : s # <<>>)
    IN Listed([k \in DOMAIN kept |-> Quoted(esc(kept[k]))])

\* The keywords as they stand in the source, with a comma and a space between.
Keywords(items) ==
    FlattenSeq([k \in DOMAIN items |-> IF k = 1 THEN items[k] ELSE <<",", " ">> \o items[k]])

Published(d) ==
    CASE d.fn = "example_queries" -> example_queries_json(d.items)
      [] d.fn = "executable_examples" -> executable_examples_json(d.items)
      [] d.fn = "categories" -> categories_json(d.items)
      [] d.fn = "agent_test_tasks" -> agent_test_tasks_json(d.items)
      [] d.fn = "keywords" -> keywords_json(Keywords(d.items))

-----------------------------------------------------------------------------
Init ==
    /\ doc \in Documents /\ json = Published(doc)
    /\ pos = 0 /\ mode = "outside" /\ text = <<>> /\ tokens = <<>>

\* A JSON reader at one character.
Reading(chars, to) ==
    /\ pos < Len(json) /\ json[pos + 1] \in chars
    /\ pos' = pos + 1 /\ mode' = to
    /\ UNCHANGED <<doc, json>>

Structure ==
    /\ mode = "outside" /\ Reading({"[", "]", "{", "}", ":", ","}, "outside")
    /\ tokens' = Append(tokens, json[pos + 1])
    /\ UNCHANGED text

Open ==
    /\ mode = "outside" /\ Reading({Quote}, "inside")
    /\ text' = <<>>
    /\ UNCHANGED tokens

Close ==
    /\ mode = "inside" /\ Reading({Quote}, "outside")
    /\ tokens' = Append(tokens, <<text>>)
    /\ UNCHANGED text

Escape ==
    /\ mode = "inside" /\ Reading({Backslash}, "escape")
    /\ UNCHANGED <<text, tokens>>

Escaped ==
    /\ mode = "escape" /\ Reading({Quote, Backslash, "n"}, "inside")
    /\ text' = Append(text, IF json[pos + 1] = "n" THEN LineBreak ELSE json[pos + 1])
    /\ UNCHANGED tokens

Plain ==
    /\ mode = "inside" /\ Reading({json[pos + 1]} \ {Quote, Backslash, LineBreak}, "inside")
    /\ text' = Append(text, json[pos + 1])
    /\ UNCHANGED tokens

Next == Structure \/ Open \/ Close \/ Escape \/ Escaped \/ Plain

Spec == Init /\ [][Next]_vars /\ WF_vars(Next)

-----------------------------------------------------------------------------
Keys ==
    [example_queries |-> <<"description", "sql">>,
     executable_examples |-> <<"description", "sql">>,
     categories |-> <<"name", "description">>, agent_test_tasks |-> <<"name", "prompt">>]

\* The tokens of one item of the list.
Item(d, k) ==
    IF d.fn = "keywords" THEN << <<d.items[k]>> >>
    ELSE <<"{", << <<Keys[d.fn][1]>> >>, ":", <<d.items[k][1]>>, ",",
                << <<Keys[d.fn][2]>> >>, ":", <<d.items[k][2]>>, "}">>

\* meta.rs:22-26, 31-32, 50-52, 70-71 and 95: whatever the texts hold of quotes
\* and backslashes, a reader of the tag gets to its end and finds the items that
\* were published, one by one, in their order.
ReadsBack ==
    <>(pos = Len(json) /\ mode = "outside"
         /\ tokens = Listed([k \in DOMAIN doc.items |-> Item(doc, k)]))
=============================================================================
