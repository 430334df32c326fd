----------------------------- MODULE MCHandlers -----------------------------
(***************************************************************************)
(* The collections of MCSearch, with a number in every document: collections *)
(* that use it as the key and others that do not; batches that repeat a    *)
(* number, replace and insert at once, or are bad in their last document.  *)
(***************************************************************************)
EXTENDS Handlers, MCSearch

IntField == [name |-> "id", type |-> "int"]
TextField == [name |-> "text", type |-> "string"]

\* The last one has a name twice: no document fits it.
MCSchemas == {<<IntField, TextField>>, <<TextField>>, << >>,
              <<IntField, [name |-> "id", type |-> "string"]>>}

Content(id, text) ==
    [id |-> [type |-> "int", value |-> id], text |-> [type |-> "string", value |-> text]]

Object(id, text) == [type |-> "object", content |-> Content(id, text)]

Numberless(text) ==
    [type |-> "object", content |-> [text |-> [type |-> "string", value |-> text]]]

\* Two documents may not have the same number, but the bodies below may.
MCContents(d, text) == Content(d - 2, text)

MCBodies ==
    { << >>,
      <<Object(0, Say(<<Dog>>)), Object(0, Say(<<Cats, Dog>>))>>,
      <<Object(3, Say(<<Cart>>)), Object(-1, Say(<<Cat>>)), Object(3, Say(<<Dog, Cat>>))>>,
      <<Object(-1, Say(<<Dog>>)), Numberless(Say(<<Cat>>))>>,
      <<Object(2, Say(<<Cat>>)), [type |-> "other"]>> }

\* A number that int64_t cannot hold: 5 of 3 bits is -3, the number of another.
MCWideBodies == {<<Object(-3, Say(<<Dog>>)), Object(5, Say(<<Cat>>))>>}

MCListLimits == {<< >>, <<0>>, <<1>>, <<9>>}

=============================================================================
