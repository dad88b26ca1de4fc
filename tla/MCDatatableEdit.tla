-------------------------- MODULE MCDatatableEdit --------------------------
(***************************************************************************)
(* Small instances of DatatableEdit for TLC: a string column over two      *)
(* rows, and an enumeration whose one label, the word, stands for 7: a     *)
(* cell that holds the number does not read as a label.                    *)
(***************************************************************************)
EXTENDS DatatableEdit

MCTypes == {"s", "e"}
MCTexts == {"word", "7"}
MCKindOf == [s |-> "string", e |-> "int"]
MCReads == [s |-> [x \in MCTexts |-> x],
            e |-> [x \in MCTexts |-> IF x = "word" THEN "7" ELSE Fails]]
MCDefault == [s |-> "word", e |-> "7"]
MCLoadedTypes == <<"s">>
MCLoadedTexts == << <<"word">>, <<"7">> >>
=============================================================================
