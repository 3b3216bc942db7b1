----------------------------- MODULE MCIndexing -----------------------------
(***************************************************************************)
(* A text with a title that is repeated on every page, sections that begin *)
(* a page, notes, and elements that are indexed by word and by field.      *)
(***************************************************************************)
EXTENDS Indexing

MCElem == {"text", "sec", "title", "note", "nli"}
MCBreaker == [e \in MCElem |-> CASE e = "sec" -> "open"
                                 [] e = "title" -> "store"
                                 [] e = "nli" -> "close"
                                 [] OTHER -> "none"]
MCItems == [e \in MCElem |-> CASE e = "text" -> {[ndx |-> "full", typ |-> "word"]}
                               [] e = "title" -> {[ndx |-> "title", typ |-> "word"],
                                                  [ndx |-> "title_f", typ |-> "field"]}
                               [] OTHER -> {}]
MCChunk == {<<"a">>, <<"a", "\n">>, <<" ">>}
=============================================================================
