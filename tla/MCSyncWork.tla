----------------------------- MODULE MCSyncWork -----------------------------
(***************************************************************************)
(* Small catalogues for SyncWork.  Open Library, Wikidata and the library  *)
(* catalogues give a work and its editions different external ids.         *)
(***************************************************************************)
EXTENDS SyncWork

Edition(ext, isbn, k, ls) ==
  [ext |-> ext, isbn |-> isbn, k |-> k, parses |-> TRUE, links |-> ls]
Answer(ext, key, eds) == [ext |-> ext, key |-> key, eds |-> eds]

(* Two bibliographic sources that know one book, and a library catalogue   *)
(* that files one of its printings under another title.                    *)
OneBook ==
  [s \in {"open-library", "wikidata", "dnb"} |->
     CASE s = "open-library" ->
            {Answer("OL1", "k1", <<Edition("OL1M", TRUE, "isbn", {"borrow"}),
                                   [Edition("OL2M", FALSE, "?", {}) EXCEPT !.parses = FALSE],
                                   Edition("OL3M", FALSE, "first", {"pirate"})>>)}
       [] s = "wikidata" ->
            {Answer("Q1", "k1", <<Edition("ws1", FALSE, "text", {"read"})>>)}
       [] s = "dnb" ->
            {Answer("q-dnb", "k2", <<Edition("dnb1", TRUE, "isbn", {}),
                                     Edition("dnb2", FALSE, "reprint", {})>>),
             Answer("q-dnb", "k3", <<Edition("dnb3", TRUE, "other", {})>>)}]
OneBookSame == {<<"k1", "k2">>}

(* Two sources that may discover one book at the same time.                *)
TwoSources ==
  [s \in {"open-library", "wikidata"} |->
     IF s = "open-library"
     THEN {Answer("OL1", "k1", <<Edition("OL1M", TRUE, "isbn", {"borrow"})>>)}
     ELSE {Answer("Q1", "k1", << >>)}]

(* Two works whose edition lists name the same two ISBNs in opposite       *)
(* orders, and a Gutenberg text attached to a work.                        *)
ThreeSources ==
  [s \in {"open-library", "dnb", "gutenberg"} |->
     CASE s = "open-library" ->
            {Answer("OL1", "k1", <<Edition("OL1M", TRUE, "isbn", {"borrow"}),
                                   Edition("OL2M", TRUE, "isbn2", {})>>)}
       [] s = "dnb" ->
            {Answer("D1", "k2", <<Edition("D2M", TRUE, "isbn2", {}),
                                  Edition("D1M", TRUE, "isbn", {})>>)}
       [] s = "gutenberg" ->
            {Answer("pg1", "k1", <<Edition("pg1", FALSE, "text", {"epub"})>>)}]
ThreeSourcesSame == {<<"k1", "k1">>}
=============================================================================
