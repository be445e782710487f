------------------------------ MODULE MCSearch ------------------------------
(***************************************************************************)
(* One novel that Open Library files as "Laurus" and knows by no other     *)
(* name, that Gutenberg finds by "laur", and whose sequel nobody has; the  *)
(* text search takes the first for the second, and doubts it.  The German  *)
(* catalogue, which is only ever asked about known books, adds an edition  *)
(* whose title the search then matches; Google Books, which is only asked  *)
(* to discover, knows the novel too but stands after Gutenberg.            *)
(***************************************************************************)
EXTENDS Search, TLC

JobIdsMC == {SearchJob(q) : q \in Queries} \cup {PageJob("laur")}
DiscoveryMC == <<"open-library", "gutenberg", "google-books">>
EnrichmentMC == <<"gutenberg", "dnb">>
KnowsMC == [s \in {"open-library", "gutenberg", "google-books", "dnb"} |->
              IF s = "gutenberg" THEN {<<"laur", "b1">>, <<"Laurus", "b1">>} ELSE {<<"Laurus", "b1">>}]
NameMC == [x \in {"b1"} |-> "Laurus"]
StoredMC == {{}, {"b1"}}
ConfidentMC == {<<"laur", "dnb", "b1">>}
WeakMC == {<<"laur 2", "b1">>}

(* Worker slots and requests are interchangeable. *)
Alike == Permutations(Consumers) \cup Permutations(Requests)
=============================================================================
