----------------------------- MODULE BookCatalog -----------------------------
(***************************************************************************)
(* What the catalogue in Postgres promises, whoever syncs, fails or dies:  *)
(* it changes by whole publications.  A publication is one source's        *)
(* complete answer about one work; "a partially applied sync does not      *)
(* exist", no row ever disappears, and no two rows share a natural key.    *)
(* SyncWork implements this specification.                                 *)
(***************************************************************************)
EXTENDS Naturals, Sequences

CONSTANTS Catalogue, AllowedLinks
VARIABLES works, editions, refs, links

catalog == <<works, editions, refs, links>>

Listed(a) == {a.eds[i] : i \in {j \in 1..Len(a.eds) : a.eds[j].parses}}
Unique(f) == \A x, y \in DOMAIN f : f[x].key = f[y].key => x = y

(* At most the rows `changed' of a table differ, and none is lost. *)
OnlyChanges(old, new, changed) ==
  /\ DOMAIN old \subseteq DOMAIN new
  /\ \A x \in DOMAIN new : x \in changed \/ (x \in DOMAIN old /\ new[x] = old[x])

(* The names an answer of source s gives, and the row of external_ref that *)
(* each of its editions leads to.                                          *)
Names(s, a) == {<<s, a.ext>>} \cup {<<s, e.ext>> : e \in Listed(a)}
RowOf(s, e) == refs'[<<s, e.ext>>].id

(* Source s publishes its answer a under the work row id.  The one work    *)
(* row, the rows its editions lead to or share a printing with, the names  *)
(* it gives and the links it offers: nothing else changes, and of the      *)
(* names and the links the policy allows, none is missing.                 *)
PublishUnder(s, a, id) ==
  /\ OnlyChanges(refs, refs', Names(s, a)) /\ Names(s, a) \subseteq DOMAIN refs'
  /\ OnlyChanges(works, works', {id}) /\ Unique(works') /\ id \in DOMAIN works'
  /\ OnlyChanges(editions, editions',
                 {x \in DOMAIN editions' :
                    \E e \in Listed(a) : RowOf(s, e) = x \/ editions'[x].key[2] = e.k})
  /\ Unique(editions') /\ \A x \in DOMAIN editions' : editions'[x].work \in DOMAIN works'
  /\ links \subseteq links'
  /\ \A e \in Listed(a) : \A l \in e.links \cap AllowedLinks : <<RowOf(s, e), l>> \in links'
  /\ \A l \in links' \ links :
       \E e \in Listed(a) : l[1] = RowOf(s, e) /\ l[2] \in e.links \cap AllowedLinks

Publish(s, a) == \E id \in DOMAIN works' : PublishUnder(s, a, id)

Init ==
  /\ works = << >> /\ editions = << >> /\ refs = << >> /\ links = {}

Next == \E s \in DOMAIN Catalogue : \E a \in Catalogue[s] : Publish(s, a)

Spec == Init /\ [][Next]_catalog
=============================================================================
