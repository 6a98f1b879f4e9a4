---------------------------- MODULE MCCollection ----------------------------
(* Instances of Collection for TLC. *)
EXTENDS Collection

CONSTANTS u1, u2, u3, l1, l2, c1, c2

(* Two addresses of one listing, and one of another. *)
IdOf == [u \in Urls |-> IF u = u3 THEN l2 ELSE l1]

(* Two pages where a scraper goes through several; one of Loft, which the    *)
(* runs of two clicks use.                                                   *)
UpToTwo == [s \in Sources |->
    CASE s \in (PageScrapers \ {"loft"}) \cup {"superbid", "mega_leiloes"} -> 2
      [] s \in {"loft", "leiloeiro_publico", "lanceja", "caixa"} -> 1
      [] s = "blocked_public" -> 0]

(* The lot, and the search page, that are written in the code. *)
Known == [s \in Sources |-> IF s \in {"leiloeiro_publico", "blocked_public"} THEN {u1} ELSE {}]

All == PageScrapers \cup LotScrapers

(* One run of every scraper that meets links; two clicks, with crashes and   *)
(* analyses, on one that meets none; and one run of a page scraper or a lot  *)
(* scraper that meets a link and may die.                                    *)
Cases == {[sources |-> All, clicks |-> {c1}, analyses |-> FALSE, links |-> 2, crashes |-> 0],
          [sources |-> {"loft"}, clicks |-> {c1, c2}, analyses |-> TRUE, links |-> 0, crashes |-> 1],
          [sources |-> {"chaves_na_mao", "superbid"}, clicks |-> {c1}, analyses |-> FALSE,
           links |-> 1, crashes |-> 1]}
=============================================================================
