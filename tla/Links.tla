------------------------------- MODULE Links -------------------------------
(***************************************************************************)
(* What a scraper makes of a page of its site: the _extract_listings of    *)
(* the page scrapers.                                                      *)
(*                                                                         *)
(* A page is a sequence of links to listings.  What the code tells apart   *)
(* of a link is its URL, the listing it takes the URL for, and how much of *)
(* the card around it can be used:                                         *)
(*   bare      a picture, without any text                                 *)
(*   unpriced  a text without a figure: "R$ sob consulta"                  *)
(*   garbled   a figure without digits, of which no Decimal can be made    *)
(*   complete  a listing                                                   *)
(***************************************************************************)
EXTENDS Integers, FiniteSets, SequencesExt

CONSTANTS
    Urls,         \* addresses of listings
    Ids,          \* the source_ids of one source
    SourceId      \* the source_id that the scraper makes of an address

(* Pages are read by URL, listings are stored by source_id, and several URLs *)
(* may have one: a lot's is the last segment of its path, or its number, the *)
(* rest of path and query dropped (mega_leiloes.py:168, lanceja.py:173,      *)
(* leiloeiro_publico.py:178, superbid.py:62); a card's is the number in a    *)
(* URL that spells out price or street as well (chaves_na_mao.py:139,        *)
(* brognoli.py:91, loft.py:124).  Where it is read from the card or the page *)
(* when that says one (loft_partner.py:144, caixa.py:39), an address is      *)
(* taken to be of one listing for as long as a run lasts.                    *)
ASSUME SourceIdAssumption == SourceId \in [Urls -> Ids]

Texts == {"bare", "unpriced", "garbled", "complete"}
Link == [url : Urls, text : Texts]

(* Kzue and CasaMare are the two partners of Loft.                           *)
PageScrapers == {"brognoli", "chaves_na_mao", "loft", "loft_partner", "quintoandar"}
(* OLX, Imovelweb, Viva Real and ZAP are blocked_public.                     *)
LotScrapers == {"caixa", "lanceja", "superbid", "mega_leiloes", "leiloeiro_publico", "blocked_public"}

(* Mutant: every scraper remembers a URL as soon as it meets it. *)
MarkedAtOnce(source) == IF source = "quintoandar" THEN {} ELSE Texts

(* Mutant: nothing is remembered. *)
MarkedNever(source) == IF source \in PageScrapers THEN {} ELSE Texts

(* The links after which a scraper remembers the URL: before, between or     *)
(* after its checks of the card.  Quinto Andar remembers none.               *)
Marked(source) ==
    CASE source = "chaves_na_mao" -> Texts
      [] source = "loft" -> Texts \ {"bare"}
      [] source \in {"brognoli", "loft_partner"} -> {"complete"}
      [] source = "quintoandar" -> {}

(* One turn of the loop over the links.  Once a card has raised, the rest of *)
(* the page is not read, and the URLs remembered so far stay remembered.     *)
ReadLink(source, sofar, link) ==
    IF sofar.raised \/ link.url \in sofar.seen THEN sofar
    ELSE [seen |-> IF link.text \in Marked(source) THEN sofar.seen \cup {link.url} ELSE sofar.seen,
          found |-> IF link.text = "complete" THEN Append(sofar.found, link.url) ELSE sofar.found,
          raised |-> link.text = "garbled"]

(* _extract_listings of a page, with the URLs seen on earlier ones. *)
Extract(source, page, seen) ==
    FoldLeft(LAMBDA sofar, link : ReadLink(source, sofar, link),
             [seen |-> seen, found |-> <<>>, raised |-> FALSE], page)

(* What a refusal looks like: a status of 401, 403 or 429, another one that  *)
(* is an error, or the words of a wall against robots, under any status.     *)
Signs == {"forbidden", "error", "captcha"}

(* The refusals that a source does not take for a page without listings: the *)
(* page scrapers raise for a status (Quinto Andar does not ask), Caixa looks *)
(* for the words, the probe of the portals for the words and three statuses. *)
Noticed(source) ==
    CASE source \in PageScrapers \ {"quintoandar"} -> {"forbidden", "error"}
      [] source = "caixa" -> {"captcha"}
      [] source = "blocked_public" -> {"forbidden", "captcha"}
      [] OTHER -> {}
=============================================================================
