----------------------------- MODULE CssScraper -----------------------------
(***************************************************************************)
(* CssSelectorScraper.fetch_articles (scrapers/css.py): the articles that  *)
(* a site's selectors collect from its list page.  A page is the sequence  *)
(* of the posts its own item selector matches; a post says only what the   *)
(* steps below ask of it.                                                  *)
(***************************************************************************)
EXTENDS Naturals, Sequences

CONSTANTS Url, None

ASSUME UrlAssumption == None \notin Url

\* text: any text that can be its title; link: the address of its article;
\* list: what is left of it as content, "match" by the content selector, "whole"
\* without a match, "empty" after the removals; detail: what its article page
\* gives, "match", "other" (a fallback selector) or "none" (too short, unreadable).
Post == [text : BOOLEAN, link : Url \cup {None},
         list : {"match", "whole", "empty"}, detail : {"match", "other", "none"}]

\* An article: its sync key and which of the two fallbacks gave its content.
Article == [key : Url, from : {"match", "list_fallback", "detail_fallback"}]

\* _extract_link: a post without a link is taken for the page itself.
LinkOf(post, page) == IF post.link = None THEN page ELSE post.link

FromDetail(post, site) == site.detail /\ LinkOf(post, site.url) # site.url

\* The posts that are not skipped.
Collected(post, site) ==
    /\ post.text
    /\ IF FromDetail(post, site) THEN post.detail # "none" ELSE post.list # "empty"

ArticleOf(post, site) ==
    [key  |-> LinkOf(post, site.url),
     from |-> IF FromDetail(post, site)
              THEN IF post.detail = "other" THEN "detail_fallback" ELSE "match"
              ELSE IF post.list = "whole" THEN "list_fallback" ELSE "match"]

\* What the loop has collected after n posts of a page.
Collecting(posts, site) ==
    LET articles[n \in 0..Len(posts)] ==
          IF n = 0 THEN <<>>
          ELSE IF Collected(posts[n], site)
               THEN Append(articles[n - 1], ArticleOf(posts[n], site))
               ELSE articles[n - 1]
    IN  articles

\* The limit counts posts, also those that are then skipped.  An empty selector,
\* no match and no article at all are exceptions, here the empty sequence;
\* selectors taken from another page match nothing.
FetchArticles(page, site) ==
    LET posts == IF site.selectors = site.url THEN page ELSE <<>>
    IN  Collecting(posts, site)[IF Len(posts) < site.limit THEN Len(posts) ELSE site.limit]
=============================================================================
