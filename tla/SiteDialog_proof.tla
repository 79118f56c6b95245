-------------------------- MODULE SiteDialog_proof --------------------------
(***************************************************************************)
(* Proofs about SiteDialog and CssScraper: requests and buttons, the page  *)
(* that is tested, and what a preview promises of a sync.                  *)
(***************************************************************************)
EXTENDS SiteDialog, FiniteSetTheorems, WellFoundedInduction, TLAPS

-----------------------------------------------------------------------------
(* The loop of fetch_articles.                                             *)

\* A set of numbers that has zero, and the successor of each of its members below
\* the bound, has all numbers up to the bound.
LEMMA UpTo ==
  ASSUME NEW N \in Nat, NEW S, 0 \in S, \A n \in 0..N : n # 0 /\ n - 1 \in S => n \in S
  PROVE  0..N \subseteq S
<1>. DEFINE R == {ss \in Nat \X Nat : ss[1] < ss[2]}
            Rest == 0..N \ S
<1>. SUFFICES ASSUME Rest # {} PROVE FALSE
  OBVIOUS
<1>1. IsWellFoundedOn(R, Nat)
  BY NatLessThanWellFounded DEF OpToRel
<1>2. PICK n \in Rest : \A m \in Rest : ~ (<<m, n>> \in R)
  <2>1. Rest \in SUBSET Nat OBVIOUS
  <2>. HIDE DEF R, Rest
  <2>. QED BY <1>1, <2>1, WFMin, Zenon
<1>3. n \in 0..N /\ n \notin S
  BY <1>2
<1>4. n # 0 /\ n - 1 \in 0..N /\ n - 1 \in Nat /\ n - 1 < n
  BY <1>3
<1>5. <<n - 1, n>> \in R
  <2>1. <<n - 1, n>> \in Nat \X Nat /\ <<n - 1, n>>[1] < <<n - 1, n>>[2]
    BY <1>3, <1>4
  <2>. QED BY <2>1
<1>6. n - 1 \in S
  <2>. HIDE DEF R
  <2>1. n - 1 \notin Rest BY <1>2, <1>5
  <2>. QED BY <1>4, <2>1
<1>. QED BY <1>3, <1>4, <1>6

LEMMA CollectingIs ==
  ASSUME NEW posts \in Seq(Post), NEW site
  PROVE  /\ Collecting(posts, site)[0] = <<>>
         /\ \A n \in 1..Len(posts) :
              Collecting(posts, site)[n] =
                IF Collected(posts[n], site)
                THEN Append(Collecting(posts, site)[n - 1], ArticleOf(posts[n], site))
                ELSE Collecting(posts, site)[n - 1]
<1>. DEFINE Step(n, before) ==
              IF n = 0 THEN <<>>
              ELSE IF Collected(posts[n], site)
                   THEN Append(before, ArticleOf(posts[n], site)) ELSE before
            Defined(k, f) == f = [n \in 0..k |-> Step(n, f[n - 1])]
            S == {k \in 0..Len(posts) : \E f : Defined(k, f)}
<1>0. Len(posts) \in Nat
  OBVIOUS
<1>1. 0 \in S
  <2>1. Defined(0, [n \in 0..0 |-> <<>>])
    OBVIOUS
  <2>. HIDE DEF Defined
  <2>. QED BY <1>0, <2>1
<1>2. ASSUME NEW k \in 0..Len(posts), k # 0, k - 1 \in S PROVE k \in S
  <2>1. PICK f : Defined(k - 1, f)
    BY <1>2
  <2>. DEFINE g == [n \in 0..k |-> IF n = k THEN Step(k, f[k - 1]) ELSE f[n]]
  <2>2. ASSUME NEW n \in 0..k PROVE g[n] = Step(n, g[n - 1])
    <3>. HIDE DEF Step
    <3>1. CASE n = k
      <4>1. g[n] = Step(k, f[k - 1]) /\ g[n - 1] = f[k - 1]
        BY <1>2, <3>1
      <4>. QED BY <3>1, <4>1
    <3>2. CASE n # k
      <4>1. n \in 0..(k - 1) /\ g[n] = f[n] /\ f[n] = Step(n, f[n - 1])
        BY <2>1, <3>2
      <4>2. n # 0 => g[n - 1] = f[n - 1]
        BY <3>2
      <4>3. n = 0 => Step(n, f[n - 1]) = Step(n, g[n - 1])
        BY DEF Step
      <4>. QED BY <4>1, <4>2, <4>3
    <3>. QED BY <3>1, <3>2
  <2>3. Defined(k, g)
    <3>. HIDE DEF Step
    <3>. QED BY <2>2
  <2>. QED BY <2>3
<1>3. Len(posts) \in S
  <2>. HIDE DEF S
  <2>1. 0..Len(posts) \subseteq S BY <1>0, <1>1, <1>2, UpTo
  <2>. QED BY <1>0, <2>1
<1>4. \E f : Defined(Len(posts), f)
  BY <1>3
<1>. DEFINE f == Collecting(posts, site)
<1>5. f = [n \in 0..Len(posts) |-> Step(n, f[n - 1])]
  BY <1>4 DEF Collecting
<1>. HIDE DEF f
<1>6. f[0] = <<>> /\ \A n \in 1..Len(posts) : n # 0 /\ f[n] = Step(n, f[n - 1])
  <2>1. \A before : Step(0, before) = <<>>
    OBVIOUS
  <2>. HIDE DEF Step
  <2>2. \A n \in 0..Len(posts) : f[n] = Step(n, f[n - 1])
    BY <1>5
  <2>. QED BY <1>0, <2>1, <2>2
<1>7. ASSUME NEW n \in 1..Len(posts)
      PROVE  f[n] = IF Collected(posts[n], site)
                    THEN Append(f[n - 1], ArticleOf(posts[n], site)) ELSE f[n - 1]
  BY <1>6
<1>. QED BY <1>6, <1>7 DEF f

\* As many articles as posts at the most, and the first ones do not change.
LEMMA CollectingGrows ==
  ASSUME NEW posts \in Seq(Post), NEW site \in Form, NEW m \in 0..Len(posts)
  PROVE  \A n \in m..Len(posts) :
           /\ Collecting(posts, site)[n] \in Seq(Article)
           /\ Len(Collecting(posts, site)[n]) <= n
           /\ Len(Collecting(posts, site)[m]) <= Len(Collecting(posts, site)[n])
           /\ \A i \in 1..Len(Collecting(posts, site)[m]) :
                Collecting(posts, site)[n][i] = Collecting(posts, site)[m][i]
<1>. DEFINE f == Collecting(posts, site)
            Good(n) == /\ f[n] \in Seq(Article) /\ Len(f[n]) <= n
                       /\ m <= n => /\ Len(f[m]) \in Nat /\ Len(f[m]) <= Len(f[n])
                                    /\ \A i \in 1..Len(f[m]) : f[n][i] = f[m][i]
            S == {n \in 0..Len(posts) : Good(n)}
<1>0. Len(posts) \in Nat /\ m \in Nat /\ site.url \in Url
  BY DEF Form
<1>a. /\ f[0] = <<>>
      /\ \A n \in 1..Len(posts) :
           /\ ArticleOf(posts[n], site) \in Article
           /\ f[n] = f[n - 1] \/ f[n] = Append(f[n - 1], ArticleOf(posts[n], site))
  <2>1. ASSUME NEW n \in 1..Len(posts) PROVE ArticleOf(posts[n], site) \in Article
    <3>1. posts[n] \in Post BY <1>0
    <3>. QED BY <1>0, <3>1 DEF ArticleOf, LinkOf, Article, Post
  <2>. QED BY <2>1, CollectingIs
<1>. HIDE DEF f
<1>1. 0 \in S
  <2>1. <<>> \in Seq(Article) /\ Len(<<>>) = 0 /\ (m <= 0 => m = 0) /\ 0 \in 0..Len(posts)
    BY <1>0
  <2>2. Good(0)
    BY <1>a, <2>1
  <2>. QED BY <2>1, <2>2
<1>2. ASSUME NEW n \in 0..Len(posts), n # 0, n - 1 \in S PROVE n \in S
  <2>1. n \in 1..Len(posts) /\ n - 1 \in Nat /\ Good(n - 1)
    BY <1>0, <1>2
  <2>2. Len(f[n - 1]) \in Nat
    BY <2>1
  <2>3. /\ f[n] \in Seq(Article) /\ Len(f[n]) \in Len(f[n - 1])..Len(f[n - 1]) + 1
        /\ \A i \in 1..Len(f[n - 1]) : f[n][i] = f[n - 1][i]
    <3>1. CASE f[n] = f[n - 1] BY <2>1, <2>2, <3>1
    <3>2. CASE f[n] = Append(f[n - 1], ArticleOf(posts[n], site))
      BY <1>a, <2>1, <2>2, <3>2
    <3>. QED BY <1>a, <2>1, <3>1, <3>2
  <2>4. Len(f[n]) <= n
    BY <2>1, <2>2, <2>3
  <2>5. ASSUME m <= n
        PROVE  /\ Len(f[m]) \in Nat /\ Len(f[m]) <= Len(f[n])
               /\ \A i \in 1..Len(f[m]) : f[n][i] = f[m][i]
    <3>1. CASE m = n
      <4>1. Len(f[n]) \in Nat BY <2>3
      <4>. QED BY <3>1, <4>1
    <3>2. CASE m # n
      <4>1. /\ Len(f[m]) \in Nat /\ Len(f[m]) <= Len(f[n - 1])
            /\ \A i \in 1..Len(f[m]) : f[n - 1][i] = f[m][i]
        BY <1>0, <2>1, <2>5, <3>2
      <4>2. ASSUME NEW i \in 1..Len(f[m]) PROVE f[n][i] = f[m][i]
        <5>1. i \in 1..Len(f[n - 1]) BY <2>2, <4>1
        <5>. QED BY <2>3, <4>1, <5>1
      <4>3. Len(f[m]) <= Len(f[n])
        BY <2>2, <2>3, <4>1
      <4>. QED BY <4>1, <4>2, <4>3
    <3>. QED BY <3>1, <3>2
  <2>. QED BY <2>3, <2>4, <2>5
<1>3. 0..Len(posts) \subseteq S
  <2>. HIDE DEF S
  <2>. QED BY <1>0, <1>1, <1>2, UpTo
<1>4. \A n \in m..Len(posts) : n \in 0..Len(posts) /\ m <= n
  BY <1>0
<1>. QED BY <1>3, <1>4 DEF f

LEMMA CollectingAlike ==
  ASSUME NEW posts \in Seq(Post), NEW a, NEW b, a.url = b.url, a.detail = b.detail
  PROVE  \A n \in 0..Len(posts) : Collecting(posts, a)[n] = Collecting(posts, b)[n]
<1>. DEFINE f == Collecting(posts, a)
            g == Collecting(posts, b)
            S == {n \in 0..Len(posts) : f[n] = g[n]}
<1>0. Len(posts) \in Nat
  OBVIOUS
<1>1. \A n \in 1..Len(posts) : /\ Collected(posts[n], a) = Collected(posts[n], b)
                               /\ ArticleOf(posts[n], a) = ArticleOf(posts[n], b)
  BY DEF Collected, ArticleOf, FromDetail
<1>2. f[0] = g[0] /\ \A n \in 1..Len(posts) : f[n - 1] = g[n - 1] => f[n] = g[n]
  BY <1>1, CollectingIs
<1>. HIDE DEF f, g
<1>3. 0 \in S
  BY <1>0, <1>2
<1>4. ASSUME NEW n \in 0..Len(posts), n # 0, n - 1 \in S PROVE n \in S
  BY <1>0, <1>2, <1>4
<1>5. 0..Len(posts) \subseteq S
  <2>. HIDE DEF S
  <2>. QED BY <1>0, <1>3, <1>4, UpTo
<1>. QED BY <1>5 DEF f, g

USE DialogAssumption, UrlAssumption DEF vars, assistant

\* The articles of a preview are the first ones of a sync of the same site
\* (_on_preview_scrape and fetch_articles).
THEOREM PreviewIsFirst ==
  ASSUME NEW page \in Seq(Post), NEW site \in Form
  PROVE  LET few == FetchArticles(page, PreviewSite(site))
             all == FetchArticles(page, site)
         IN  /\ Len(few) <= PreviewLimit /\ Len(few) <= Len(all)
             /\ SubSeq(all, 1, Len(few)) = few
<1>. DEFINE posts == IF site.selectors = site.url THEN page ELSE <<>>
            small == PreviewSite(site)
            m == IF Len(posts) < small.limit THEN Len(posts) ELSE small.limit
            n == IF Len(posts) < site.limit THEN Len(posts) ELSE site.limit
            few == Collecting(posts, site)[m]
            all == Collecting(posts, site)[n]
<1>1. /\ small.url = site.url /\ small.detail = site.detail /\ small.selectors = site.selectors
      /\ small.limit \in Nat /\ small.limit <= site.limit /\ small.limit <= PreviewLimit
      /\ site.limit \in Nat /\ site.url \in Url
  BY DEF PreviewSite, Form
<1>2. posts \in Seq(Post) /\ Len(posts) \in Nat
  <2>1. posts \in Seq(Post) OBVIOUS
  <2>. HIDE DEF posts
  <2>. QED BY <2>1
<1>. HIDE DEF posts, small
<1>3. m \in 0..Len(posts) /\ n \in m..Len(posts) /\ m \in m..Len(posts) /\ m <= PreviewLimit
  BY <1>1, <1>2
<1>4. /\ FetchArticles(page, site) = all
      /\ FetchArticles(page, small) = Collecting(posts, small)[m]
  BY <1>1 DEF FetchArticles, posts
<1>5. Collecting(posts, small)[m] = few
  <2>. HIDE DEF m
  <2>. QED BY <1>1, <1>2, <1>3, CollectingAlike
<1>6. /\ few \in Seq(Article) /\ all \in Seq(Article) /\ Len(few) <= m
      /\ Len(few) <= Len(all) /\ \A i \in 1..Len(few) : all[i] = few[i]
  <2>. HIDE DEF m, n
  <2>1. \A k \in m..Len(posts) :
          /\ Collecting(posts, site)[k] \in Seq(Article) /\ Len(Collecting(posts, site)[k]) <= k
          /\ Len(few) <= Len(Collecting(posts, site)[k])
          /\ \A i \in 1..Len(few) : Collecting(posts, site)[k][i] = few[i]
    <3>1. posts \in Seq(Post) /\ m \in 0..Len(posts) BY <1>2, <1>3
    <3>. QED BY ONLY <3>1, site \in Form, CollectingGrows
  <2>. QED BY <1>3, <2>1
<1>. HIDE DEF few, all, m, n
<1>7. Len(few) \in Nat /\ Len(all) \in Nat
  BY <1>6
<1>8. SubSeq(all, 1, Len(few)) = few
  <2>1. /\ SubSeq(all, 1, Len(few)) \in Seq(Article)
        /\ Len(SubSeq(all, 1, Len(few))) = Len(few)
        /\ \A i \in 1..Len(few) : SubSeq(all, 1, Len(few))[i] = all[i]
    BY <1>6, <1>7
  <2>. QED BY <1>6, <1>7, <2>1
<1>9. Len(few) <= PreviewLimit
  BY <1>3, <1>6, <1>7 DEF m
<1>. QED BY <1>4, <1>5, <1>6, <1>8, <1>9 DEF small

-----------------------------------------------------------------------------
(* Types.                                                                  *)

Fine(f) == f \in Form /\ (f.type # "css" => ~f.detail)

LEMMA WithTypeIs ==
  ASSUME NEW f, Fine(f), NEW t \in Types, NEW u \in Url
  PROVE  Fine(WithType(f, t)) /\ Fine([WithType(f, t) EXCEPT !.url = u])
BY DEF Fine, WithType, Form, Types

LEMMA FormStep ==
  ASSUME TypeOK,
         EditForm \/ ChoosePreset \/ SwitchRss \/ SwitchPlatform \/ DomSelect
           \/ ApplySuggestions \/ ApplyRecommended
  PROVE  /\ Fine(form') /\ dialog = "open"
         /\ UNCHANGED <<dialog, assistant, saved>>
         /\ result' = result \/ result' = NoResult
<1>0. Fine(form) /\ {"css", "rss", "platform"} \subseteq Types /\ form.url \in Url
  BY DEF TypeOK, Fine, Types, Form
<1>1. ASSUME NEW f, Fine(f), Fill(f)
      PROVE  Fine(form') /\ UNCHANGED <<dialog, assistant, result, saved>>
  BY <1>1 DEF Fill
<1>2. CASE EditForm
  <2>1. \A u \in Url : Fine([form EXCEPT !.url = u])
    BY <1>0 DEF Fine, Form
  <2>2. \A k \in Limits : Fine([form EXCEPT !.limit = k])
    BY <1>0 DEF Fine, Form
  <2>3. \A s \in {form.url, None} : Fine([form EXCEPT !.selectors = s])
    BY <1>0 DEF Fine, Form
  <2>4. \A t \in Types : Fine(WithType(form, t))
    BY <1>0, WithTypeIs
  <2>5. form.type = "css" => Fine([form EXCEPT !.detail = ~@])
    BY <1>0 DEF Fine, Form
  <2>. QED BY <1>1, <1>2, <2>1, <2>2, <2>3, <2>4, <2>5 DEF EditForm
<1>3. CASE ChoosePreset
  <2>1. PICK u \in Url, k \in Limits, t \in Types :
          Fill(WithType([form EXCEPT !.url = u, !.limit = k], t))
    BY <1>3 DEF ChoosePreset
  <2>2. Fine([form EXCEPT !.url = u, !.limit = k])
    BY <1>0 DEF Fine, Form
  <2>. QED BY <1>0, <1>1, <1>3, <2>1, <2>2, WithTypeIs DEF ChoosePreset
<1>4. CASE SwitchRss
  <2>1. tree \in Url /\ FeedOf[tree] \in Url BY <1>4 DEF SwitchRss, TypeOK
  <2>. QED BY <1>0, <1>1, <1>4, <2>1, WithTypeIs DEF SwitchRss
<1>5. CASE SwitchPlatform
  BY <1>0, <1>1, <1>5, WithTypeIs DEF SwitchPlatform
<1>6. CASE DomSelect
  <2>1. Fine([form EXCEPT !.selectors = tree]) BY <1>0 DEF Fine, Form, TypeOK
  <2>. QED BY <1>1, <1>6, <2>1 DEF DomSelect
<1>7. CASE ApplySuggestions
  <2>1. /\ Fine([form EXCEPT !.selectors = analysis])
        /\ Fine([form EXCEPT !.selectors = analysis, !.type = "css", !.detail = TRUE])
    BY <1>0 DEF Fine, Form, TypeOK, Types
  <2>. QED BY <1>1, <1>7, <2>1 DEF ApplySuggestions
<1>8. CASE ApplyRecommended
  <2>1. PICK short \in BOOLEAN : form' = Recommended(analysis, short)
    BY <1>8 DEF ApplyRecommended
  <2>2. analysis \in Url BY <1>8 DEF ApplyRecommended, TypeOK
  <2>3. FeedOf[analysis] \in Url \cup {None} BY <2>2
  <2>4. Fine([form EXCEPT !.type = "css", !.url = analysis, !.selectors = analysis,
                         !.detail = short])
    BY <1>0, <2>2 DEF Fine, Form
  <2>5. \A g : Fine(g) => Fine([g EXCEPT !.limit = UsualLimit])
    BY DialogAssumption DEF Fine, Form
  <2>6. Fine(Recommended(analysis, short))
    BY <1>0, <2>2, <2>3, <2>4, <2>5, WithTypeIs DEF Recommended
  <2>. QED BY <1>8, <2>1, <2>6 DEF ApplyRecommended
<1>. QED
  BY <1>2, <1>3, <1>4, <1>5, <1>6, <1>7, <1>8
  DEF EditForm, ChoosePreset, SwitchRss, SwitchPlatform, DomSelect, ApplySuggestions,
      ApplyRecommended

\* What a request asks for.
LEMMA AskIs ==
  ASSUME TypeOK, NEW kind \in Kinds, NEW site \in Form, Ask(kind, site)
  PROVE  /\ ~busy /\ busy' = TRUE /\ gen' = gen + 1 /\ gen' \in 1..MaxRequests
         /\ \E j \in Request : j.gen = gen' /\ jobs' = jobs \cup {j}
         /\ UNCHANGED <<form, dialog, posted, html, analysis, tree, saved>>
<1>1. gen + 1 \in 1..MaxRequests BY DEF Ask, BeginWork, TypeOK
<1>. QED BY <1>1 DEF Ask, BeginWork, Request

LEMMA AddressOfIs == ASSUME NEW site \in Form PROVE AddressOf(site) \in Form
BY DEF AddressOf, Form, Types

\* A request begins: an analysis, a test of a page that is not in memory, or a
\* preview.
Begins ==
  /\ ~busy /\ busy' = TRUE /\ gen' = gen + 1 /\ gen' \in 1..MaxRequests
  /\ \E j \in Request : j.gen = gen' /\ jobs' = jobs \cup {j}
  /\ result' = result \/ result' = NoResult
  /\ UNCHANGED <<form, dialog, posted, html, analysis, tree, saved>>

TestsAtOnce ==
  /\ result' = [NoResult EXCEPT !.kind = "test"]
  /\ UNCHANGED <<form, dialog, assistant, saved>>

LEMMA RequestStep ==
  ASSUME TypeOK, OnAnalyze \/ OnTest \/ OnPreviewScrape
  PROVE  dialog = "open" /\ (Begins \/ TestsAtOnce)
<1>0. form \in Form /\ AddressOf(form) \in Form /\ {"analysis", "test", "preview"} \subseteq Kinds
  BY AddressOfIs DEF TypeOK, Kinds
<1>1. CASE OnAnalyze
  BY <1>0, <1>1, AskIs DEF OnAnalyze, Begins
<1>2. CASE OnTest
  <2>1. CASE html # None BY <1>2, <2>1 DEF OnTest, TestsAtOnce
  <2>2. CASE html = None BY <1>0, <1>2, <2>2, AskIs DEF OnTest, Begins
  <2>. QED BY <2>1, <2>2
<1>3. CASE OnPreviewScrape
  BY <1>0, <1>3, AskIs DEF OnPreviewScrape, Begins
<1>. QED BY <1>1, <1>2, <1>3

\* What the result field shows is nothing, or what a preview has collected.
Foretold ==
  \/ result.articles = <<>>
  \/ /\ result.site \in Form
     /\ result.articles = FetchArticles(PageOf[result.site.url], PreviewSite(result.site))

LEMMA ShownIs ==
  ASSUME NEW request \in Request, NEW loaded, result' = Shown(request, loaded)
  PROVE  Foretold' /\ result'.kind \in Kinds /\ Len(result'.articles) <= PreviewLimit
<1>0. request.site \in Form /\ request.kind \in Kinds /\ Len(<<>>) <= PreviewLimit
  BY DEF Request
<1>1. CASE request.kind # "preview" \/ ~loaded
  <2>1. result'.kind = request.kind /\ result'.articles = <<>>
    BY <1>1 DEF Shown, NoResult
  <2>. QED BY <1>0, <2>1 DEF Foretold
<1>2. CASE request.kind = "preview" /\ loaded
  <2>1. /\ result'.kind = "preview" /\ result'.site = request.site
        /\ result'.articles = FetchArticles(PageOf[request.site.url], PreviewSite(request.site))
    BY <1>2 DEF Shown, Articles
  <2>2. PageOf[request.site.url] \in Seq(Post)
    BY <1>0 DEF Form
  <2>3. Len(result'.articles) <= PreviewLimit
    BY <1>0, <2>1, <2>2, PreviewIsFirst
  <2>. QED BY <1>0, <2>1, <2>3 DEF Foretold, Kinds
<1>. QED BY <1>1, <1>2

LEMMA StepTyped ==
  ASSUME TypeOK, Foretold, [Next]_vars PROVE TypeOK' /\ Foretold'
<1>0. /\ NoResult.articles = <<>> /\ NoResult.kind = "none" /\ Len(<<>>) <= PreviewLimit
      /\ \A k : [NoResult EXCEPT !.kind = k].articles = <<>> /\ [NoResult EXCEPT !.kind = k].kind = k
  BY DEF NoResult
<1>1. CASE EditForm \/ ChoosePreset \/ SwitchRss \/ SwitchPlatform \/ DomSelect
           \/ ApplySuggestions \/ ApplyRecommended
  BY <1>0, <1>1, FormStep DEF TypeOK, Fine, Foretold
<1>2. CASE OnAnalyze \/ OnTest \/ OnPreviewScrape
  <2>1. CASE Begins BY <1>0, <2>1 DEF Begins, TypeOK, Foretold
  <2>2. CASE TestsAtOnce BY <1>0, <2>2 DEF TestsAtOnce, TypeOK, Foretold, Kinds
  <2>. QED BY <1>2, <2>1, <2>2, RequestStep
<1>3. CASE Work
  <2>1. PICK j \in jobs :
          /\ jobs' = jobs \ {j}
          /\ IF dialog = "closed"
             THEN busy' = FALSE /\ UNCHANGED posted
             ELSE /\ \E loaded \in BOOLEAN :
                        posted' = posted \cup {[request |-> j, loaded |-> loaded]}
                  /\ UNCHANGED busy
    BY <1>3 DEF Work
  <2>2. /\ \A i \in jobs' : i \in Request
        /\ \A c \in posted' : c.request \in Request
        /\ busy' \in BOOLEAN
    <3>1. CASE dialog = "closed" BY <2>1, <3>1 DEF TypeOK
    <3>2. CASE dialog # "closed"
      <4>1. PICK loaded \in BOOLEAN :
              posted' = posted \cup {[request |-> j, loaded |-> loaded]}
        BY <2>1, <3>2
      <4>2. busy' = busy BY <2>1, <3>2
      <4>. QED BY <2>1, <4>1, <4>2 DEF TypeOK
    <3>. QED BY <3>1, <3>2
  <2>3. UNCHANGED <<form, dialog, gen, html, analysis, tree, result, saved>>
    BY <1>3 DEF Work
  <2>. QED BY <2>2, <2>3 DEF TypeOK, Foretold
<1>4. CASE Callback
  <2>1. PICK c \in posted :
          /\ posted' = posted \ {c}
          /\ busy' = (busy /\ c.request.gen # gen)
          /\ IF c.request.gen # gen \/ dialog = "closed"
             THEN UNCHANGED <<html, analysis, tree, result>>
             ELSE /\ \/ ApplyAnalysis(c.request.site.url, c.loaded)
                     \/ FinishTest(c.request.site.url, c.loaded)
                     \/ UNCHANGED <<html, analysis, tree>>
                  /\ result' = Shown(c.request, c.loaded)
    BY <1>4 DEF Callback
  <2>2. c.request \in Request /\ c.request.site.url \in Url
    BY DEF TypeOK, Request, Form
  <2>3. /\ {html', analysis', tree'} \subseteq Url \cup {None}
    BY <2>1, <2>2 DEF ApplyAnalysis, FinishTest, TypeOK
  <2>4. /\ Foretold' /\ result'.kind \in Kinds \cup {"none"}
        /\ Len(result'.articles) <= PreviewLimit
    <3>1. CASE UNCHANGED result BY <3>1 DEF TypeOK, Foretold
    <3>2. CASE result' = Shown(c.request, c.loaded) BY <2>2, <3>2, ShownIs
    <3>. QED BY <2>1, <3>1, <3>2
  <2>5. UNCHANGED <<form, dialog, gen, jobs, saved>> BY <1>4 DEF Callback
  <2>. QED BY <2>1, <2>3, <2>4, <2>5 DEF TypeOK
<1>5. CASE SaveSite
  BY <1>5 DEF SaveSite, TypeOK, Foretold
<1>6. CASE Cancel
  BY <1>6 DEF Cancel, TypeOK, Foretold
<1>7. CASE UNCHANGED vars
  BY <1>7 DEF TypeOK, Foretold
<1>. QED BY <1>1, <1>2, <1>3, <1>4, <1>5, <1>6, <1>7 DEF Next

LEMMA InitTyped == ASSUME Init PROVE TypeOK /\ Foretold
<1>1. /\ result.articles = <<>> /\ result.kind = "none" /\ Len(<<>>) <= PreviewLimit
  BY DEF Init, NoResult
<1>2. form \in Form /\ (form.type # "css" => ~form.detail)
  BY DEF Init
<1>3. /\ dialog \in {"open", "closed"} /\ busy \in BOOLEAN
      /\ jobs = {} /\ posted = {} /\ saved \in Form \cup {None}
  BY DEF Init
<1>4. gen \in 0..MaxRequests /\ {html, analysis, tree} \subseteq Url \cup {None}
  BY DEF Init
<1>. QED BY <1>1, <1>2, <1>3, <1>4 DEF TypeOK, Foretold

\* Every variable keeps its type; a preview never lists more than its limit.
THEOREM DialogTyped == Spec => []TypeOK
<1>1. Init => TypeOK /\ Foretold BY InitTyped
<1>2. TypeOK /\ Foretold /\ [Next]_vars => TypeOK' /\ Foretold' BY StepTyped
<1>. QED BY <1>1, <1>2, PTL DEF Spec

\* The first articles of a sync are those the preview has shown, if the site was
\* saved as it was previewed and the page has not changed, for every page.
THEOREM PreviewsForetell == Spec => []PreviewForetells
<1>1. Init => TypeOK /\ Foretold BY InitTyped
<1>2. TypeOK /\ Foretold /\ [Next]_vars => TypeOK' /\ Foretold' BY StepTyped
<1>3. ASSUME TypeOK, Foretold PROVE PreviewForetells
  <2>. SUFFICES ASSUME result.articles # <<>>, saved = result.site
                PROVE  LET all == FetchArticles(PageOf[saved.url], saved)
                       IN  /\ Len(result.articles) <= Len(all)
                           /\ SubSeq(all, 1, Len(result.articles)) = result.articles
    BY DEF PreviewForetells
  <2>1. /\ saved \in Form /\ PageOf[saved.url] \in Seq(Post)
        /\ result.articles = FetchArticles(PageOf[saved.url], PreviewSite(saved))
    BY <1>3 DEF Foretold, Form
  <2>. QED BY <2>1, PreviewIsFirst
<1>. QED BY <1>1, <1>2, <1>3, PTL DEF Spec

-----------------------------------------------------------------------------
(* Buttons and pages.                                                      *)

\* While the dialog is open there is one request of the present generation, as a
\* thread or as a callback, exactly when the assistant is busy.
OneRequest ==
  dialog = "open" =>
    IF busy THEN \/ \E j : jobs = {j} /\ posted = {} /\ j.gen = gen
                 \/ \E c : jobs = {} /\ posted = {c} /\ c.request.gen = gen
    ELSE jobs = {} /\ posted = {}

LEMMA StepOneRequest ==
  ASSUME TypeOK, OneRequest, [Next]_vars PROVE OneRequest'
<1>. USE DEF OneRequest
<1>1. CASE EditForm \/ ChoosePreset \/ SwitchRss \/ SwitchPlatform \/ DomSelect
           \/ ApplySuggestions \/ ApplyRecommended
  BY <1>1, FormStep
<1>2. CASE OnAnalyze \/ OnTest \/ OnPreviewScrape
  <2>1. CASE Begins
    <3>1. PICK j \in Request : j.gen = gen' /\ jobs' = jobs \cup {j}
      BY <2>1 DEF Begins
    <3>2. dialog = "open" => jobs' = {j} /\ posted' = {}
      BY <2>1, <3>1 DEF Begins
    <3>. QED BY <2>1, <3>1, <3>2 DEF Begins
  <2>2. CASE TestsAtOnce BY <2>2 DEF TestsAtOnce
  <2>. QED BY <1>2, <2>1, <2>2, RequestStep
<1>3. CASE Work
  <2>. SUFFICES ASSUME dialog = "open"
                PROVE  busy' /\ \E c : jobs' = {} /\ posted' = {c} /\ c.request.gen = gen'
    BY <1>3 DEF Work
  <2>1. PICK j \in jobs, loaded \in BOOLEAN :
          /\ jobs' = jobs \ {j}
          /\ posted' = posted \cup {[request |-> j, loaded |-> loaded]}
          /\ UNCHANGED <<busy, gen>>
    BY <1>3 DEF Work
  <2>2. busy /\ jobs = {j} /\ posted = {} /\ j.gen = gen
    BY <2>1
  <2>3. jobs' = {} /\ posted' = {[request |-> j, loaded |-> loaded]}
    BY <2>1, <2>2
  <2>4. [request |-> j, loaded |-> loaded].request.gen = gen'
    BY <2>1, <2>2
  <2>. QED BY <2>1, <2>2, <2>3, <2>4
<1>4. CASE Callback
  <2>. SUFFICES ASSUME dialog = "open" PROVE ~busy' /\ jobs' = {} /\ posted' = {}
    BY <1>4 DEF Callback
  <2>1. PICK c \in posted :
          /\ posted' = posted \ {c} /\ busy' = (busy /\ c.request.gen # gen)
          /\ UNCHANGED jobs
    BY <1>4 DEF Callback
  <2>2. busy /\ jobs = {} /\ posted = {c} /\ c.request.gen = gen
    BY <2>1
  <2>. QED BY <2>1, <2>2
<1>5. CASE SaveSite \/ Cancel
  BY <1>5 DEF SaveSite, Cancel
<1>6. CASE UNCHANGED vars
  BY <1>6
<1>. QED BY <1>1, <1>2, <1>3, <1>4, <1>5, <1>6 DEF Next

\* One request at a time, and no button that stays dead: busy is the presence of a
\* thread or a callback (_begin_work, _schedule, _ui_call).
THEOREM OneRequestAtATime == Spec => []BusyMeansOneRequest
<1>1. Init => TypeOK /\ Foretold /\ OneRequest
  BY InitTyped DEF Init, OneRequest
<1>2. TypeOK /\ Foretold /\ OneRequest /\ [Next]_vars => TypeOK' /\ Foretold' /\ OneRequest'
  BY StepTyped, StepOneRequest
<1>3. ASSUME TypeOK, OneRequest PROVE BusyMeansOneRequest
  <2>1. Cardinality({}) = 0 /\ \A x : Cardinality({x}) = 1
    BY FS_EmptySet, FS_Singleton
  <2>2. CASE dialog # "open" BY <2>2 DEF BusyMeansOneRequest
  <2>3. CASE dialog = "open" /\ busy
    <3>1. \/ Cardinality(jobs) = 1 /\ Cardinality(posted) = 0
          \/ Cardinality(jobs) = 0 /\ Cardinality(posted) = 1
      BY <1>3, <2>1, <2>3, Zenon DEF OneRequest
    <3>2. Cardinality(jobs) + Cardinality(posted) = 1 BY <3>1
    <3>. QED BY <2>3, <3>2 DEF BusyMeansOneRequest
  <2>4. CASE dialog = "open" /\ ~busy
    <3>1. Cardinality(jobs) = 0 /\ Cardinality(posted) = 0
      BY <1>3, <2>1, <2>4, Zenon DEF OneRequest
    <3>2. Cardinality(jobs) + Cardinality(posted) = 0 BY <3>1
    <3>. QED BY <2>4, <3>2 DEF BusyMeansOneRequest
  <2>. QED BY <2>2, <2>3, <2>4
<1>. QED BY <1>1, <1>2, <1>3, PTL DEF Spec

\* What is tested is what the suggestions come from: the two pages in memory are
\* set together, by an analysis and by a test (_apply_analysis, _finish_test).
THEOREM TestsTheAnalysed == Spec => []TestedIsAnalysed
<1>1. Init => TypeOK /\ Foretold /\ TestedIsAnalysed
  BY InitTyped DEF Init, TestedIsAnalysed
<1>2. ASSUME TypeOK, Foretold, TestedIsAnalysed, [Next]_vars PROVE TestedIsAnalysed'
  <2>. USE DEF TestedIsAnalysed
  <2>1. CASE EditForm \/ ChoosePreset \/ SwitchRss \/ SwitchPlatform \/ DomSelect
             \/ ApplySuggestions \/ ApplyRecommended
    BY <1>2, <2>1, FormStep
  <2>2. CASE OnAnalyze \/ OnTest \/ OnPreviewScrape
    BY <1>2, <2>2, RequestStep DEF Begins, TestsAtOnce
  <2>3. CASE Callback
    BY <1>2, <2>3 DEF Callback, ApplyAnalysis, FinishTest
  <2>4. CASE Work \/ SaveSite \/ Cancel \/ UNCHANGED vars
    BY <1>2, <2>4 DEF Work, SaveSite, Cancel
  <2>. QED BY <1>2, <2>1, <2>2, <2>3, <2>4 DEF Next
<1>3. TypeOK /\ Foretold /\ TestedIsAnalysed /\ [Next]_vars =>
        TypeOK' /\ Foretold' /\ TestedIsAnalysed'
  BY <1>2, StepTyped
<1>. QED BY <1>1, <1>3, PTL DEF Spec
=============================================================================
