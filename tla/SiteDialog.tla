----------------------------- MODULE SiteDialog -----------------------------
(***************************************************************************)
(* The dialog that adds or edits a site, with its selector assistant       *)
(* (gui/sync_tab/sites.py and selector_wizard.py).  Pages are loaded by    *)
(* threads; their results come back to the window as callbacks, which find *)
(* a form edited meanwhile, a dialog closed, or a later request.           *)
(***************************************************************************)
EXTENDS CssScraper, FiniteSets

CONSTANTS PageOf,         \* what each address shows, a sequence of posts
          Limits,         \* the numbers of articles the user may ask for
          PreviewLimit,   \* the most a preview collects (3 in the code)
          UsualLimit,     \* the number of articles a recommendation asks for (5)
          Platform,       \* the addresses of a platform with a scraper of its own
          FeedOf,         \* the feed a page links to, or None
          MaxRequests     \* bound: requests of one dialog

ASSUME DialogAssumption ==
    /\ PageOf \in [Url -> Seq(Post)]
    /\ Limits \subseteq Nat \ {0} /\ UsualLimit \in Limits
    /\ PreviewLimit \in Nat \ {0} /\ MaxRequests \in Nat
    /\ Platform \subseteq Url /\ FeedOf \in [Url -> Url \cup {None}]

VARIABLES form,      \* the entries of the dialog
          dialog,    \* "open", "closed"
          busy, gen, \* _busy and _req_gen of the assistant
          jobs,      \* its threads
          posted,    \* the callbacks they have scheduled
          html,      \* the page of _html and _base_url
          analysis,  \* the page of _analysis, if it was read
          tree,      \* the page of the outline and the hint buttons
          result,    \* what the result field is about
          saved      \* the site, once it is saved

assistant == <<busy, gen, jobs, posted, html, analysis, tree>>
vars == <<form, dialog, assistant, result, saved>>

Types == {"css", "rss", "platform"}
\* "selectors": the page they were made for; they fit no other.
Form == [type : Types, url : Url, selectors : Url \cup {None}, detail : BOOLEAN,
         limit : Limits \cup {PreviewLimit}]
Kinds == {"analysis", "test", "preview"}
Request == [kind : Kinds, gen : 1..MaxRequests, site : Form]
NoResult == [kind |-> "none", site |-> None, articles |-> <<>>]

TypeOK ==
    /\ form \in Form /\ (form.type # "css" => ~form.detail)
    /\ dialog \in {"open", "closed"} /\ busy \in BOOLEAN /\ gen \in 0..MaxRequests
    /\ \A j \in jobs : j \in Request
    /\ \A c \in posted : c.request \in Request
    /\ {html, analysis, tree} \subseteq Url \cup {None}
    /\ result.kind \in Kinds \cup {"none"} /\ Len(result.articles) <= PreviewLimit
    /\ saved \in Form \cup {None}

Init ==
    /\ form \in {f \in Form : f.type = "css" /\ f.selectors = None /\ ~f.detail}
    /\ dialog = "open" /\ busy = FALSE /\ gen = 0 /\ jobs = {} /\ posted = {}
    /\ html = None /\ analysis = None /\ tree = None
    /\ result = NoResult /\ saved = None

-----------------------------------------------------------------------------
(* The form.                                                               *)

\* on_type_change
WithType(f, t) == [f EXCEPT !.type = t, !.detail = @ /\ t = "css"]

Fill(f) == form' = f /\ UNCHANGED <<dialog, assistant, result, saved>>

\* The user types an address, a limit or selectors (which then fit the page in
\* the form or are emptied), or picks a type, a preset or the detail option.
EditForm ==
    /\ dialog = "open"
    /\ \/ \E u \in Url : Fill([form EXCEPT !.url = u])
       \/ \E n \in Limits : Fill([form EXCEPT !.limit = n])
       \/ \E s \in {form.url, None} : form.type = "css" /\ Fill([form EXCEPT !.selectors = s])
       \/ \E t \in Types : Fill(WithType(form, t))
       \/ form.type = "css" /\ Fill([form EXCEPT !.detail = ~@])

ChoosePreset ==
    /\ dialog = "open"
    /\ \E u \in Url, n \in Limits, t \in Types :
          Fill(WithType([form EXCEPT !.url = u, !.limit = n], t))

\* build_recommended_site_config: the platform's scraper, a feed, or selectors,
\* and the usual number of articles.
Recommended(u, short) ==
    [ IF u \in Platform THEN [WithType(form, "platform") EXCEPT !.url = u]
      ELSE IF FeedOf[u] # None THEN [WithType(form, "rss") EXCEPT !.url = FeedOf[u]]
      ELSE [form EXCEPT !.type = "css", !.url = u, !.selectors = u, !.detail = short]
      EXCEPT !.limit = UsualLimit ]

\* The hint buttons are those of the last outline.
SwitchRss ==
    /\ dialog = "open" /\ tree # None /\ FeedOf[tree] # None
    /\ Fill([WithType(form, "rss") EXCEPT !.url = FeedOf[tree]])

SwitchPlatform ==
    /\ dialog = "open" /\ tree \in Platform
    /\ Fill(WithType(form, "platform"))

DomSelect ==
    /\ dialog = "open" /\ tree # None
    /\ Fill([form EXCEPT !.selectors = tree])

\* The first writes selectors and nothing else, whatever page the form names by
\* now (with the detail option if the list is short); the second the address too,
\* and its settings into the result field.
ApplySuggestions ==
    /\ dialog = "open" /\ analysis # None
    /\ \/ Fill([form EXCEPT !.selectors = analysis])
       \/ Fill([form EXCEPT !.selectors = analysis, !.type = "css", !.detail = TRUE])

ApplyRecommended ==
    /\ dialog = "open" /\ analysis # None
    /\ \E short \in BOOLEAN : form' = Recommended(analysis, short)
    /\ result' = NoResult
    /\ UNCHANGED <<dialog, assistant, saved>>

-----------------------------------------------------------------------------
(* The requests.                                                           *)

\* Faulty: a request while another one runs.
BeginAnyway(request) ==
    /\ gen < MaxRequests
    /\ busy' = TRUE /\ gen' = gen + 1
    /\ jobs' = jobs \cup {request}

\* _begin_work
BeginWork(request) ==
    /\ ~busy /\ gen < MaxRequests
    /\ busy' = TRUE /\ gen' = gen + 1
    /\ jobs' = jobs \cup {request}

Ask(kind, site) ==
    /\ BeginWork([kind |-> kind, gen |-> gen + 1, site |-> site])
    /\ UNCHANGED <<form, dialog, posted, html, analysis, tree, saved>>

\* Of an analysis and of a test only the address matters here.
AddressOf(site) == [site EXCEPT !.type = "css", !.selectors = None, !.detail = FALSE,
                                !.limit = PreviewLimit]

OnAnalyze ==
    /\ dialog = "open"
    /\ Ask("analysis", AddressOf(form))
    /\ result' = NoResult

\* A page in memory is tested at once, whatever the form's address is by now.
OnTest ==
    /\ dialog = "open" /\ form.selectors # None
    /\ IF html # None
       THEN /\ result' = [NoResult EXCEPT !.kind = "test"]
            /\ UNCHANGED <<form, dialog, assistant, saved>>
       ELSE Ask("test", AddressOf(form)) /\ UNCHANGED result

\* Faulty: the preview's limit, whatever the form's.
AlwaysThree(site) == [site EXCEPT !.limit = PreviewLimit]
\* Faulty: the form's limit.
AsEntered(site) == site

PreviewSite(site) ==
    [site EXCEPT !.limit = IF @ < PreviewLimit THEN @ ELSE PreviewLimit]

OnPreviewScrape ==
    /\ dialog = "open" /\ form.type = "css"
    /\ Ask("preview", form)
    /\ UNCHANGED result

-----------------------------------------------------------------------------
(* The threads and their callbacks.                                        *)

Articles(request) == FetchArticles(PageOf[request.site.url], PreviewSite(request.site))

\* analyze_page or fetch_articles, and _schedule: with the dialog gone only the
\* flag is reset.
Work ==
    \E j \in jobs :
        /\ jobs' = jobs \ {j}
        /\ IF dialog = "closed"
           THEN busy' = FALSE /\ UNCHANGED posted
           ELSE /\ \E loaded \in BOOLEAN :
                      posted' = posted \cup {[request |-> j, loaded |-> loaded]}
                /\ UNCHANGED busy
        /\ UNCHANGED <<form, dialog, gen, html, analysis, tree, result, saved>>

\* Faulty: the page before stays in memory when the new one cannot be read.
KeepHtml(u, loaded) ==
    /\ html' = IF loaded THEN u ELSE html
    /\ analysis' = IF loaded THEN u ELSE None
    /\ tree' = IF loaded THEN u ELSE tree

\* _apply_analysis; on an error the outline and the hints of the page before stay.
ApplyAnalysis(u, loaded) ==
    /\ html' = IF loaded THEN u ELSE None
    /\ analysis' = IF loaded THEN u ELSE None
    /\ tree' = IF loaded THEN u ELSE tree

\* _finish_test
FinishTest(u, loaded) ==
    /\ html' = IF loaded THEN u ELSE html
    /\ analysis' = IF loaded THEN u ELSE analysis
    /\ UNCHANGED tree

\* What the result field shows; of an analysis and a test only that they ended.
Shown(request, loaded) ==
    IF request.kind # "preview" THEN [NoResult EXCEPT !.kind = request.kind]
    ELSE [kind |-> "preview", site |-> request.site,
          articles |-> IF loaded THEN Articles(request) ELSE <<>>]

\* _ui_call, and _apply_analysis, _finish_test or _finish_preview.
Callback ==
    \E c \in posted :
        /\ posted' = posted \ {c}
        /\ busy' = (busy /\ c.request.gen # gen)
        /\ IF c.request.gen # gen \/ dialog = "closed"
           THEN UNCHANGED <<html, analysis, tree, result>>
           ELSE /\ \/ c.request.kind = "analysis" /\ ApplyAnalysis(c.request.site.url, c.loaded)
                   \/ c.request.kind = "test" /\ FinishTest(c.request.site.url, c.loaded)
                   \/ c.request.kind = "preview" /\ UNCHANGED <<html, analysis, tree>>
                /\ result' = Shown(c.request, c.loaded)
        /\ UNCHANGED <<form, dialog, gen, jobs, saved>>

-----------------------------------------------------------------------------
\* save_site: a css site needs its selectors.
SaveSite ==
    /\ dialog = "open"
    /\ form.type = "css" => form.selectors # None
    /\ saved' = form /\ dialog' = "closed"
    /\ UNCHANGED <<form, assistant, result>>

Cancel ==
    /\ dialog = "open"
    /\ dialog' = "closed"
    /\ UNCHANGED <<form, assistant, result, saved>>

Next == EditForm \/ ChoosePreset \/ SwitchRss \/ SwitchPlatform \/ DomSelect
        \/ ApplySuggestions \/ ApplyRecommended \/ OnAnalyze \/ OnTest
        \/ OnPreviewScrape \/ Work \/ Callback \/ SaveSite \/ Cancel

Spec == Init /\ [][Next]_vars

-----------------------------------------------------------------------------
\* The assistant is busy as long as one of its requests is under way, and only
\* then: no failure, edit or late answer leaves its buttons dead or lets two
\* threads load pages for it (_begin_work, _schedule, _ui_call).
BusyMeansOneRequest ==
    dialog = "open" =>
        Cardinality(jobs) + Cardinality(posted) = IF busy THEN 1 ELSE 0

\* The page that selectors are tested on is the one whose suggestions the
\* buttons apply, through any sequence of analyses and tests that succeed or
\* fail (_html and _analysis).
TestedIsAnalysed == html = analysis

\* What a preview has listed comes first in what a sync of the site collects, if
\* it was saved as it was previewed and its page has not changed.
PreviewForetells ==
    result.articles # <<>> /\ saved = result.site =>
        LET all == FetchArticles(PageOf[saved.url], saved)
        IN Len(result.articles) <= Len(all)
           /\ SubSeq(all, 1, Len(result.articles)) = result.articles
=============================================================================
