---------------------------- MODULE MCWebResearch ----------------------------
EXTENDS WebResearch

(* A news site with an index and four articles; an article of another      *)
(* site; a search page.                                                    *)
MCHost == [index |-> "site", story |-> "site", second |-> "site", third |-> "site", fourth |-> "site",
           report |-> "other", search |-> "engine"]
MCPages == DOMAIN MCHost
MCFallback == <<"index", "search">>
=============================================================================
