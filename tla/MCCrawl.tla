------------------------------ MODULE MCCrawl ------------------------------
(* A web of five URLs on two hosts for CrawlWorkflow: two spellings of one  *)
(* page, a page that redirects, one that is fresh, links across hosts and a *)
(* sitemap that lists what no page links to.                                *)
EXTENDS CrawlWorkflow, TLC

MCKeyOf == "home" :> "home" @@ "home2" :> "home" @@ "news" :> "news"
             @@ "about" :> "about" @@ "shop" :> "shop"
MCUrl == DOMAIN MCKeyOf
MCKey == {MCKeyOf[u] : u \in MCUrl}
MCHost == {"a", "b", "c"}
MCHostOf == [u \in MCUrl |-> IF u = "shop" THEN "b" ELSE "a"]
MCLinks == [u \in MCUrl |-> CASE u = "home" -> {"news", "home2"}
                              [] u = "shop" -> {"home2"}
                              [] OTHER -> {"home2", "shop", "about"}]
MCAliases == [u \in MCUrl |-> IF u = "shop" THEN {"about"} ELSE {}]
MCSiteOf == [u \in MCUrl |-> IF u = "shop" THEN "c" ELSE MCHostOf[u]]
MCSeedUrl == <<"home", "shop">>
MCSeedPriority == <<1, 0>>
MCPageLocs == "index" :> <<>> @@ "old" :> <<"home2">> @@ "new" :> <<"news">>
                @@ "shops" :> <<"home2", "about", "shop">>
MCSitemapFile == DOMAIN MCPageLocs
MCChildLocs == [f \in MCSitemapFile |-> IF f = "index" THEN <<"old", "new">> ELSE <<>>]
MCDeclared == <<<<"index">>, <<"shops">>>>
MCFresh == {"about"}
=============================================================================
