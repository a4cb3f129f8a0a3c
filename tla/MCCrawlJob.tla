---------------------------- MODULE MCCrawlJob ----------------------------
(* CrawlJob on a small site, with a cycle and a page two others link to. *)
EXTENDS CrawlJob

CONSTANTS a, b, c, d

MCURL == {a, b, c, d}
MCLinks == [url \in MCURL |->
              CASE url = a -> <<b, c>>
                [] url = b -> <<c, d>>
                [] url = c -> <<a>>
                [] url = d -> << >>]
MCSitemap == <<c, a>>
=============================================================================
