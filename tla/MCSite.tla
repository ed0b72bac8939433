------------------------------- MODULE MCSite -------------------------------
(* A site of two pages for SitePages: every kind of content in turn. *)
EXTENDS SitePages
MCKind == [pv \in Page \X Version |->
  CASE pv = <<"home", "v1">> -> "good"
    [] pv = <<"home", "v2">> -> "blank"
    [] pv = <<"news", "v1">> -> "infected"
    [] pv = <<"news", "v2">> -> "unsavable"]
=============================================================================
