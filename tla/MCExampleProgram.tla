-------------------------- MODULE MCExampleProgram --------------------------
(* Instances of ExampleProgram: feeds in both formats that name two topics  *)
(* and three hubs, one of which is not a URI, with every way to declare the *)
(* namespace of a link.                                                     *)
EXTENDS ExampleProgram

CONSTANTS h1, h2, h3, t1, t2

MCNoTimer == -1

Link(rel, href) == [rel |-> rel, href |-> href]

AtomFeed ==
    [format |-> "atom", title |-> "t", id |-> "i", entries |-> <<>>,
     links |-> <<Link("hub", h1), Link("self", t2), Link("hub", h2), Link("self", t1)>>]

BadFeed == [AtomFeed EXCEPT !.links = <<Link("hub", h1), Link("hub", h3), Link("hub", h2)>>]

RssLink(rel, href, inline) == [rel |-> rel, href |-> href, inline |-> inline]

RssChannel ==
    [format |-> "rss", title |-> "t", link |-> "l", items |-> <<>>,
     prefixes |-> <<[atom  |-> FALSE,
                     links |-> <<RssLink("hub", h2, "atom"), RssLink("hub", h3, Absent)>>],
                    [atom  |-> TRUE,
                     links |-> <<RssLink("hub", h1, Absent), RssLink("hub", h3, "other"),
                                 RssLink("self", Absent, Absent)>>]>>]

Response(media, document) == [ok |-> TRUE, media |-> media, document |-> document]

MCResponses ==
    {Response(Absent, AtomFeed), Response(Absent, BadFeed),
     Response([type |-> "text", subtype |-> "html", suffix |-> Absent], RssChannel),
     Response([type |-> "application", subtype |-> "atom", suffix |-> "xml"], RssChannel),
     [ok |-> FALSE, media |-> Absent, document |-> AtomFeed]}
=============================================================================
